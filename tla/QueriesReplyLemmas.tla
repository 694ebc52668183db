-------------------------- MODULE QueriesReplyLemmas --------------------------
(***************************************************************************)
(* What happens to the objects that were built from a reply, and to the    *)
(* lists of them, when the reply gets one line longer: the facts about the *)
(* operators of CompleteOrTold that the proofs of QueriesReplyProofs rest  *)
(* on. Nothing here is about states.                                       *)
(***************************************************************************)
EXTENDS Queries, SequenceTheorems, TLAPS

-----------------------------------------------------------------------------
(* A reply that gets one line longer. *)

LEMMA Longer ==
  ASSUME NEW T, NEW a \in Seq(T), NEW k
  PROVE  /\ Len(a) \in Nat /\ Len(Append(a, k)) = Len(a) + 1
         /\ DOMAIN a = 1..Len(a) /\ DOMAIN Append(a, k) = 1..(Len(a) + 1)
         /\ 1..(Len(a) + 1) = 1..Len(a) \cup {Len(a) + 1}
         /\ Append(a, k)[Len(a) + 1] = k
         /\ \A i \in 1..Len(a) : Append(a, k)[i] = a[i]
  <1>1. /\ Len(a) \in Nat /\ Len(Append(a, k)) = Len(a) + 1
        /\ DOMAIN a = 1..Len(a) /\ DOMAIN Append(a, k) = 1..(Len(a) + 1)
        /\ Append(a, k)[Len(a) + 1] = k
        /\ \A i \in 1..Len(a) : Append(a, k)[i] = a[i]
    OBVIOUS
  <1> QED
    BY <1>1

LEMMA Shortened ==
  ASSUME NEW T, NEW a \in Seq(T), NEW k
  PROVE  SubSeq(Append(a, k), 1, Len(Append(a, k)) - 1) = a
  <1> DEFINE b == Append(a, k)
             c == SubSeq(b, 1, Len(a))
  <1>1. /\ Len(a) \in Nat /\ Len(b) = Len(a) + 1 /\ b \in Seq(T \cup {k})
        /\ a \in Seq(T \cup {k}) /\ \A i \in 1..Len(a) : b[i] = a[i] /\ b[i] \in T \cup {k}
    OBVIOUS
  <1> HIDE DEF b
  <1>2. /\ c \in Seq(T \cup {k}) /\ Len(c) = Len(a)
        /\ \A i \in 1..Len(a) : c[i] = b[i]
    BY <1>1, SubSeqProperties
  <1>3. c = a
    <2> HIDE DEF c
    <2> QED
      BY <1>1, <1>2, SeqEqual
  <1> QED
    BY <1>1, <1>3 DEF b

LEMMA LastLine ==
  ASSUME NEW T, NEW a \in Seq(T), Len(a) # 0
  PROVE  LET b == SubSeq(a, 1, Len(a) - 1)
         IN  /\ b \in Seq(T) /\ Len(a) = Len(b) + 1
             /\ a = Append(b, a[Len(a)])
  <1> DEFINE b == SubSeq(a, 1, Len(a) - 1)
             c == Append(b, a[Len(a)])
  <1>1. Len(a) \in Nat \ {0} /\ \A i \in 1..Len(a) : a[i] \in T
    OBVIOUS
  <1>2. /\ b \in Seq(T) /\ Len(b) = Len(a) - 1
        /\ \A i \in 1..(Len(a) - 1) : b[i] = a[i]
    <2> DEFINE n == Len(a) - 1
    <2>1. n \in Nat /\ n \in Int /\ \A i \in 1..n : a[i] \in T
      BY <1>1
    <2> HIDE DEF n
    <2>2. /\ SubSeq(a, 1, n) \in Seq(T)
          /\ Len(SubSeq(a, 1, n)) = IF 1 <= n THEN n - 1 + 1 ELSE 0
          /\ \A i \in 1..(n - 1 + 1) : SubSeq(a, 1, n)[i] = a[1 + i - 1]
      BY <2>1, SubSeqProperties
    <2>3. (IF 1 <= n THEN n - 1 + 1 ELSE 0) = n /\ n - 1 + 1 = n
      BY <2>1
    <2>4. \A i \in 1..n : 1 + i - 1 = i
      BY <2>1
    <2> QED
      BY <2>2, <2>3, <2>4 DEF n
  <1> HIDE DEF b
  <1>3. c \in Seq(T) /\ Len(c) = Len(a) /\ \A i \in 1..Len(a) : c[i] = a[i]
    <2>1. c \in Seq(T) /\ Len(c) = Len(b) + 1 /\ c[Len(b) + 1] = a[Len(a)]
          /\ \A i \in 1..Len(b) : c[i] = b[i]
      BY <1>1, <1>2
    <2> HIDE DEF c
    <2> QED
      BY <1>1, <1>2, <2>1
  <1>4. c = a
    <2> HIDE DEF c
    <2> QED
      BY <1>3, SeqEqual
  <1> QED
    BY <1>1, <1>2, <1>4 DEF b

LEMMA LongerLines ==
  ASSUME NEW T, NEW a \in Seq(T), NEW k, NEW keys
  PROVE  /\ LinesOf(a, keys) \subseteq 1..Len(a)
         /\ LinesOf(Append(a, k), keys) =
              IF k \in keys THEN LinesOf(a, keys) \cup {Len(a) + 1} ELSE LinesOf(a, keys)
  <1> DEFINE b == Append(a, k)
  <1>1. /\ DOMAIN a = 1..Len(a) /\ DOMAIN b = 1..Len(a) \cup {Len(a) + 1}
        /\ b[Len(a) + 1] = k
        /\ \A i \in 1..Len(a) : b[i] = a[i]
    BY Longer
  <1> HIDE DEF b
  <1>2. LinesOf(b, keys) = {i \in 1..Len(a) : a[i] \in keys} \cup {i \in {Len(a) + 1} : k \in keys}
    BY <1>1 DEF LinesOf
  <1>3. LinesOf(a, keys) = {i \in 1..Len(a) : a[i] \in keys}
    BY <1>1 DEF LinesOf
  <1> QED
    BY <1>2, <1>3 DEF b

LEMMA LongerStarts ==
  ASSUME NEW T, NEW a \in Seq(T), NEW k, NEW f
  PROVE  /\ Starts(f, a) \subseteq 1..Len(a)
         /\ Starts(f, Append(a, k)) =
              IF k \in Begins(f) THEN Starts(f, a) \cup {Len(a) + 1} ELSE Starts(f, a)
  BY LongerLines DEF Starts

(* What belongs to the place i of a reply is not changed by a line that    *)
(* starts something else, nor by any line once something else has started. *)
LEMMA UnderStart ==
  ASSUME NEW T, NEW a \in Seq(T), NEW f, NEW k \in Begins(f), NEW i,
         NEW keys, keys \cap Begins(f) = {}
  PROVE  Under(f, Append(a, k), i, keys) = Under(f, a, i, keys)
  <1>1. k \notin keys
    OBVIOUS
  <1>2. LinesOf(Append(a, k), keys) = LinesOf(a, keys) /\ LinesOf(a, keys) \subseteq 1..Len(a)
    BY <1>1, LongerLines
  <1>3. Starts(f, Append(a, k)) = Starts(f, a) \cup {Len(a) + 1}
    BY LongerStarts
  <1>4. \A j \in 1..Len(a) : ~(Len(a) + 1 < j)
    OBVIOUS
  <1> QED
    BY <1>2, <1>3, <1>4 DEF Under

LEMMA UnderClosed ==
  ASSUME NEW T, NEW a \in Seq(T), NEW f, NEW k, NEW i,
         NEW keys, NEW s \in Starts(f, a), i < s
  PROVE  Under(f, Append(a, k), i, keys) = Under(f, a, i, keys)
  <1>1. /\ LinesOf(a, keys) \subseteq LinesOf(Append(a, k), keys)
        /\ LinesOf(Append(a, k), keys) \subseteq LinesOf(a, keys) \cup {Len(a) + 1}
        /\ LinesOf(a, keys) \subseteq 1..Len(a)
    BY LongerLines
  <1>2. /\ Starts(f, a) \subseteq Starts(f, Append(a, k))
        /\ Starts(f, Append(a, k)) \subseteq Starts(f, a) \cup {Len(a) + 1}
        /\ s \in 1..Len(a)
    BY LongerStarts
  <1>3. Len(a) \in Nat
    OBVIOUS
  <1>4. s < Len(a) + 1 /\ \A j \in 1..Len(a) : ~(Len(a) + 1 < j)
    BY <1>2, <1>3
  <1>5. Len(a) + 1 \notin Under(f, Append(a, k), i, keys)
    BY <1>2, <1>4 DEF Under
  <1>6. ASSUME NEW j \in LinesOf(a, keys)
        PROVE  j \in Under(f, Append(a, k), i, keys) <=> j \in Under(f, a, i, keys)
    BY <1>1, <1>2, <1>4 DEF Under
  <1>7. /\ Under(f, a, i, keys) \subseteq LinesOf(a, keys)
        /\ Under(f, Append(a, k), i, keys) \subseteq LinesOf(a, keys) \cup {Len(a) + 1}
    BY <1>1 DEF Under
  <1> QED
    BY <1>5, <1>6, <1>7

(* To the last that has started every line belongs.                        *)
LEMMA UnderGrows ==
  ASSUME NEW T, NEW a \in Seq(T), NEW f, NEW k, k \notin Begins(f),
         NEW i \in Last(Starts(f, a)), NEW keys
  PROVE  Under(f, Append(a, k), i, keys) =
           IF k \in keys THEN Under(f, a, i, keys) \cup {Len(a) + 1} ELSE Under(f, a, i, keys)
  <1>1. Starts(f, Append(a, k)) = Starts(f, a) /\ Starts(f, a) \subseteq 1..Len(a)
    BY LongerStarts
  <1>2. LinesOf(Append(a, k), keys) =
          IF k \in keys THEN LinesOf(a, keys) \cup {Len(a) + 1} ELSE LinesOf(a, keys)
    BY LongerLines
  <1>3. i \in 1..Len(a) /\ Len(a) \in Nat /\ \A s \in Starts(f, a) : ~(i < s)
    BY <1>1 DEF Last
  <1>4. i < Len(a) + 1
    BY <1>3
  <1> QED
    BY <1>1, <1>2, <1>3, <1>4 DEF Under

-----------------------------------------------------------------------------
(* Objects and lists, when the reply gets one line longer. *)

(* No attribute starts anything.                                           *)
LEMMA AttributesStartNothing ==
  ASSUME NEW f, NEW a, NEW i \in Starts(f, a)
  PROVE  /\ Joined(TypeAt(f, a, i)) \cap Begins(f) = {}
         /\ TypeAt(f, a, i) = "output" => {"outputname"} \cap Begins(f) = {}
         /\ TypeAt(f, a, i) # "output" => Single(TypeAt(f, a, i)) \cap Begins(f) = {}
  <1>1. CASE f.read \in {"entities", "entity"}
    BY <1>1 DEF Starts, LinesOf, TypeAt, Begins, EntityType, StartKeys, Joined, Single
  <1>2. CASE f.read \in {"strings", "string"}
    BY <1>2 DEF TypeAt, Joined, Single
  <1>3. CASE f.read = "outputs"
    BY <1>3 DEF TypeAt, Begins, Joined, Single
  <1>4. CASE f.read \notin {"entities", "entity", "strings", "string", "outputs"}
    BY <1>4 DEF Begins
  <1> QED
    BY <1>1, <1>2, <1>3, <1>4

LEMMA TypeStays ==
  ASSUME NEW T, NEW a \in Seq(T), NEW f, NEW k
  PROVE  /\ \A i \in 1..Len(a) : TypeAt(f, Append(a, k), i) = TypeAt(f, a, i)
         /\ \A S \in SUBSET (1..Len(a)) : Kept(f, Append(a, k), S) = Kept(f, a, S)
  <1>1. \A i \in 1..Len(a) : TypeAt(f, Append(a, k), i) = TypeAt(f, a, i)
    BY Longer DEF TypeAt
  <1> QED
    BY <1>1 DEF Kept

(* The object fits a reply as soon as its lines are the same.              *)
LEMMA FitsSame ==
  ASSUME NEW f, NEW a, NEW b, NEW e,
         TypeAt(f, a, e.at) = TypeAt(f, b, e.at),
         Under(f, a, e.at, Joined(e.type)) = Under(f, b, e.at, Joined(e.type)),
         e.type = "output" => Under(f, a, e.at, {"outputname"}) = Under(f, b, e.at, {"outputname"}),
         e.type # "output" =>
           Under(f, a, e.at, Single(e.type)) = Under(f, b, e.at, Single(e.type))
  PROVE  Fits(f, a, e) <=> Fits(f, b, e)
  BY DEF Fits

LEMMA FitsStart ==
  ASSUME NEW T, NEW a \in Seq(T), NEW f, NEW k \in Begins(f),
         NEW e, e.at \in Starts(f, a)
  PROVE  Fits(f, a, e) <=> Fits(f, Append(a, k), e)
  <1> DEFINE type == TypeAt(f, a, e.at)
  <1>1. e.at \in 1..Len(a)
    BY LongerStarts
  <1>2. TypeAt(f, Append(a, k), e.at) = type
    BY <1>1, TypeStays
  <1>3. /\ Joined(type) \cap Begins(f) = {}
        /\ type = "output" => {"outputname"} \cap Begins(f) = {}
        /\ type # "output" => Single(type) \cap Begins(f) = {}
    BY AttributesStartNothing
  <1> HIDE DEF type
  <1>4. CASE e.type = type
    <2>1. Under(f, a, e.at, Joined(e.type)) = Under(f, Append(a, k), e.at, Joined(e.type))
      BY <1>3, <1>4, UnderStart
    <2>2. e.type = "output" =>
            Under(f, a, e.at, {"outputname"}) = Under(f, Append(a, k), e.at, {"outputname"})
      BY <1>3, <1>4, UnderStart
    <2>3. e.type # "output" =>
            Under(f, a, e.at, Single(e.type)) = Under(f, Append(a, k), e.at, Single(e.type))
      BY <1>3, <1>4, UnderStart
    <2> QED
      BY <1>2, <2>1, <2>2, <2>3, FitsSame DEF type
  <1>5. CASE e.type # type
    BY <1>2, <1>5 DEF Fits, type
  <1> QED
    BY <1>4, <1>5

LEMMA FitsClosed ==
  ASSUME NEW T, NEW a \in Seq(T), NEW f, NEW k,
         NEW e, e.at \in Starts(f, a), NEW s \in Starts(f, a), e.at < s
  PROVE  Fits(f, a, e) <=> Fits(f, Append(a, k), e)
  <1>1. e.at \in 1..Len(a)
    BY LongerStarts
  <1>2. TypeAt(f, Append(a, k), e.at) = TypeAt(f, a, e.at)
    BY <1>1, TypeStays
  <1>3. \A keys : Under(f, a, e.at, keys) = Under(f, Append(a, k), e.at, keys)
    BY UnderClosed
  <1> QED
    BY <1>2, <1>3, FitsSame

(* A string has no lines of its own.                                       *)
LEMMA FitsString ==
  ASSUME NEW f, f.read \in {"strings", "string"}, NEW a, NEW b, NEW e
  PROVE  Fits(f, a, e) <=> Fits(f, b, e)
  <1>1. TypeAt(f, a, e.at) = "string" /\ TypeAt(f, b, e.at) = "string"
    BY DEF TypeAt
  <1>2. \A i : Under(f, a, i, {}) = {} /\ Under(f, b, i, {}) = {}
    BY DEF Under, LinesOf
  <1>3. Joined("string") = {} /\ Single("string") = {}
    BY DEF Joined, Single
  <1>4. CASE e.type = "string"
    BY <1>1, <1>2, <1>3, <1>4, FitsSame
  <1>5. CASE e.type # "string"
    BY <1>1, <1>5 DEF Fits
  <1> QED
    BY <1>4, <1>5

(* The places of a list.                                                   *)
LEMMA PlacesOfList ==
  ASSUME NEW f, NEW a, NEW S, NEW list \in Seq(Thing), Represents(f, a, list, S)
  PROVE  /\ Objects(list) = S
         /\ \A m \in DOMAIN list : list[m].at \in S
         /\ S = {} <=> list = <<>>
  <1>1. {list[m].at : m \in DOMAIN list} = S
    BY DEF Represents, InOrder
  <1>2. DOMAIN list = {} <=> list = <<>>
    OBVIOUS
  <1> QED
    BY <1>1, <1>2 DEF Objects

LEMMA EmptyList == \A f, a : Represents(f, a, <<>>, {})
  BY DEF Represents, InOrder

LEMMA ListFits ==
  ASSUME NEW f, NEW a, NEW b, NEW S, NEW list \in Seq(Thing), Represents(f, a, list, S),
         \A e \in Thing : e.at \in S /\ Fits(f, a, e) => Fits(f, b, e)
  PROVE  Represents(f, b, list, S)
  <1>1. \A m \in DOMAIN list : list[m] \in Thing /\ list[m].at \in S
    BY PlacesOfList
  <1> QED
    BY <1>1 DEF Represents

LEMMA ListGrows ==
  ASSUME NEW f, NEW a, NEW S, NEW list \in Seq(Thing), Represents(f, a, list, S),
         NEW e \in Thing, Fits(f, a, e), \A i \in S : i < e.at
  PROVE  Represents(f, a, Append(list, e), S \cup {e.at})
  <1> DEFINE n == Len(list)
             longer == Append(list, e)
             places == [m \in DOMAIN longer |-> longer[m].at]
  <1>1. /\ n \in Nat /\ DOMAIN list = 1..n /\ DOMAIN longer = 1..(n + 1)
        /\ longer[n + 1] = e /\ \A m \in 1..n : longer[m] = list[m]
    OBVIOUS
  <1>2. 1..(n + 1) = 1..n \cup {n + 1}
    BY <1>1
  <1>3. {list[m].at : m \in 1..n} = S /\ \A k, m \in 1..n : k < m => list[k].at < list[m].at
    BY <1>1 DEF Represents, InOrder
  <1> HIDE DEF n, longer
  <1>4. {places[m] : m \in DOMAIN places} = S \cup {e.at}
    BY <1>1, <1>2, <1>3
  <1>5. ASSUME NEW k \in 1..(n + 1), NEW m \in 1..(n + 1), k < m
        PROVE  longer[k].at < longer[m].at
    <2>1. CASE m = n + 1
      <3>1. k \in 1..n
        BY <1>1, <1>5, <2>1
      <3> QED
        BY <1>1, <1>3, <2>1, <3>1
    <2>2. CASE m # n + 1
      BY <1>1, <1>2, <1>3, <1>5, <2>2
    <2> QED
      BY <2>1, <2>2
  <1>6. InOrder(places, S \cup {e.at})
    BY <1>1, <1>4, <1>5 DEF InOrder
  <1>7. \A m \in 1..(n + 1) : Fits(f, a, longer[m])
    BY <1>1, <1>2 DEF Represents
  <1> QED
    BY <1>1, <1>6, <1>7 DEF Represents, longer

LEMMA ListOfOne ==
  ASSUME NEW f, NEW a, NEW e \in Thing, Fits(f, a, e)
  PROVE  Represents(f, a, <<e>>, {e.at})
  <1>1. DOMAIN <<e>> = {1} /\ <<e>>[1] = e
    OBVIOUS
  <1> QED
    BY <1>1 DEF Represents, InOrder

(* A list of what started before is not changed by what starts now.        *)
LEMMA ListAtStart ==
  ASSUME NEW T, NEW a \in Seq(T), NEW f, NEW k \in Begins(f),
         NEW list \in Seq(Thing), NEW S \in SUBSET Starts(f, a)
  PROVE  Represents(f, a, list, S) <=> Represents(f, Append(a, k), list, S)
  <1>1. \A e \in Thing : e.at \in S => (Fits(f, a, e) <=> Fits(f, Append(a, k), e))
    BY FitsStart
  <1>2. Represents(f, a, list, S) => Represents(f, Append(a, k), list, S)
    BY <1>1, ListFits
  <1>3. Represents(f, Append(a, k), list, S) => Represents(f, a, list, S)
    BY <1>1, ListFits
  <1> QED
    BY <1>2, <1>3

LEMMA ListClosed ==
  ASSUME NEW T, NEW a \in Seq(T), NEW f, NEW k,
         NEW list \in Seq(Thing), NEW S \in SUBSET Starts(f, a),
         \A i \in S : \E s \in Starts(f, a) : i < s,
         Represents(f, a, list, S)
  PROVE  Represents(f, Append(a, k), list, S)
  <1>1. \A e \in Thing : e.at \in S => (Fits(f, a, e) <=> Fits(f, Append(a, k), e))
    BY FitsClosed
  <1> QED
    BY <1>1, ListFits

-----------------------------------------------------------------------------
(* An attribute is added to the object that is read. *)

LEMMA OrderGrows ==
  ASSUME NEW U, NEW q \in Seq(Nat), InOrder(q, U), NEW n \in Nat, \A i \in U : i < n
  PROVE  Append(q, n) \in Seq(Nat) /\ InOrder(Append(q, n), U \cup {n})
  <1> DEFINE c == Len(q)
             longer == Append(q, n)
  <1>1. /\ c \in Nat /\ DOMAIN q = 1..c /\ DOMAIN longer = 1..(c + 1)
        /\ longer[c + 1] = n /\ \A m \in 1..c : longer[m] = q[m]
    OBVIOUS
  <1>2. 1..(c + 1) = 1..c \cup {c + 1}
    BY <1>1
  <1>3. {q[m] : m \in 1..c} = U /\ \A k, m \in 1..c : k < m => q[k] < q[m]
    BY <1>1 DEF InOrder
  <1> HIDE DEF c, longer
  <1>4. {longer[m] : m \in DOMAIN longer} = U \cup {n}
    BY <1>1, <1>2, <1>3
  <1>5. ASSUME NEW k \in 1..(c + 1), NEW m \in 1..(c + 1), k < m
        PROVE  longer[k] < longer[m]
    <2>1. CASE m = c + 1
      <3>1. k \in 1..c
        BY <1>1, <1>5, <2>1
      <3> QED
        BY <1>1, <1>3, <2>1, <3>1
    <2>2. CASE m # c + 1
      BY <1>1, <1>2, <1>3, <1>5, <2>2
    <2> QED
      BY <2>1, <2>2
  <1>6. InOrder(longer, U \cup {n})
    BY <1>1, <1>4, <1>5 DEF InOrder
  <1> QED
    BY <1>6 DEF longer

LEMMA UnderIn ==
  ASSUME NEW T, NEW a \in Seq(T), NEW f, NEW i, NEW keys
  PROVE  Under(f, a, i, keys) \subseteq 1..Len(a)
  BY LongerLines DEF Under

(* The entity e with the line k at place n.                                *)
Attributed(e, k, n) ==
  CASE e.type = "song" /\ k = "Artist" -> [e EXCEPT !.joined = Append(@, n)]
    [] e.type = "song" /\ k \in {"Title", "Id"} /\ e.once = 0 -> [e EXCEPT !.once = n]
    [] e.type = "playlist" /\ k = "Last-Modified" /\ e.once = 0 -> [e EXCEPT !.once = n]
    [] OTHER -> e

(* The output e with the line k at place n.                                *)
Renamed(e, k, n) == IF k = "outputname" THEN [e EXCEPT !.once = n] ELSE e

(* The entity that is read with a line that is no start.                   *)
LEMMA AttributeTaken ==
  ASSUME NEW T, NEW a \in Seq(T), NEW k, NEW f, f.read \in {"entities", "entity"},
         k \notin StartKeys,
         NEW e \in Thing, e.at \in Last(Starts(f, a)), Fits(f, a, e),
         NEW n, n = Len(a) + 1, NEW new, new = Attributed(e, k, n)
  PROVE  new \in Thing /\ new.at = e.at /\ Fits(f, Append(a, k), new)
  <1> DEFINE U(keys) == Under(f, a, e.at, keys)
             V(keys) == Under(f, Append(a, k), e.at, keys)
  <1>1. n \in Nat /\ n \notin 1..Len(a) /\ n # 0
    BY Longer
  <1>2. Begins(f) = StartKeys
    BY DEF Begins
  <1>3. \A keys : V(keys) = IF k \in keys THEN U(keys) \cup {n} ELSE U(keys)
    <2>1. k \notin Begins(f)
      BY <1>2
    <2> HIDE DEF U, V
    <2>2. ASSUME NEW keys
          PROVE  V(keys) = IF k \in keys THEN U(keys) \cup {n} ELSE U(keys)
      <3>1. \A i \in Last(Starts(f, a)) :
              Under(f, Append(a, k), i, keys) =
                IF k \in keys THEN Under(f, a, i, keys) \cup {Len(a) + 1} ELSE Under(f, a, i, keys)
        BY <2>1, UnderGrows
      <3> QED
        BY <3>1 DEF U, V
    <2> QED
      BY <2>2
  <1>4. \A keys : U(keys) \subseteq 1..Len(a) /\ \A i \in U(keys) : i \in Nat /\ i < n /\ i # 0
    BY UnderIn
  <1>5. e.at \in 1..Len(a) /\ TypeAt(f, Append(a, k), e.at) = e.type
    <2>1. e.at \in 1..Len(a)
      BY LongerStarts DEF Last
    <2> QED
      BY <2>1, TypeStays DEF Fits
  <1>6. e.type # "output"
    BY <1>5 DEF Fits, TypeAt, EntityType, Last, Starts, LinesOf, Begins, StartKeys
  <1>7. /\ InOrder(e.joined, U(Joined(e.type)))
        /\ FirstIs(e.once, U(Single(e.type)))
    BY <1>6 DEF Fits
  <1> HIDE DEF U, V
  <1>8. CASE e.type = "song" /\ k = "Artist"
    <2>1. new = [e EXCEPT !.joined = Append(@, n)]
      BY <1>1, <1>8 DEF Attributed
    <2>2. V(Joined(e.type)) = U(Joined(e.type)) \cup {n}
          /\ V(Single(e.type)) = U(Single(e.type))
      BY <1>3, <1>8 DEF Joined, Single
    <2>3. Append(e.joined, n) \in Seq(Nat)
          /\ InOrder(Append(e.joined, n), U(Joined(e.type)) \cup {n})
      BY <1>1, <1>4, <1>7, OrderGrows DEF Thing
    <2>4. new \in Thing /\ new.at = e.at /\ new.type = e.type /\ new.once = e.once
          /\ new.joined = Append(e.joined, n)
      BY <2>1, <2>3 DEF Thing
    <2> QED
      BY <1>5, <1>6, <1>7, <2>2, <2>3, <2>4 DEF Fits, V
  <1>9. CASE /\ \/ e.type = "song" /\ k \in {"Title", "Id"}
                \/ e.type = "playlist" /\ k = "Last-Modified"
             /\ e.once = 0
    <2>1. new = [e EXCEPT !.once = n]
      BY <1>1, <1>9 DEF Attributed
    <2>2. V(Joined(e.type)) = U(Joined(e.type))
          /\ V(Single(e.type)) = U(Single(e.type)) \cup {n}
      BY <1>3, <1>9 DEF Joined, Single
    <2>3. U(Single(e.type)) = {}
      BY <1>4, <1>7, <1>9 DEF FirstIs, First
    <2>4. FirstIs(n, V(Single(e.type)))
      BY <1>1, <2>2, <2>3 DEF FirstIs, First
    <2>5. new \in Thing /\ new.at = e.at /\ new.type = e.type /\ new.once = n
          /\ new.joined = e.joined
      BY <1>1, <2>1 DEF Thing
    <2> QED
      BY <1>5, <1>6, <1>7, <2>2, <2>4, <2>5 DEF Fits, V
  <1>10. CASE /\ ~(e.type = "song" /\ k = "Artist")
              /\ ~(/\ \/ e.type = "song" /\ k \in {"Title", "Id"}
                      \/ e.type = "playlist" /\ k = "Last-Modified"
                   /\ e.once = 0)
    <2>1. new = e
      BY <1>1, <1>10 DEF Attributed
    <2>2. V(Joined(e.type)) = U(Joined(e.type))
      BY <1>3, <1>10 DEF Joined
    <2>3. CASE k \notin Single(e.type)
      <3>1. V(Single(e.type)) = U(Single(e.type))
        BY <1>3, <2>3
      <3> QED
        BY <1>5, <1>6, <1>7, <2>1, <2>2, <3>1 DEF Fits, V
    <2>4. CASE k \in Single(e.type)
      <3>1. e.once # 0
        BY <1>10, <2>4 DEF Single
      <3>2. U(Single(e.type)) # {} /\ e.once \in First(U(Single(e.type)))
        BY <1>7, <3>1 DEF FirstIs
      <3>3. V(Single(e.type)) = U(Single(e.type)) \cup {n}
        BY <1>3, <2>4
      <3>4. e.once < n /\ e.once \in Nat /\ n \in Nat
        BY <1>1, <1>4, <3>2 DEF First
      <3>5. FirstIs(e.once, V(Single(e.type)))
        BY <3>2, <3>3, <3>4 DEF FirstIs, First
      <3> QED
        BY <1>5, <1>6, <1>7, <2>1, <2>2, <3>5 DEF Fits, V
    <2> QED
      BY <2>3, <2>4
  <1> QED
    BY <1>8, <1>9, <1>10

LEMMA OutputTaken ==
  ASSUME NEW T, NEW a \in Seq(T), NEW k, NEW f, f.read = "outputs", k # "outputid",
         NEW e \in Thing, e.at \in Last(Starts(f, a)), Fits(f, a, e),
         NEW n, n = Len(a) + 1, NEW new, new = Renamed(e, k, n)
  PROVE  new \in Thing /\ new.at = e.at /\ Fits(f, Append(a, k), new)
  <1> DEFINE U(keys) == Under(f, a, e.at, keys)
             V(keys) == Under(f, Append(a, k), e.at, keys)
  <1>1. n \in Nat /\ n \notin 1..Len(a) /\ n # 0
    BY Longer
  <1>2. k \notin Begins(f)
    BY DEF Begins
  <1>3. \A keys : V(keys) = IF k \in keys THEN U(keys) \cup {n} ELSE U(keys)
    <2> HIDE DEF U, V
    <2>2. ASSUME NEW keys
          PROVE  V(keys) = IF k \in keys THEN U(keys) \cup {n} ELSE U(keys)
      <3>1. \A i \in Last(Starts(f, a)) :
              Under(f, Append(a, k), i, keys) =
                IF k \in keys THEN Under(f, a, i, keys) \cup {Len(a) + 1} ELSE Under(f, a, i, keys)
        BY <1>2, UnderGrows
      <3> QED
        BY <3>1 DEF U, V
    <2> QED
      BY <2>2
  <1>4. \A keys : U(keys) \subseteq 1..Len(a) /\ \A i \in U(keys) : i \in Nat /\ i < n
    BY UnderIn
  <1>5. e.type = "output" /\ \A b : TypeAt(f, b, e.at) = "output"
    BY DEF Fits, TypeAt
  <1>6. /\ InOrder(e.joined, U({}))
        /\ LastIs(e.once, U({"outputname"}))
    BY <1>5 DEF Fits, Joined
  <1> HIDE DEF U, V
  <1>7. V({}) = U({})
    BY <1>3
  <1>8. CASE k = "outputname"
    <2>1. V({"outputname"}) = U({"outputname"}) \cup {n}
      BY <1>3, <1>8
    <2>2. LastIs(n, V({"outputname"}))
      BY <1>1, <1>4, <2>1 DEF LastIs, Last
    <2>3. new \in Thing /\ new.at = e.at /\ new.type = e.type /\ new.once = n
          /\ new.joined = e.joined
      BY <1>1, <1>8 DEF Thing, Renamed
    <2> QED
      BY <1>5, <1>6, <1>7, <2>2, <2>3 DEF Fits, V, Joined
  <1>9. CASE k # "outputname"
    <2>1. V({"outputname"}) = U({"outputname"})
      BY <1>3, <1>9
    <2> QED
      BY <1>5, <1>6, <1>7, <1>9, <2>1 DEF Fits, V, Joined, Renamed
  <1> QED
    BY <1>8, <1>9

-----------------------------------------------------------------------------
(* An entity or output is begun, read and taken. *)

LEMMA BegunFits ==
  ASSUME NEW T, NEW a \in Seq(T), NEW f, NEW k \in Begins(f), NEW n, n = Len(a) + 1,
         NEW e, e = AtPlace(TypeAt(f, Append(a, k), n), n)
  PROVE  Fits(f, Append(a, k), e)
  <1>1. \A keys : Under(f, Append(a, k), n, keys) = {}
    <2>1. \A keys : LinesOf(Append(a, k), keys) \subseteq 1..n
      BY Longer DEF LinesOf
    <2> QED
      BY <2>1 DEF Under
  <1>2. e.at = n /\ e.joined = <<>> /\ e.once = 0 /\ e.type = TypeAt(f, Append(a, k), n)
    BY DEF AtPlace
  <1>3. InOrder(<<>>, {})
    BY DEF InOrder
  <1> QED
    BY <1>1, <1>2, <1>3 DEF Fits, FirstIs, LastIs

LEMMA Begun ==
  ASSUME NEW T, NEW a \in Seq(T), NEW f, NEW k \in Begins(f), NEW n, n = Len(a) + 1,
         NEW e, e = AtPlace(TypeAt(f, Append(a, k), n), n),
         f.read = "entity" => a = <<>>,
         NEW list \in Seq(Thing), Represents(f, a, list, Kept(f, a, Starts(f, a)))
  PROVE  Current(f, Append(a, k), list, e)
  <1>1. Fits(f, Append(a, k), e)
    BY BegunFits
  <1>2. e.at = n
    BY DEF AtPlace
  <1>3. Starts(f, Append(a, k)) = Starts(f, a) \cup {n} /\ Starts(f, a) \subseteq 1..Len(a)
    BY LongerStarts
  <1>4. n \in Last(Starts(f, Append(a, k)))
    BY <1>3 DEF Last
  <1>5. Starts(f, Append(a, k)) \ {n} = Starts(f, a)
    BY <1>3
  <1>6. f.read = "entity" => Starts(f, Append(a, k)) = {n}
    BY <1>3
  <1>7. Kept(f, Append(a, k), Starts(f, a)) = Kept(f, a, Starts(f, a))
    <2>1. Starts(f, a) \in SUBSET (1..Len(a))
      BY <1>3
    <2>2. \A S \in SUBSET (1..Len(a)) : Kept(f, Append(a, k), S) = Kept(f, a, S)
      BY TypeStays
    <2> QED
      BY <2>1, <2>2
  <1>8. Represents(f, Append(a, k), list, Kept(f, a, Starts(f, a)))
    <2>1. Kept(f, a, Starts(f, a)) \in SUBSET Starts(f, a)
      BY DEF Kept
    <2> QED
      BY <2>1, ListAtStart
  <1> QED
    BY <1>1, <1>2, <1>4, <1>5, <1>6, <1>7, <1>8 DEF Current

(* A line that belongs to it.                                              *)
LEMMA CurrentGrows ==
  ASSUME NEW T, NEW a \in Seq(T), NEW f, NEW k, k \notin Begins(f),
         NEW list \in Seq(Thing), NEW e, Current(f, a, list, e),
         NEW new, new.at = e.at, Fits(f, Append(a, k), new)
  PROVE  Current(f, Append(a, k), list, new)
  <1> DEFINE S == Kept(f, a, Starts(f, a) \ {e.at})
  <1>1. Starts(f, Append(a, k)) = Starts(f, a) /\ Starts(f, a) \subseteq 1..Len(a)
    BY LongerStarts
  <1>2. e.at \in Starts(f, a) /\ \A i \in S : i \in Starts(f, a) /\ i < e.at
    BY <1>1 DEF Current, Last, Kept
  <1>3. Kept(f, Append(a, k), Starts(f, a) \ {e.at}) = S
    <2>1. Starts(f, a) \ {e.at} \in SUBSET (1..Len(a))
      BY <1>1
    <2>2. \A U \in SUBSET (1..Len(a)) : Kept(f, Append(a, k), U) = Kept(f, a, U)
      BY TypeStays
    <2> QED
      BY <2>1, <2>2
  <1>4. Represents(f, a, list, S)
    BY DEF Current
  <1> HIDE DEF S
  <1>5. Represents(f, Append(a, k), list, S)
    <2>1. S \in SUBSET Starts(f, a) /\ \A i \in S : \E s \in Starts(f, a) : i < s
      BY <1>2
    <2> QED
      BY <1>4, <2>1, ListClosed
  <1> QED
    BY <1>1, <1>3, <1>5 DEF Current

(* It goes into the list, or is passed over.                               *)
LEMMA CurrentTaken ==
  ASSUME NEW T, NEW a \in Seq(T), NEW f, f.read # "entity",
         NEW list \in Seq(Thing), NEW e \in Thing, Current(f, a, list, e)
  PROVE  LET longer == IF f.read = "entities" /\ e.type \notin f.keep THEN list
                       ELSE Append(list, e)
         IN  longer \in Seq(Thing) /\ Represents(f, a, longer, Kept(f, a, Starts(f, a)))
  <1> DEFINE S == Kept(f, a, Starts(f, a) \ {e.at})
  <1>1. /\ e.at \in Starts(f, a) /\ Starts(f, a) \subseteq 1..Len(a)
        /\ \A i \in S : i < e.at
        /\ e.type = TypeAt(f, a, e.at) /\ Fits(f, a, e)
        /\ Represents(f, a, list, S)
    <2>1. Starts(f, a) \subseteq 1..Len(a)
      BY LongerStarts
    <2>2. /\ e.at \in Starts(f, a) /\ \A i \in Starts(f, a) : e.at >= i
          /\ Fits(f, a, e) /\ Represents(f, a, list, S)
      BY DEF Current, Last
    <2>3. e.type = TypeAt(f, a, e.at)
      BY <2>2 DEF Fits
    <2>4. \A i \in S : i \in Starts(f, a) /\ i # e.at
      BY DEF Kept
    <2>5. \A i \in Starts(f, a) : i # e.at => i < e.at
      BY <2>1, <2>2
    <2> QED
      BY <2>1, <2>2, <2>3, <2>4, <2>5
  <1>2. CASE f.read = "entities" /\ e.type \notin f.keep
    <2>1. Kept(f, a, Starts(f, a)) = S
      BY <1>1, <1>2 DEF Kept
    <2> QED
      BY <1>1, <1>2, <2>1
  <1>3. CASE ~(f.read = "entities" /\ e.type \notin f.keep)
    <2>1. Kept(f, a, Starts(f, a)) = S \cup {e.at}
      BY <1>1, <1>3 DEF Kept
    <2> HIDE DEF S
    <2>2. Represents(f, a, Append(list, e), S \cup {e.at})
      BY <1>1, ListGrows
    <2> QED
      BY <1>3, <2>1, <2>2
  <1> QED
    BY <1>2, <1>3

LEMMA EntityTaken ==
  ASSUME NEW f, NEW a, f.read = "entity", NEW list, NEW e \in Thing, Current(f, a, list, e)
  PROVE  Represents(f, a, <<e>>, First(Starts(f, a)))
  <1>1. Starts(f, a) = {e.at} /\ Fits(f, a, e)
    BY DEF Current
  <1>2. First({e.at}) = {e.at}
    BY DEF First, Thing
  <1> QED
    BY <1>1, <1>2, ListOfOne

(* The next start leaves it as it is, and makes a list that is taken final. *)
LEMMA KeptAtStart ==
  ASSUME NEW T, NEW a \in Seq(T), NEW f, NEW k \in Begins(f), NEW list \in Seq(Thing),
         Represents(f, a, list, Kept(f, a, Starts(f, a)))
  PROVE  Represents(f, Append(a, k), list, Kept(f, Append(a, k), Starts(f, a)))
  <1>1. Starts(f, a) \subseteq 1..Len(a)
    BY LongerStarts
  <1>2. Kept(f, Append(a, k), Starts(f, a)) = Kept(f, a, Starts(f, a))
    <2>1. Starts(f, a) \in SUBSET (1..Len(a))
      BY <1>1
    <2>2. \A S \in SUBSET (1..Len(a)) : Kept(f, Append(a, k), S) = Kept(f, a, S)
      BY TypeStays
    <2> QED
      BY <2>1, <2>2
  <1>3. Kept(f, a, Starts(f, a)) \in SUBSET Starts(f, a)
    BY DEF Kept
  <1> QED
    BY <1>2, <1>3, ListAtStart

LEMMA KeptBeforeStart ==
  ASSUME NEW T, NEW a \in Seq(T), NEW f, NEW k \in Begins(f), NEW list \in Seq(Thing),
         Represents(f, Append(a, k), list, Kept(f, Append(a, k), Starts(f, a)))
  PROVE  Represents(f, a, list, Kept(f, a, Starts(f, a)))
  <1>1. Starts(f, a) \subseteq 1..Len(a)
    BY LongerStarts
  <1>2. Kept(f, Append(a, k), Starts(f, a)) = Kept(f, a, Starts(f, a))
    <2>1. Starts(f, a) \in SUBSET (1..Len(a))
      BY <1>1
    <2>2. \A S \in SUBSET (1..Len(a)) : Kept(f, Append(a, k), S) = Kept(f, a, S)
      BY TypeStays
    <2> QED
      BY <2>1, <2>2
  <1>3. Kept(f, a, Starts(f, a)) \in SUBSET Starts(f, a)
    BY DEF Kept
  <1> QED
    BY <1>2, <1>3, ListAtStart

LEMMA FirstStays ==
  ASSUME NEW T, NEW a \in Seq(T), NEW f, NEW k, NEW i \in First(Starts(f, a))
  PROVE  First(Starts(f, Append(a, k))) = First(Starts(f, a))
  <1>1. /\ Starts(f, a) \subseteq 1..Len(a) /\ Len(a) \in Nat
        /\ Starts(f, Append(a, k)) =
             IF k \in Begins(f) THEN Starts(f, a) \cup {Len(a) + 1} ELSE Starts(f, a)
    BY LongerStarts
  <1>2. i \in Starts(f, a) /\ i < Len(a) + 1
    BY <1>1 DEF First
  <1>3. \A j \in Starts(f, a) : j <= Len(a) + 1 /\ j \in Nat
    BY <1>1
  <1> QED
    BY <1>1, <1>2, <1>3 DEF First

(* Strings.                                                                *)
LEMMA StringTaken ==
  ASSUME NEW T, NEW a \in Seq(T), NEW f, f.read \in {"strings", "string"}, NEW n, n = Len(a) + 1,
         NEW list \in Seq(Thing), Represents(f, a, list, Starts(f, a))
  PROVE  /\ AtPlace("string", n) \in Thing
         /\ Represents(f, Append(a, f.key), Append(list, AtPlace("string", n)),
                       Starts(f, Append(a, f.key)))
         /\ Starts(f, a) = {} =>
              First(Starts(f, Append(a, f.key))) = Starts(f, Append(a, f.key))
  <1> DEFINE b == Append(a, f.key)
             e == AtPlace("string", n)
  <1>1. n \in Nat /\ e.at = n /\ e \in Thing
    <2>1. n \in Nat
      BY Longer
    <2>2. "string" \in Types
      BY DEF Types
    <2>4. <<>> \in Seq(Nat) /\ 0 \in Nat
      OBVIOUS
    <2>3. e = [type |-> "string", at |-> n, joined |-> <<>>, once |-> 0]
      BY DEF AtPlace
    <2> HIDE DEF e
    <2> QED
      BY <2>1, <2>2, <2>3, <2>4 DEF Thing
  <1>2. f.key \in Begins(f)
    BY DEF Begins
  <1>3. Starts(f, b) = Starts(f, a) \cup {n} /\ Starts(f, a) \subseteq 1..Len(a)
    BY <1>2, LongerStarts
  <1>4. TypeAt(f, b, n) = "string"
    BY DEF TypeAt
  <1>5. Fits(f, b, e)
    BY <1>2, <1>4, BegunFits
  <1>6. Represents(f, b, list, Starts(f, a))
    BY FitsString, ListFits
  <1>7. \A i \in Starts(f, a) : i < e.at
    BY <1>1, <1>3
  <1> HIDE DEF b, e
  <1>8. Represents(f, b, Append(list, e), Starts(f, a) \cup {e.at})
    BY <1>1, <1>5, <1>6, <1>7, ListGrows
  <1>9. Starts(f, a) = {} => First(Starts(f, b)) = Starts(f, b)
    BY <1>1, <1>3 DEF First
  <1> QED
    BY <1>1, <1>3, <1>8, <1>9 DEF b, e

LEMMA StringPassed ==
  ASSUME NEW T, NEW a \in Seq(T), NEW f, f.read \in {"strings", "string"}, NEW k, k # f.key,
         NEW list \in Seq(Thing), Represents(f, a, list, Starts(f, a))
  PROVE  /\ Starts(f, Append(a, k)) = Starts(f, a)
         /\ Represents(f, Append(a, k), list, Starts(f, a))
  <1>1. k \notin Begins(f)
    BY DEF Begins
  <1>2. Starts(f, Append(a, k)) = Starts(f, a)
    BY <1>1, LongerStarts
  <1> QED
    BY <1>2, FitsString, ListFits

-----------------------------------------------------------------------------
(* What is taken from a reply is what is due. *)

(* Finishing a command reads on, and what was taken stays right.           *)
LEMMA TakenStays ==
  ASSUME NEW T, NEW a \in Seq(T), NEW k, NEW f, f.read \in {"nothing", "string", "entity"},
         NEW list \in Seq(Thing), Represents(f, a, list, Taken(f, a)),
         f.read # "nothing" => list # <<>>,
         f.read = "entity" => \E i \in Starts(f, a) : i > list[1].at
  PROVE  /\ Represents(f, Append(a, k), list, Taken(f, Append(a, k)))
         /\ f.read = "entity" => \E i \in Starts(f, Append(a, k)) : i > list[1].at
  <1> DEFINE b == Append(a, k)
  <1>1. CASE f.read = "nothing"
    <2>1. \A c : Starts(f, c) = {}
      BY <1>1 DEF Starts, LinesOf, Begins
    <2>2. \A c : Taken(f, c) = {}
      BY <1>1, <2>1 DEF Taken, Kept
    <2>3. list = <<>>
      BY <2>2, PlacesOfList
    <2> QED
      BY <1>1, <2>2, <2>3, EmptyList
  <1>2. CASE f.read = "string"
    <2>1. Represents(f, a, list, First(Starts(f, a)))
      BY <1>2 DEF Taken
    <2>2. PICK i : i \in First(Starts(f, a))
      BY <1>2, <2>1, PlacesOfList
    <2>3. First(Starts(f, b)) = First(Starts(f, a))
      BY <2>2, FirstStays
    <2>4. Represents(f, b, list, First(Starts(f, a)))
      BY <1>2, <2>1, FitsString, ListFits
    <2> QED
      BY <1>2, <2>3, <2>4 DEF Taken
  <1>3. CASE f.read = "entity"
    <2> DEFINE F == First(Starts(f, a))
    <2>1. Represents(f, a, list, F)
      BY <1>3 DEF Taken
    <2>2. 1 \in DOMAIN list /\ list[1].at \in F
      <3>1. 1 \in DOMAIN list
        BY <1>3
      <3> QED
        BY <2>1, <3>1, PlacesOfList
    <2>3. First(Starts(f, b)) = F
      BY <2>2, FirstStays
    <2>4. PICK s \in Starts(f, a) : s > list[1].at
      BY <1>3
    <2>5. Starts(f, a) \subseteq Starts(f, b) /\ Starts(f, a) \subseteq 1..Len(a)
      BY LongerStarts
    <2>6. F \in SUBSET Starts(f, a) /\ \A i \in F : i < s
      BY <2>2, <2>4, <2>5 DEF First
    <2>7. Represents(f, b, list, F)
      <3> HIDE DEF F, b
      <3>1. \A i \in F : \E t \in Starts(f, a) : i < t
        BY <2>4, <2>6
      <3> QED
        BY <2>1, <2>6, <3>1, ListClosed DEF b
    <2> QED
      BY <1>3, <2>3, <2>4, <2>5, <2>7 DEF Taken
  <1> QED
    BY <1>1, <1>2, <1>3

(* What a function that has not failed returns.                            *)
LEMMA TakenIsDue ==
  ASSUME NEW f, FunctionOK(f), NEW a, NEW list \in Seq(Thing), Represents(f, a, list, Taken(f, a)),
         NEW given,
         given = IF \/ f.failed = "value"
                    \/ f.read = "entity" /\ list # <<>> /\ list[1].type \notin f.keep
                 THEN <<>> ELSE list
  PROVE  Represents(f, a, given, Due(f, a))
  <1>1. CASE f.failed = "value"
    <2>1. Due(f, a) = {}
      BY <1>1 DEF Due
    <2>2. given = <<>>
      BY <1>1
    <2> QED
      BY <2>1, <2>2, EmptyList
  <1>2. CASE f.failed # "value" /\ f.read = "entity"
    <2> DEFINE F == First(Starts(f, a))
    <2>1. Represents(f, a, list, F) /\ Due(f, a) = Kept(f, a, F)
      BY <1>2 DEF Taken, Due
    <2>2. CASE list = <<>>
      <3>1. F = {}
        BY <2>1, <2>2, PlacesOfList
      <3>2. Kept(f, a, F) = {}
        BY <3>1 DEF Kept
      <3> QED
        BY <1>2, <2>1, <2>2, <3>2, EmptyList
    <2>3. CASE list # <<>>
      <3>1. 1 \in DOMAIN list
        BY <2>3
      <3>2. list[1].at \in F /\ list[1].type = TypeAt(f, a, list[1].at)
        <4>1. list[1].at \in F
          BY <2>1, <3>1, PlacesOfList
        <4>2. Fits(f, a, list[1])
          BY <2>1, <3>1 DEF Represents
        <4> QED
          BY <4>1, <4>2 DEF Fits
      <3>3. F = {list[1].at}
        <4>1. \A m \in DOMAIN list : list[m].at \in Nat
          <5>1. \A m \in DOMAIN list : list[m] \in Thing
            OBVIOUS
          <5> QED
            BY <5>1 DEF Thing
        <4>2. \A i \in F : i \in Nat
          BY <2>1, <4>1 DEF Represents, InOrder
        <4> QED
          BY <3>2, <4>2 DEF First
      <3> HIDE DEF F
      <3>4. Kept(f, a, F) = IF list[1].type \in f.keep THEN F ELSE {}
        BY <1>2, <3>2, <3>3 DEF Kept
      <3> QED
        BY <1>2, <2>1, <2>3, <3>4, EmptyList
    <2> QED
      BY <2>2, <2>3
  <1>3. CASE f.failed # "value" /\ f.read # "entity"
    <2>1. f.read = "string" => \A S : Kept(f, a, S) = S
      BY DEF Kept
    <2>2. Due(f, a) = Taken(f, a)
      BY <1>3, <2>1 DEF Due, Taken
    <2> QED
      BY <1>3, <2>2
  <1> QED
    BY <1>1, <1>2, <1>3
=============================================================================
