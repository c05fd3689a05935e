------------------------ MODULE SequentialPartsProofs -------------------------
(***************************************************************************)
(* Proofs about the components of SequentialParts, for every value of      *)
(* their constants.                                                        *)
(***************************************************************************)
EXTENDS SequentialParts, FiniteSetTheorems, SequenceTheorems, NaturalsInduction,
        WellFoundedInduction, TLAPS

-----------------------------------------------------------------------------
(***************************************************************************)
(* Config: what an accepted configuration gives the components.            *)
(***************************************************************************)
(***************************************************************************)
(* Numbers.                                                                *)
(***************************************************************************)
ReadingKinds == {"size", "checked", "raised", "plain"}

\* What the tables hold.
InfoRecord == [how : ReadingKinds, least : Int, default : Int]

\* A section is read by its table: each name in it has one way of reading.
LEMMA SectionsAreTables ==
  ASSUME NEW i \in DOMAIN Sections, NEW name \in DOMAIN Sections[i]
  PROVE  Sections[i][name] \in InfoRecord
<1> USE DEF InfoRecord, ReadingKinds, Number
<1>1. \A n \in DOMAIN QueueNumbers : QueueNumbers[n] \in InfoRecord
  BY DEF QueueNumbers
<1>2. \A n \in DOMAIN AnonymizerNumbers : AnonymizerNumbers[n] \in InfoRecord
  BY DEF AnonymizerNumbers
<1>3. \A n \in DOMAIN RuntimeNumbers : RuntimeNumbers[n] \in InfoRecord
  BY DEF RuntimeNumbers
<1>4. \A n \in DOMAIN MetricsNumbers : MetricsNumbers[n] \in InfoRecord
  BY DEF MetricsNumbers
<1>5. \A n \in DOMAIN StreamingNumbers : StreamingNumbers[n] \in InfoRecord
  BY DEF StreamingNumbers
<1>6. /\ \A n \in DOMAIN PersonNumbers : PersonNumbers[n] \in InfoRecord
      /\ \A n \in DOMAIN FaceNumbers : FaceNumbers[n] \in InfoRecord
      /\ \A n \in DOMAIN IdentityNumbers : IdentityNumbers[n] \in InfoRecord
  BY DEF PersonNumbers, FaceNumbers, IdentityNumbers
<1>7. /\ \A n \in DOMAIN YunetNumbers : YunetNumbers[n] \in InfoRecord
      /\ \A n \in DOMAIN ScrfdNumbers : ScrfdNumbers[n] \in InfoRecord
      /\ \A n \in DOMAIN YoloxNumbers : YoloxNumbers[n] \in InfoRecord
      /\ \A n \in DOMAIN UhdNumbers : UhdNumbers[n] \in InfoRecord
  BY DEF YunetNumbers, ScrfdNumbers, YoloxNumbers, UhdNumbers
<1>8. /\ \A n \in DOMAIN TrackerNumbers : TrackerNumbers[n] \in InfoRecord
      /\ \A n \in DOMAIN GridNumbers : GridNumbers[n] \in InfoRecord
  BY DEF TrackerNumbers, GridNumbers
<1>9. \A n \in DOMAIN RecognizerNumbers : RecognizerNumbers[n] \in InfoRecord
  BY DEF RecognizerNumbers
<1>10. i \in 1..15
  BY DEF Sections
<1> HIDE DEF InfoRecord, ReadingKinds, Number
<1> QED
  BY <1>1, <1>2, <1>3, <1>4, <1>5, <1>6, <1>7, <1>8, <1>9, <1>10 DEF Sections

\* How a name is read is what one of the sections says of it.
LEMMA InfoIsTable ==
  ASSUME NEW name \in Names
  PROVE  \E i \in DOMAIN Sections : name \in DOMAIN Sections[i] /\ Info(name) = Sections[i][name]
<1> DEFINE T == {Sections[i] : i \in DOMAIN Sections}
           s == CHOOSE x \in T : name \in DOMAIN x
<1>1. \E x \in T : name \in DOMAIN x
  BY Zenon DEF Names
<1>2. s \in T /\ name \in DOMAIN s
  BY <1>1, Zenon
<1>3. PICK i \in DOMAIN Sections : s = Sections[i]
  BY <1>2
<1>4. Info(name) = s[name]
  BY Zenon DEF Info
<1> QED
  BY <1>2, <1>3, <1>4

\* So every name is read in one of the four ways, with a least value and a default.
LEMMA InfoTyped ==
  ASSUME NEW name \in Names PROVE Info(name) \in InfoRecord
BY InfoIsTable, SectionsAreTables

\* The instances of the face detector are raised to one, whatever is written.
LEMMA FacesAreRaised ==
  /\ "face.model_instances" \in Names
  /\ Info("face.model_instances") = Number("raised", 1, 1)
<1> DEFINE n == "face.model_instances"
<1>1. n \notin DOMAIN QueueNumbers /\ n \notin DOMAIN AnonymizerNumbers /\ n \notin DOMAIN RuntimeNumbers
  BY DEF QueueNumbers, AnonymizerNumbers, RuntimeNumbers
<1>2. n \notin DOMAIN MetricsNumbers /\ n \notin DOMAIN StreamingNumbers /\ n \notin DOMAIN PersonNumbers
  BY DEF MetricsNumbers, StreamingNumbers, PersonNumbers
<1>3. n \notin DOMAIN YunetNumbers /\ n \notin DOMAIN ScrfdNumbers /\ n \notin DOMAIN YoloxNumbers
      /\ n \notin DOMAIN UhdNumbers
  BY DEF YunetNumbers, ScrfdNumbers, YoloxNumbers, UhdNumbers
<1>4. n \notin DOMAIN TrackerNumbers /\ n \notin DOMAIN GridNumbers /\ n \notin DOMAIN RecognizerNumbers
      /\ n \notin DOMAIN IdentityNumbers
  BY DEF TrackerNumbers, GridNumbers, RecognizerNumbers, IdentityNumbers
<1>5. n \in DOMAIN FaceNumbers /\ FaceNumbers[n] = Number("raised", 1, 1)
  BY DEF FaceNumbers
<1>6. DOMAIN Sections = 1..15 /\ Sections[12] = FaceNumbers
  BY DEF Sections
<1> HIDE DEF n
<1>7. n \in Names
  <2>1. n \in DOMAIN Sections[12] /\ 12 \in DOMAIN Sections
    BY <1>5, <1>6
  <2> QED
    BY <2>1, Zenon DEF Names
<1>8. PICK i \in DOMAIN Sections : n \in DOMAIN Sections[i] /\ Info(n) = Sections[i][n]
  BY <1>7, InfoIsTable
<1>9. i = 12
  <2>1. i \in 1..15
    BY <1>6
  <2> QED
    BY <2>1, <1>1, <1>2, <1>3, <1>4, <1>8 DEF Sections
<1> QED
  BY <1>5, <1>6, <1>7, <1>8, <1>9 DEF n

(***************************************************************************)
(* Files.                                                                  *)
(***************************************************************************)
\* The stream other files vary is one of those considered.
LEMMA PlainStreamIsOne == PlainStream \in StreamKeys
<1> DEFINE T == OwnIds \cup {<< "c" >>}
<1>1. << >> \in [1..0 -> T] /\ 0 \in 0..2
  OBVIOUS
<1>2. << >> \in SeqOf(T, 2)
  BY <1>1 DEF SeqOf
<1>3. << >> \in GivenIds /\ << "a" >> \in OwnIds
  BY <1>2 DEF GivenIds, OwnIds
<1> HIDE DEF T
<1> QED
  BY <1>3 DEF PlainStream, StreamKeys

\* Every file considered has the fields the parser looks at.
LEMMA FilesTyped ==
  ASSUME NEW f \in Files
  PROVE  /\ f.name \in Names \cup {"none"}
         /\ f.number \in Int
         /\ f.model \in ModelKeys
         /\ f.streams \in {<< >>} \cup {<< s >> : s \in StreamKeys} \cup TwoStreams
<1> DEFINE Streams == {<< >>} \cup {<< s >> : s \in StreamKeys} \cup TwoStreams
           Fits(g) == /\ g.name \in Names \cup {"none"} /\ g.number \in Int
                      /\ g.model \in ModelKeys /\ g.streams \in Streams
           Numbered(n, e, fa, r) ==
             [PlainFile EXCEPT !.name = n, !.number = e, !.face = fa, !.recognizer = r]
           Chosen(m, l, fa, a, p, o) ==
             [PlainFile EXCEPT !.modules = m, !.legacy = l, !.face = fa, !.mode = a,
                               !.primary = p, !.method = o]
           WithDetector(d, k) == [PlainFile EXCEPT !.detector = d, !.model = k]
           Streamed(ss) == [PlainFile EXCEPT !.streams = ss]
<1>1. PlainStream \in StreamKeys
  BY PlainStreamIsOne
<1>2. << PlainStream >> \in Streams
  BY <1>1
<1>3. PlainFile.model \in ModelKeys
  BY DEF PlainFile, ModelKeys, Absent
<1> HIDE DEF Streams
<1>4. ASSUME NEW n \in Names, NEW e \in Edges, NEW fa, NEW r PROVE Fits(Numbered(n, e, fa, r))
  <2> DEFINE g == Numbered(n, e, fa, r)
  <2>1. g.name = n /\ g.number = e /\ g.model = PlainFile.model /\ g.streams = << PlainStream >>
    BY DEF PlainFile
  <2>2. e \in Int
    BY DEF Edges, Large
  <2> HIDE DEF g
  <2>3. Fits(g)
    BY <2>1, <2>2, <1>2, <1>3
  <2> QED
    BY <2>3 DEF g
<1>5. ASSUME NEW m, NEW l, NEW fa, NEW a, NEW p, NEW o PROVE Fits(Chosen(m, l, fa, a, p, o))
  <2> DEFINE g == Chosen(m, l, fa, a, p, o)
  <2>1. g.name = "none" /\ g.number = 0 /\ g.model = PlainFile.model /\ g.streams = << PlainStream >>
    BY DEF PlainFile
  <2> HIDE DEF g
  <2>2. Fits(g)
    BY <2>1, <1>2, <1>3
  <2> QED
    BY <2>2 DEF g
<1>6. ASSUME NEW d, NEW k \in ModelKeys PROVE Fits(WithDetector(d, k))
  <2> DEFINE g == WithDetector(d, k)
  <2>1. g.name = "none" /\ g.number = 0 /\ g.model = k /\ g.streams = << PlainStream >>
    BY DEF PlainFile
  <2> HIDE DEF g
  <2>2. Fits(g)
    BY <2>1, <1>2
  <2> QED
    BY <2>2 DEF g
<1>7. ASSUME NEW ss \in Streams PROVE Fits(Streamed(ss))
  <2> DEFINE g == Streamed(ss)
  <2>1. g.name = "none" /\ g.number = 0 /\ g.model = PlainFile.model /\ g.streams = ss
    BY DEF PlainFile
  <2> HIDE DEF g
  <2>2. Fits(g)
    BY <2>1, <1>7, <1>3
  <2> QED
    BY <2>2 DEF g
<1>8. NumberFiles = {Numbered(n, e, fa, r) : n \in Names, e \in Edges, fa \in {"disabled", "scrfd"},
                                             r \in {"noop", "mobilefacenet"}}
  BY DEF NumberFiles
<1>9. ChoiceFiles = {Chosen(m, l, fa, a, p, o) :
                 m \in BOOLEAN, l \in BOOLEAN, fa \in {Absent, "disabled", "scrfd"},
                 a \in {"person_bbox", "independent", "other"}, p \in {"webrtc", "mjpeg", "other"},
                 o \in {"pixelate", "blur", "other"}}
  BY DEF ChoiceFiles
<1>10. ModelFiles = {WithDetector(d, k) : d \in {"yolox", "uhd", "scrfd"}, k \in ModelKeys}
  BY DEF ModelFiles
<1>11. StreamFiles = {Streamed(ss) : ss \in Streams}
  BY DEF StreamFiles, Streams
<1> HIDE DEF Fits, Numbered, Chosen, WithDetector, Streamed
<1>12. Fits(f)
  <2>1. CASE f \in NumberFiles
    BY <2>1, <1>4, <1>8
  <2>2. CASE f \in ChoiceFiles
    BY <2>2, <1>5, <1>9
  <2>3. CASE f \in ModelFiles
    BY <2>3, <1>6, <1>10
  <2>4. CASE f \in StreamFiles
    BY <2>4, <1>7, <1>11
  <2> QED
    BY <2>1, <2>2, <2>3, <2>4 DEF Files
<1> QED
  BY <1>12 DEF Fits, Streams

\* The two files of a network belong together unless one alone is named.
LEMMA ModelsBelong ==
  ASSUME NEW k \in ModelKeys, NEW m \in {Yolox(k), Uhd(k), Scrfd(k)}
  PROVE  m.param = m.bin \/ k.param_path # k.bin_path
<1> USE DEF ModelKeys
<1>1. CASE m = Yolox(k)
  BY <1>1 DEF Yolox
<1>2. CASE m = Uhd(k)
  <2> DEFINE u == [k EXCEPT !.variant = Absent]
  <2>1. u.param_path = k.param_path /\ u.bin_path = k.bin_path
        /\ u.param_path \in BOOLEAN /\ u.bin_path \in BOOLEAN /\ u.model_path \in BOOLEAN
    OBVIOUS
  <2>2. m = Yolox(u)
    BY <1>2 DEF Uhd
  <2> HIDE DEF u
  <2> QED
    BY <2>1, <2>2 DEF Yolox
<1>3. CASE m = Scrfd(k)
  BY <1>3 DEF Scrfd
<1> QED
  BY <1>1, <1>2, <1>3

(***************************************************************************)
(* Streams.                                                                *)
(***************************************************************************)
Source == [id : OwnIds, ids : GivenIds, count : {1, 2}]

\* What cfg.streams holds of the files considered.
SourcesFit == sources \in Seq(Source) /\ Len(sources) \in {1, 2}

\* What ids are made of.
Symbol == {"a", "b", "c"} \cup Nat
StreamId == Seq(Symbol)

\* The ids a file gives.
LEMMA GivenIdsAre ==
  /\ OwnIds \subseteq StreamId
  /\ \A g \in GivenIds : g \in Seq(StreamId) /\ Len(g) \in 0..2 /\ DOMAIN g = 1..Len(g)
<1>1. "a" \in Symbol /\ "b" \in Symbol /\ "c" \in Symbol /\ 1 \in Symbol
  BY DEF Symbol
<1>2. << "a" >> \in StreamId /\ << "b" >> \in StreamId /\ << "c" >> \in StreamId
      /\ << "a", 1 >> \in StreamId
  BY <1>1 DEF StreamId
<1>3. OwnIds \subseteq StreamId /\ OwnIds \cup {<< "c" >>} \subseteq StreamId
  BY <1>2 DEF OwnIds
<1>4. ASSUME NEW g \in GivenIds
      PROVE  g \in Seq(StreamId) /\ Len(g) \in 0..2 /\ DOMAIN g = 1..Len(g)
  <2> DEFINE T == OwnIds \cup {<< "c" >>}
  <2>1. PICK m \in 0..2 : g \in [1..m -> T]
    BY <1>4 DEF GivenIds, SeqOf
  <2>2. T \subseteq StreamId
    BY <1>3
  <2> HIDE DEF T
  <2>3. g \in [1..m -> StreamId] /\ m \in Nat
    BY <2>1, <2>2
  <2>4. g \in Seq(StreamId) /\ Len(g) = m
    BY <2>3
  <2> QED
    BY <2>1, <2>4
<1> QED
  BY <1>3, <1>4

\* Ids that are made up agree only if the streams' ids and the numbers do.
LEMMA MadeUpDiffer ==
  ASSUME NEW x \in OwnIds, NEW y \in OwnIds, NEW n \in Nat, NEW m \in Nat,
         Append(x, n) = Append(y, m)
  PROVE  x = y /\ n = m
<1>1. x \in Seq(Symbol) /\ y \in Seq(Symbol) /\ n \in Symbol /\ m \in Symbol
  BY GivenIdsAre DEF StreamId, Symbol
<1> QED
  BY <1>1, AppendInjective

\* The replicas of a stream, and the two ways in which they get their ids.
LEMMA ReplicaIdsAre ==
  ASSUME NEW s \in Source
  PROVE  /\ ReplicaIds(s) \in Seq(StreamId) /\ Len(ReplicaIds(s)) = s.count
         /\ s.count = 1 => ReplicaIds(s)[1] = s.id
         /\ s.count = 2 => \A i \in 1..2 :
              ReplicaIds(s)[i] = IF i <= Len(s.ids) THEN s.ids[i] ELSE Append(s.id, i - 1)
<1>1. s.id \in OwnIds /\ s.ids \in GivenIds /\ s.count \in {1, 2}
  BY DEF Source
<1>2. CASE s.count = 1
  <2>1. s.id \in StreamId
    BY <1>1, GivenIdsAre
  <2>2. ReplicaIds(s) = << s.id >>
    BY <1>2 DEF ReplicaIds
  <2> QED
    BY <1>2, <2>1, <2>2
<1>3. CASE s.count = 2
  <2> DEFINE r == [i \in 1..2 |-> IF i <= Len(s.ids) THEN s.ids[i] ELSE Append(s.id, i - 1)]
  <2>1. ReplicaIds(s) = r
    BY <1>3 DEF ReplicaIds
  <2>2. ASSUME NEW i \in 1..2 PROVE r[i] \in StreamId
    <3>1. CASE i <= Len(s.ids)
      <4>1. s.ids \in Seq(StreamId) /\ i \in 1..Len(s.ids)
        BY <1>1, <3>1, GivenIdsAre
      <4>2. s.ids[i] \in StreamId
        BY <4>1
      <4> QED
        BY <3>1, <4>2
    <3>2. CASE ~(i <= Len(s.ids))
      <4>1. i - 1 \in Symbol /\ s.id \in Seq(Symbol)
        BY <1>1, GivenIdsAre DEF Symbol, StreamId
      <4>2. Append(s.id, i - 1) \in StreamId
        BY <4>1, AppendProperties DEF StreamId
      <4> QED
        BY <3>2, <4>2
    <3> QED
      BY <3>1, <3>2
  <2>3. r \in Seq(StreamId) /\ Len(r) = 2
    <3> HIDE DEF r
    <3>1. r = [i \in 1..2 |-> r[i]]
      BY DEF r
    <3>2. 2 \in Nat
      OBVIOUS
    <3> QED
      BY <2>2, <3>1, <3>2
  <2> QED
    BY <1>3, <2>1, <2>3
<1> QED
  BY <1>1, <1>2, <1>3

\* The id of a replica is written or made up.
LEMMA ReplicaIdKinds ==
  ASSUME NEW s \in Source, NEW k \in 1..s.count
  PROVE  \/ s.count = 1 /\ k = 1 /\ ReplicaIds(s)[k] = s.id /\ WrittenIds(s) = {s.id}
         \/ s.count = 2 /\ k \in DOMAIN s.ids /\ ReplicaIds(s)[k] = s.ids[k]
              /\ s.ids[k] \in WrittenIds(s)
         \/ s.count = 2 /\ ReplicaIds(s)[k] = Append(s.id, k - 1)
              /\ Append(s.id, k - 1) \in NumberedIds(s)
<1>1. s.ids \in GivenIds /\ s.count \in {1, 2}
  BY DEF Source
<1>2. Len(s.ids) \in 0..2 /\ DOMAIN s.ids = 1..Len(s.ids)
  BY <1>1, GivenIdsAre
<1>3. CASE s.count = 1
  <2>1. k = 1
    BY <1>3
  <2> QED
    BY <1>3, <2>1, ReplicaIdsAre DEF WrittenIds
<1>4. CASE s.count = 2
  <2>1. ReplicaIds(s)[k] = IF k <= Len(s.ids) THEN s.ids[k] ELSE Append(s.id, k - 1)
    BY <1>4, ReplicaIdsAre
  <2>2. CASE k <= Len(s.ids)
    <3>1. k \in DOMAIN s.ids
      BY <1>2, <1>4, <2>2
    <3>2. s.ids[k] \in WrittenIds(s)
      BY <1>4, <3>1 DEF WrittenIds, ToSet
    <3> QED
      BY <1>4, <2>1, <2>2, <3>1, <3>2
  <2>3. CASE ~(k <= Len(s.ids))
    <3>1. k - 1 \in Len(s.ids)..(s.count - 1)
      BY <1>2, <1>4, <2>3
    <3>2. Append(s.id, k - 1) \in NumberedIds(s)
      BY <1>4, <3>1 DEF NumberedIds
    <3> QED
      BY <1>4, <2>1, <2>3, <3>2
  <2> QED
    BY <2>2, <2>3
<1> QED
  BY <1>1, <1>3, <1>4

\* Every written or made-up id is that of a replica, in the order of the list.
LEMMA IdsAreUsed ==
  ASSUME NEW s \in Source
  PROVE  /\ s.count = 2 => \A k \in DOMAIN s.ids : k \in 1..2 /\ ReplicaIds(s)[k] = s.ids[k]
         /\ \A x \in WrittenIds(s) : \E k \in 1..s.count :
              ReplicaIds(s)[k] = x /\ (s.count = 2 => k <= Len(s.ids))
         /\ \A x \in NumberedIds(s) : \E k \in 1..s.count :
              ReplicaIds(s)[k] = x /\ s.count = 2 /\ ~(k <= Len(s.ids))
<1>1. s.ids \in GivenIds /\ s.count \in {1, 2}
  BY DEF Source
<1>2. Len(s.ids) \in 0..2 /\ DOMAIN s.ids = 1..Len(s.ids)
  BY <1>1, GivenIdsAre
<1>3. ASSUME s.count = 2 PROVE \A k \in DOMAIN s.ids : k \in 1..2 /\ ReplicaIds(s)[k] = s.ids[k]
  <2>1. \A k \in 1..Len(s.ids) : k \in 1..2 /\ k <= Len(s.ids)
    <3> DEFINE n == Len(s.ids)
    <3>1. n \in 0..2
      BY <1>2
    <3> HIDE DEF n
    <3>2. \A k \in 1..n : k \in 1..2 /\ k <= n
      BY <3>1
    <3> QED
      BY <3>2 DEF n
  <2> QED
    BY <1>2, <1>3, <2>1, ReplicaIdsAre
<1>4. ASSUME NEW x \in WrittenIds(s)
      PROVE  \E k \in 1..s.count : ReplicaIds(s)[k] = x /\ (s.count = 2 => k <= Len(s.ids))
  <2>1. CASE s.count = 1
    <3>1. x = s.id /\ ReplicaIds(s)[1] = s.id
      BY <1>4, <2>1, ReplicaIdsAre DEF WrittenIds
    <3> QED
      BY <2>1, <3>1
  <2>2. CASE s.count = 2
    <3>1. PICK k \in DOMAIN s.ids : x = s.ids[k]
      BY <1>4, <2>2 DEF WrittenIds, ToSet
    <3> QED
      BY <1>2, <1>3, <2>2, <3>1
  <2> QED
    BY <1>1, <2>1, <2>2
<1>5. ASSUME NEW x \in NumberedIds(s)
      PROVE  \E k \in 1..s.count : ReplicaIds(s)[k] = x /\ s.count = 2 /\ ~(k <= Len(s.ids))
  <2>1. s.count = 2
    BY <1>1, <1>5 DEF NumberedIds
  <2>2. PICK n \in Len(s.ids)..(s.count - 1) : x = Append(s.id, n)
    BY <1>5, <2>1 DEF NumberedIds
  <2>3. n + 1 \in 1..2 /\ ~(n + 1 <= Len(s.ids)) /\ (n + 1) - 1 = n
    BY <1>2, <2>1, <2>2
  <2>4. ReplicaIds(s)[n + 1] = Append(s.id, n)
    BY <2>1, <2>3, ReplicaIdsAre
  <2> QED
    BY <2>1, <2>2, <2>3, <2>4
<1> QED
  BY <1>3, <1>4, <1>5

\* Two replicas with one id: of two streams, or of one.
Shared ==
  \E i, j \in DOMAIN sources : \E k \in 1..sources[i].count, l \in 1..sources[j].count :
    (i # j \/ k # l) /\ ReplicaIds(sources[i])[k] = ReplicaIds(sources[j])[l]

\* Where the file has ids clash, two replicas have one id.
LEMMA ClashesAreShared ==
  ASSUME SourcesFit, IdsClash PROVE Shared
<1>1. \A i \in DOMAIN sources : sources[i] \in Source
  BY DEF SourcesFit
<1>2. PICK i, j \in DOMAIN sources :
        \/ i # j /\ WrittenIds(sources[i]) \cap WrittenIds(sources[j]) # {}
        \/ WrittenIds(sources[i]) \cap NumberedIds(sources[j]) # {}
        \/ i # j /\ sources[i].id = sources[j].id
             /\ NumberedIds(sources[i]) \cap NumberedIds(sources[j]) # {}
        \/ sources[i].count > 1
             /\ \E k, l \in DOMAIN sources[i].ids : k # l /\ sources[i].ids[k] = sources[i].ids[l]
  BY DEF IdsClash
<1> DEFINE s == sources[i]
           t == sources[j]
<1>3. s \in Source /\ t \in Source /\ s.count \in {1, 2} /\ t.count \in {1, 2}
  BY <1>1 DEF Source
<1>4. \A k \in 1..s.count, l \in 1..t.count :
        (i # j \/ k # l) /\ ReplicaIds(s)[k] = ReplicaIds(t)[l] => Shared
  BY DEF Shared
<1>5. CASE i # j /\ WrittenIds(s) \cap WrittenIds(t) # {}
  <2>1. PICK x : x \in WrittenIds(s) /\ x \in WrittenIds(t)
    BY <1>5
  <2> HIDE DEF s, t
  <2>2. PICK k \in 1..s.count : ReplicaIds(s)[k] = x
    BY <1>3, <2>1, IdsAreUsed
  <2>3. PICK l \in 1..t.count : ReplicaIds(t)[l] = x
    BY <1>3, <2>1, IdsAreUsed
  <2> QED
    BY <1>4, <1>5, <2>2, <2>3
<1>6. CASE WrittenIds(s) \cap NumberedIds(t) # {}
  <2>1. PICK x : x \in WrittenIds(s) /\ x \in NumberedIds(t)
    BY <1>6
  <2>2. PICK k \in 1..s.count : ReplicaIds(s)[k] = x /\ (s.count = 2 => k <= Len(s.ids))
    BY <1>3, <2>1, IdsAreUsed
  <2>3. PICK l \in 1..t.count : ReplicaIds(t)[l] = x /\ t.count = 2 /\ ~(l <= Len(t.ids))
    BY <1>3, <2>1, IdsAreUsed
  <2>4. i = j => k # l
    BY <2>2, <2>3
  <2> QED
    BY <1>4, <2>2, <2>3, <2>4
<1>7. CASE i # j /\ NumberedIds(s) \cap NumberedIds(t) # {}
  <2>1. PICK x : x \in NumberedIds(s) /\ x \in NumberedIds(t)
    BY <1>7
  <2> HIDE DEF s, t
  <2>2. PICK k \in 1..s.count : ReplicaIds(s)[k] = x
    BY <1>3, <2>1, IdsAreUsed
  <2>3. PICK l \in 1..t.count : ReplicaIds(t)[l] = x
    BY <1>3, <2>1, IdsAreUsed
  <2> QED
    BY <1>4, <1>7, <2>2, <2>3
<1>8. CASE s.count > 1 /\ \E k, l \in DOMAIN s.ids : k # l /\ s.ids[k] = s.ids[l]
  <2>1. s.count = 2
    BY <1>3, <1>8
  <2>2. PICK k, l \in DOMAIN s.ids : k # l /\ s.ids[k] = s.ids[l]
    BY <1>8
  <2>3. k \in 1..2 /\ l \in 1..2 /\ ReplicaIds(s)[k] = ReplicaIds(s)[l]
    BY <1>3, <2>1, <2>2, IdsAreUsed
  <2> QED
    BY <2>1, <2>2, <2>3 DEF Shared
<1> QED
  BY <1>2, <1>5, <1>6, <1>7, <1>8

\* Two replicas have one id only where the file has ids clash.
LEMMA SharedAreClashes ==
  ASSUME SourcesFit, Shared PROVE IdsClash
<1>1. \A i \in DOMAIN sources : sources[i] \in Source
  BY DEF SourcesFit
<1>2. PICK i, j \in DOMAIN sources : \E k \in 1..sources[i].count, l \in 1..sources[j].count :
        (i # j \/ k # l) /\ ReplicaIds(sources[i])[k] = ReplicaIds(sources[j])[l]
  BY DEF Shared
<1> DEFINE s == sources[i]
           t == sources[j]
<1>3. s \in Source /\ t \in Source
  BY <1>1
<1>4. PICK k \in 1..s.count, l \in 1..t.count :
        (i # j \/ k # l) /\ ReplicaIds(s)[k] = ReplicaIds(t)[l]
  BY <1>2
<1> DEFINE x == ReplicaIds(s)[k]
<1>5. /\ i # j /\ WrittenIds(s) \cap WrittenIds(t) # {} => IdsClash
      /\ WrittenIds(s) \cap NumberedIds(t) # {} => IdsClash
      /\ WrittenIds(t) \cap NumberedIds(s) # {} => IdsClash
      /\ i # j /\ s.id = t.id /\ NumberedIds(s) \cap NumberedIds(t) # {} => IdsClash
      /\ s.count > 1 /\ (\E a, b \in DOMAIN s.ids : a # b /\ s.ids[a] = s.ids[b]) => IdsClash
  BY Zenon DEF IdsClash
<1>6. \/ x \in WrittenIds(s) /\ (s.count = 1 \/ (s.count = 2 /\ k \in DOMAIN s.ids /\ x = s.ids[k]))
      \/ s.count = 2 /\ x = Append(s.id, k - 1) /\ x \in NumberedIds(s)
  BY <1>3, ReplicaIdKinds
<1>7. \/ x \in WrittenIds(t) /\ (t.count = 1 \/ (t.count = 2 /\ l \in DOMAIN t.ids /\ x = t.ids[l]))
      \/ t.count = 2 /\ x = Append(t.id, l - 1) /\ x \in NumberedIds(t)
  <2>1. ReplicaIds(t)[l] = x
    BY <1>4
  <2> HIDE DEF t, x
  <2> QED
    BY <1>3, <2>1, ReplicaIdKinds
<1>8. i = j => s = t /\ k # l
  BY <1>4
<1>9. k \in 1..s.count /\ l \in 1..t.count /\ s.count \in {1, 2} /\ t.count \in {1, 2}
      /\ s.id \in OwnIds /\ t.id \in OwnIds
  BY <1>3 DEF Source
<1> HIDE DEF s, t, x
<1>10. CASE x \in WrittenIds(s) /\ x \in WrittenIds(t)
  <2>1. CASE i # j
    BY <1>5, <1>10, <2>1
  <2>2. CASE i = j
    <3>1. s.count = 2
      BY <1>8, <1>9, <2>2
    <3>2. CASE k \in DOMAIN s.ids /\ x = s.ids[k] /\ l \in DOMAIN s.ids /\ x = s.ids[l]
      <4>1. \E a, b \in DOMAIN s.ids : a # b /\ s.ids[a] = s.ids[b]
        BY <1>8, <2>2, <3>2, Zenon
      <4>2. s.count > 1
        BY <3>1
      <4> QED
        BY <1>5, <4>1, <4>2, Zenon
    <3>3. CASE x \in NumberedIds(s)
      BY <1>5, <1>8, <1>10, <2>2, <3>3
    <3> QED
      BY <1>6, <1>7, <1>8, <2>2, <3>1, <3>2, <3>3
  <2> QED
    BY <2>1, <2>2
<1>11. CASE (x \in WrittenIds(s) /\ x \in NumberedIds(t)) \/ (x \in WrittenIds(t) /\ x \in NumberedIds(s))
  BY <1>5, <1>11
<1>12. CASE /\ s.count = 2 /\ x = Append(s.id, k - 1) /\ x \in NumberedIds(s)
            /\ t.count = 2 /\ x = Append(t.id, l - 1) /\ x \in NumberedIds(t)
  <2>1. k \in Int /\ l \in Int /\ k - 1 \in Nat /\ l - 1 \in Nat
    BY <1>9
  <2>2. s.id = t.id /\ k - 1 = l - 1
    <3>1. Append(s.id, k - 1) = Append(t.id, l - 1)
      BY <1>12
    <3>2. s.id \in OwnIds /\ t.id \in OwnIds
      BY <1>9
    <3> QED
      BY <2>1, <3>1, <3>2, MadeUpDiffer
  <2>3. k = l
    BY <2>1, <2>2
  <2> QED
    BY <1>5, <1>8, <1>12, <2>2, <2>3
<1> QED
  BY <1>6, <1>7, <1>10, <1>11, <1>12

\* FlattenSeq of one and of two sequences.
LEMMA FlattenSmall ==
  ASSUME NEW S, NEW ss \in Seq(Seq(S))
  PROVE  /\ Len(ss) = 1 => FlattenSeq(ss) = ss[1]
         /\ Len(ss) = 2 => FlattenSeq(ss) = ss[1] \o ss[2]
<1> DEFINE F(g) == [i \in 1..Len(ss) |-> IF i = 1 THEN ss[i] ELSE g[i-1] \o ss[i]]
           f == CHOOSE g : g = F(g)
           w == [i \in 1..Len(ss) |-> IF i = 1 THEN ss[1] ELSE ss[1] \o ss[2]]
<1>1. Len(ss) # 0 => FlattenSeq(ss) = f[Len(ss)]
  BY DEF FlattenSeq
<1>2. CASE Len(ss) = 1
  <2>1. w = F(w)
    BY <1>2
  <2> HIDE DEF w, F
  <2>2. f = F(f)
    BY <2>1, Zenon
  <2> HIDE DEF f
  <2>3. f[1] = ss[1]
    BY <1>2, <2>2 DEF F
  <2> QED
    BY <1>1, <1>2, <2>3
<1>3. CASE Len(ss) = 2
  <2>1. w = F(w)
    <3>1. w[1] = ss[1]
      BY <1>3
    <3>2. \A i \in 1..2 : (IF i = 1 THEN ss[1] ELSE ss[1] \o ss[2])
                        = IF i = 1 THEN ss[i] ELSE w[i-1] \o ss[i]
      BY <3>1
    <3> DEFINE u == w
    <3>3. \A i \in 1..2 : (IF i = 1 THEN ss[1] ELSE ss[1] \o ss[2])
                        = IF i = 1 THEN ss[i] ELSE u[i-1] \o ss[i]
      BY <3>2
    <3>4. u = [i \in 1..Len(ss) |-> IF i = 1 THEN ss[1] ELSE ss[1] \o ss[2]]
      OBVIOUS
    <3> HIDE DEF w, u
    <3>5. u = F(u)
      BY <1>3, <3>3, <3>4
    <3> QED
      BY <3>5 DEF u, w
  <2> HIDE DEF w, F
  <2>2. f = F(f)
    BY <2>1, Zenon
  <2> HIDE DEF f
  <2>3. f[1] = ss[1] /\ f[2] = f[1] \o ss[2]
    BY <1>3, <2>2 DEF F
  <2> QED
    BY <1>1, <1>3, <2>3
<1> QED
  BY <1>2, <1>3

\* The expanded streams: the replicas of the first one, then those of the second.
LEMMA ReplicasInOrder ==
  ASSUME SourcesFit, NEW ids, ids = FlattenSeq([i \in DOMAIN sources |-> ReplicaIds(sources[i])])
  PROVE  /\ \A i \in DOMAIN sources : i \in {1, 2} /\ sources[i].count \in {1, 2}
         /\ 1 \in DOMAIN sources
         /\ Len(ids) = sources[1].count + IF 2 \in DOMAIN sources THEN sources[2].count ELSE 0
         /\ DOMAIN ids = 1..Len(ids)
         /\ \A k \in 1..sources[1].count : ids[k] = ReplicaIds(sources[1])[k]
         /\ 2 \in DOMAIN sources => \A k \in 1..sources[2].count :
              ids[sources[1].count + k] = ReplicaIds(sources[2])[k]
<1> DEFINE R == [i \in DOMAIN sources |-> ReplicaIds(sources[i])]
           n == Len(sources)
<1>1. n \in {1, 2} /\ DOMAIN sources = 1..n /\ \A i \in 1..n : sources[i] \in Source
  BY DEF SourcesFit
<1>2. \A i \in 1..n : ReplicaIds(sources[i]) \in Seq(StreamId)
                      /\ Len(ReplicaIds(sources[i])) = sources[i].count
                      /\ sources[i].count \in {1, 2}
  BY <1>1, ReplicaIdsAre DEF Source
<1>3. R \in Seq(Seq(StreamId)) /\ Len(R) = n /\ \A i \in 1..n : R[i] = ReplicaIds(sources[i])
  BY <1>1, <1>2
<1> HIDE DEF R
<1>4. CASE n = 1
  <2>1. ids = R[1]
    BY <1>3, <1>4, FlattenSmall DEF R
  <2>2. ids = ReplicaIds(sources[1]) /\ ids \in Seq(StreamId) /\ Len(ids) = sources[1].count
        /\ 1 \in DOMAIN sources /\ 2 \notin DOMAIN sources
    BY <2>1, <1>1, <1>2, <1>3, <1>4
  <2>3. DOMAIN ids = 1..Len(ids)
    BY <2>2
  <2>4. \A i \in DOMAIN sources : i \in {1, 2} /\ sources[i].count \in {1, 2}
    BY <1>1, <1>2, <1>4
  <2>5. Len(ids) = sources[1].count + IF 2 \in DOMAIN sources THEN sources[2].count ELSE 0
    <3>1. sources[1].count \in {1, 2}
      BY <2>2, <2>4
    <3> QED
      BY <2>2, <3>1
  <2> QED
    BY <2>2, <2>3, <2>4, <2>5
<1>5. CASE n = 2
  <2> DEFINE x == R[1]
             y == R[2]
             a == sources[1].count
             b == sources[2].count
  <2>1. ids = x \o y
    BY <1>3, <1>5, FlattenSmall DEF R
  <2>2. /\ x = ReplicaIds(sources[1]) /\ y = ReplicaIds(sources[2])
        /\ x \in Seq(StreamId) /\ y \in Seq(StreamId) /\ Len(x) = a /\ Len(y) = b
        /\ a \in {1, 2} /\ b \in {1, 2} /\ 1 \in DOMAIN sources /\ 2 \in DOMAIN sources
    BY <1>1, <1>2, <1>3, <1>5
  <2> HIDE DEF x, y
  <2>3. /\ x \o y \in Seq(StreamId) /\ Len(x \o y) = Len(x) + Len(y)
        /\ \A i \in 1 .. Len(x) + Len(y) : (x \o y)[i] = IF i <= Len(x) THEN x[i] ELSE y[i - Len(x)]
    <3>1. x \in Seq(StreamId)
      BY <2>2
    <3>2. y \in Seq(StreamId)
      BY <2>2
    <3> QED
      BY <3>1, <3>2, ConcatProperties, Zenon
  <2> HIDE DEF a, b
  <2>4. /\ ids \in Seq(StreamId) /\ Len(ids) = a + b
        /\ \A i \in 1..(a + b) : ids[i] = IF i <= a THEN x[i] ELSE y[i - a]
    BY <2>1, <2>2, <2>3, Zenon
  <2>5. ASSUME NEW k \in 1..a PROVE ids[k] = x[k]
    <3>1. k \in 1..(a + b) /\ k <= a
      BY <2>2
    <3> QED
      BY <2>4, <3>1
  <2>6. ASSUME NEW k \in 1..b PROVE ids[a + k] = y[k]
    <3>1. a + k \in 1..(a + b) /\ ~(a + k <= a) /\ (a + k) - a = k
      BY <2>2
    <3> QED
      BY <2>4, <3>1
  <2>7. DOMAIN ids = 1..Len(ids)
    BY <2>4
  <2>8. \A i \in DOMAIN sources : i \in {1, 2} /\ sources[i].count \in {1, 2}
    BY <1>1, <1>2, <1>5
  <2> QED
    BY <2>2, <2>4, <2>5, <2>6, <2>7, <2>8 DEF a, b
<1> QED
  BY <1>1, <1>4, <1>5

\* There is at least one stream with an id, and two share one exactly where
\* two replicas do.
LEMMA StreamIdsAreShared ==
  ASSUME SourcesFit, NEW ids, ids = FlattenSeq([i \in DOMAIN sources |-> ReplicaIds(sources[i])])
  PROVE  /\ ids # << >>
         /\ Shared <=> \E k, l \in DOMAIN ids : k # l /\ ids[k] = ids[l]
<1> DEFINE a == sources[1].count
           b == IF 2 \in DOMAIN sources THEN sources[2].count ELSE 0
           At(i, k) == IF i = 1 THEN k ELSE a + k
<1>1. /\ \A i \in DOMAIN sources : i \in {1, 2} /\ sources[i].count \in {1, 2}
      /\ 1 \in DOMAIN sources /\ Len(ids) = a + b /\ DOMAIN ids = 1..Len(ids)
      /\ \A k \in 1..a : ids[k] = ReplicaIds(sources[1])[k]
      /\ 2 \in DOMAIN sources => \A k \in 1..sources[2].count :
           ids[a + k] = ReplicaIds(sources[2])[k]
  BY ReplicasInOrder
<1>2. a \in {1, 2} /\ b \in {0, 1, 2}
  BY <1>1
<1>3. ids # << >>
  <2>1. Len(ids) # 0
    <3> HIDE DEF a, b
    <3> QED
      BY <1>1, <1>2
  <2> QED
    BY <2>1
<1>4. ASSUME NEW i \in DOMAIN sources, NEW k \in 1..sources[i].count
      PROVE  At(i, k) \in DOMAIN ids /\ ids[At(i, k)] = ReplicaIds(sources[i])[k]
  <2>1. CASE i = 1
    <3>1. k \in 1..a
      BY <2>1
    <3> HIDE DEF a, b
    <3>2. k \in 1..(a + b)
      BY <1>2, <3>1
    <3> QED
      BY <1>1, <2>1, <3>1, <3>2
  <2>2. CASE i = 2
    <3>1. k \in 1..b /\ b = sources[2].count /\ At(i, k) = a + k
      BY <2>2
    <3>2. ids[a + k] = ReplicaIds(sources[2])[k]
      BY <1>1, <2>2, <3>1
    <3> HIDE DEF a, b, At
    <3>3. a + k \in 1..(a + b)
      BY <1>2, <3>1
    <3> QED
      BY <1>1, <2>2, <3>1, <3>2, <3>3
  <2> QED
    BY <1>1, <2>1, <2>2
<1>5. ASSUME NEW i \in DOMAIN sources, NEW k \in 1..sources[i].count,
             NEW j \in DOMAIN sources, NEW l \in 1..sources[j].count, i # j \/ k # l
      PROVE  At(i, k) # At(j, l)
  <2>1. i \in {1, 2} /\ j \in {1, 2} /\ (i = 1 => k \in 1..a) /\ (j = 1 => l \in 1..a)
        /\ k \in Int /\ l \in Int /\ k >= 1 /\ l >= 1
    BY <1>1
  <2> HIDE DEF a
  <2> QED
    BY <1>2, <1>5, <2>1
<1>6. ASSUME NEW p \in DOMAIN ids
      PROVE  \E i \in DOMAIN sources : \E k \in 1..sources[i].count : p = At(i, k)
  <2>1. p \in 1..(a + b)
    BY <1>1
  <2>2. CASE p \in 1..a
    BY <1>1, <2>2
  <2>3. CASE p \notin 1..a
    <3>1. p - a \in 1..b /\ p = a + (p - a) /\ b # 0
      <4> HIDE DEF a, b
      <4> QED
        BY <1>2, <2>1, <2>3
    <3>2. 2 \in DOMAIN sources /\ b = sources[2].count
      BY <3>1
    <3>3. At(2, p - a) = a + (p - a)
      OBVIOUS
    <3> HIDE DEF At
    <3> QED
      BY <3>1, <3>2, <3>3
  <2> QED
    BY <2>2, <2>3
<1> HIDE DEF a, b, At
<1>7. ASSUME Shared PROVE \E k, l \in DOMAIN ids : k # l /\ ids[k] = ids[l]
  <2>1. PICK i, j \in DOMAIN sources : \E k \in 1..sources[i].count, l \in 1..sources[j].count :
          (i # j \/ k # l) /\ ReplicaIds(sources[i])[k] = ReplicaIds(sources[j])[l]
    BY <1>7 DEF Shared
  <2>2. PICK k \in 1..sources[i].count, l \in 1..sources[j].count :
          (i # j \/ k # l) /\ ReplicaIds(sources[i])[k] = ReplicaIds(sources[j])[l]
    BY <2>1
  <2> QED
    BY <1>4, <1>5, <2>2
<1>8. ASSUME NEW p \in DOMAIN ids, NEW q \in DOMAIN ids, p # q, ids[p] = ids[q] PROVE Shared
  <2>1. PICK i \in DOMAIN sources : \E k \in 1..sources[i].count : p = At(i, k)
    BY <1>6
  <2>2. PICK k \in 1..sources[i].count : p = At(i, k)
    BY <2>1
  <2>3. PICK j \in DOMAIN sources : \E l \in 1..sources[j].count : q = At(j, l)
    BY <1>6
  <2>4. PICK l \in 1..sources[j].count : q = At(j, l)
    BY <2>3
  <2>5. ReplicaIds(sources[i])[k] = ReplicaIds(sources[j])[l]
    BY <1>4, <1>8, <2>2, <2>4
  <2>6. i # j \/ k # l
    BY <1>8, <2>2, <2>4
  <2> QED
    BY <2>5, <2>6 DEF Shared
<1> QED
  BY <1>3, <1>7, <1>8

(***************************************************************************)
(* The invariant.                                                          *)
(***************************************************************************)
\* Once the numbers are read, the one of the file is as written or raised to
\* its least, and the face detector has an instance.
NumbersFit ==
  reading \in {"modules", "streams", "validate", "expand", "accepted"} =>
    /\ file.name # "none" =>
         \/ numbers[file.name] = file.number
         \/ Info(file.name).how = "raised" /\ file.number < numbers[file.name]
    /\ numbers["face.model_instances"] >= 1

\* The files of the network belong together once they are chosen.
ModelsFit ==
  reading \in {"streams", "validate", "expand", "accepted"} =>
    models.param = models.bin \/ file.model.param_path # file.model.bin_path

\* Once they are read, the streams are as the files have them.
StreamsFit ==
  reading \in {"validate", "expand", "accepted"} => SourcesFit

\* What validate_config has found stays so.
ChecksHold ==
  reading \in {"expand", "accepted"} => StreamingIsValid /\ RuntimeIsValid /\ ModulesAreValid

\* The expansion is the last step.
IdsFit ==
  reading = "accepted" =>
    streamIds = FlattenSeq([i \in DOMAIN sources |-> ReplicaIds(sources[i])])

ConfigInv ==
  /\ reading \in {"text", "numbers", "modules", "streams", "validate", "expand",
                  "accepted", "rejected"}
  /\ file.name \in Names \cup {"none"} /\ file.number \in Int /\ file.model \in ModelKeys
  /\ reading # "text" =>
       file.streams \in {<< >>} \cup {<< s >> : s \in StreamKeys} \cup TwoStreams
  /\ NumbersFit /\ ModelsFit /\ StreamsFit /\ ChecksHold /\ IdsFit
\* A configuration that is refused is told no more.
LEMMA RejectedIsFine ==
  ASSUME ConfigInv, reading' = "rejected",
         (file' = file /\ reading # "text") \/ file' \in Files
  PROVE  ConfigInv'
<1>1. /\ file'.name \in Names \cup {"none"} /\ file'.number \in Int /\ file'.model \in ModelKeys
      /\ file' \in Files => file'.streams \in {<< >>} \cup {<< s >> : s \in StreamKeys} \cup TwoStreams
  BY FilesTyped DEF ConfigInv
<1>2. file'.streams \in {<< >>} \cup {<< s >> : s \in StreamKeys} \cup TwoStreams
  BY <1>1 DEF ConfigInv
<1> QED
  BY <1>1, <1>2 DEF ConfigInv, NumbersFit, ModelsFit, StreamsFit, ChecksHold, IdsFit

\* The numbers: the file's own is kept or raised, the others are the defaults.
LEMMA ReadNumbersKeeps ==
  ASSUME ConfigInv, ReadNumbers PROVE ConfigInv'
<1>1. CASE Reject
  BY <1>1, RejectedIsFine DEF ReadNumbers, Reject
<1>2. CASE ~Reject
  <2> DEFINE read(name) == IF name = file.name THEN ReadNumber(Info(name), file.number)
                           ELSE [ok |-> TRUE, value |-> Info(name).default]
  <2>1. /\ reading = "numbers" /\ reading' = "modules" /\ file' = file
        /\ \A name \in Names : read(name).ok
        /\ numbers' = [name \in Names |-> read(name).value]
        /\ UNCHANGED << models, sources, streamIds, choices >>
    BY <1>2 DEF ReadNumbers
  <2>2. file.name \in Names \cup {"none"} /\ file.number \in Int /\ file.model \in ModelKeys
        /\ file.streams \in {<< >>} \cup {<< s >> : s \in StreamKeys} \cup TwoStreams
    BY <2>1 DEF ConfigInv
  <2>3. ASSUME NEW name \in Names, name = file.name
        PROVE  \/ read(name).value = file.number
               \/ Info(name).how = "raised" /\ file.number < read(name).value
    <3>1. Info(name) \in InfoRecord /\ read(name) = ReadNumber(Info(name), file.number)
      BY <2>3, InfoTyped
    <3> HIDE DEF read
    <3> QED
      BY <3>1, <2>2 DEF ReadNumber, Size, InfoRecord, ReadingKinds
  <2>4. "face.model_instances" \in Names /\ read("face.model_instances").value >= 1
    <3> DEFINE n == "face.model_instances"
    <3>1. n \in Names /\ Info(n).how = "raised" /\ Info(n).least = 1 /\ Info(n).default = 1
      BY FacesAreRaised DEF Number
    <3>2. n = file.name => read(n).value = IF file.number < 1 THEN 1 ELSE file.number
      BY <3>1 DEF ReadNumber
    <3>3. n # file.name => read(n).value = 1
      BY <3>1
    <3> HIDE DEF read, n
    <3>4. read(n).value >= 1
      BY <3>2, <3>3, <2>2
    <3> QED
      BY <3>1, <3>4 DEF n
  <2> HIDE DEF read
  <2>5. NumbersFit'
    BY <2>1, <2>2, <2>3, <2>4 DEF NumbersFit
  <2> QED
    BY <2>1, <2>2, <2>5 DEF ConfigInv, ModelsFit, StreamsFit, ChecksHold, IdsFit
<1> QED
  BY <1>1, <1>2

\* The modules: the choices and the two files of the network.
LEMMA ReadModulesKeeps ==
  ASSUME ConfigInv, ReadModules PROVE ConfigInv'
<1>1. CASE Reject
  BY <1>1, RejectedIsFine DEF ReadModules, Reject
<1>2. CASE ~Reject
  <2>1. /\ reading = "modules" /\ reading' = "streams" /\ UNCHANGED << file, numbers, sources, streamIds >>
        /\ models' = CASE file.detector = "yolox" -> Yolox(file.model)
                       [] file.detector = "uhd" -> Uhd(file.model)
                       [] OTHER -> Scrfd(file.model)
    BY <1>2 DEF ReadModules
  <2>2. models' \in {Yolox(file.model), Uhd(file.model), Scrfd(file.model)}
    BY <2>1
  <2>3. ModelsFit'
    BY <2>1, <2>2, ModelsBelong DEF ModelsFit, ConfigInv
  <2>4. NumbersFit'
    BY <2>1 DEF ConfigInv, NumbersFit
  <2> QED
    BY <2>1, <2>3, <2>4 DEF ConfigInv, StreamsFit, ChecksHold, IdsFit
<1> QED
  BY <1>1, <1>2

\* What the parser makes of the streams of a file.
LEMMA StreamsGiveSources ==
  ASSUME NEW ss \in {<< >>} \cup {<< s >> : s \in StreamKeys} \cup TwoStreams, ss # << >>,
         NEW so, so = [i \in DOMAIN ss |-> [id |-> ss[i].id, ids |-> ss[i].ids,
                               count |-> IF ss[i].count < 1 THEN 1 ELSE ss[i].count]]
  PROVE  so \in Seq(Source) /\ Len(so) \in {1, 2}
<1> DEFINE Made(s) == [id |-> s.id, ids |-> s.ids, count |-> IF s.count < 1 THEN 1 ELSE s.count]
<1>1. ASSUME NEW s \in StreamKeys PROVE Made(s) \in Source
  BY DEF StreamKeys, Source
<1>2. CASE ss \in {<< s >> : s \in StreamKeys}
  <2>1. PICK s \in StreamKeys : ss = << s >>
    BY <1>2
  <2>2. DOMAIN ss = 1..1 /\ ss[1] = s
    BY <2>1
  <2>3. so = [i \in 1..1 |-> Made(ss[i])]
    BY <2>2
  <2> HIDE DEF Made
  <2>4. so = << Made(s) >>
    BY <2>2, <2>3
  <2> QED
    BY <2>4, <1>1
<1>3. CASE ss \in TwoStreams
  <2> DEFINE Named(j, c, i) == [PlainStream EXCEPT !.id = j, !.count = c, !.ids = i]
  <2>1. PlainStream \in StreamKeys
    BY PlainStreamIsOne
  <2>2. \A j \in OwnIds, c \in {0, 2}, i \in GivenIds : Named(j, c, i) \in StreamKeys
    BY <2>1 DEF StreamKeys
  <2>3. NamedStreams = {Named(j, c, i) : j \in OwnIds, c \in {0, 2}, i \in GivenIds}
    BY DEF NamedStreams
  <2> HIDE DEF Named
  <2>4. PICK s \in NamedStreams, t \in NamedStreams : ss = << s, t >>
    BY <1>3 DEF TwoStreams
  <2>5. DOMAIN ss = 1..2 /\ ss[1] = s /\ ss[2] = t /\ s \in StreamKeys /\ t \in StreamKeys
    BY <2>2, <2>3, <2>4
  <2>6. so = [k \in 1..2 |-> Made(ss[k])]
    BY <2>5
  <2> HIDE DEF Made
  <2>7. so = << Made(ss[1]), Made(ss[2]) >>
    BY <2>6
  <2>8. Made(ss[1]) \in Source /\ Made(ss[2]) \in Source
    BY <1>1, <2>5
  <2> QED
    BY <2>7, <2>8
<1> QED
  BY <1>2, <1>3

\* The streams.
LEMMA ReadStreamsKeeps ==
  ASSUME ConfigInv, ReadStreams PROVE ConfigInv'
<1>1. CASE Reject
  BY <1>1, RejectedIsFine DEF ReadStreams, Reject
<1>2. CASE ~Reject
  <2>1. /\ reading = "streams" /\ reading' = "validate" /\ UNCHANGED << file, numbers, models, streamIds >>
        /\ file.streams # << >>
        /\ sources' = [i \in DOMAIN file.streams |->
                [id |-> file.streams[i].id, ids |-> file.streams[i].ids,
                 count |-> IF file.streams[i].count < 1 THEN 1 ELSE file.streams[i].count]]
    BY <1>2 DEF ReadStreams
  <2>2. file.streams \in {<< >>} \cup {<< s >> : s \in StreamKeys} \cup TwoStreams
    BY <2>1 DEF ConfigInv
  <2>3. SourcesFit'
    BY <2>1, <2>2, StreamsGiveSources DEF SourcesFit
  <2>4. NumbersFit' /\ ModelsFit'
    BY <2>1 DEF ConfigInv, NumbersFit, ModelsFit
  <2> QED
    BY <2>1, <2>3, <2>4 DEF ConfigInv, StreamsFit, ChecksHold, IdsFit
<1> QED
  BY <1>1, <1>2

\* The checks look at the numbers and the choices alone.
LEMMA ChecksStay ==
  ASSUME numbers' = numbers, choices' = choices, StreamingIsValid, RuntimeIsValid, ModulesAreValid
  PROVE  (StreamingIsValid /\ RuntimeIsValid /\ ModulesAreValid)'
<1>1. StreamingIsValid'
  BY DEF StreamingIsValid
<1>2. RuntimeIsValid'
  BY DEF RuntimeIsValid
<1>3. ModulesAreValid'
  BY DEF ModulesAreValid
<1> QED
  BY <1>1, <1>2, <1>3

\* validate_config: what it has checked holds of what is expanded.
LEMMA ValidateKeeps ==
  ASSUME ConfigInv, Validate PROVE ConfigInv'
<1>1. CASE Reject
  BY <1>1, RejectedIsFine DEF Validate, Reject
<1>2. CASE ~Reject
  <2>1. /\ reading = "validate" /\ reading' = "expand" /\ StreamingIsValid /\ RuntimeIsValid
        /\ ModulesAreValid /\ UNCHANGED << file, numbers, choices, models, sources, streamIds >>
    BY <1>2 DEF Validate
  <2>2. ChecksHold'
    BY <2>1, ChecksStay DEF ChecksHold
  <2>3. NumbersFit' /\ ModelsFit' /\ StreamsFit'
    BY <2>1 DEF ConfigInv, NumbersFit, ModelsFit, StreamsFit, SourcesFit
  <2> QED
    BY <2>1, <2>2, <2>3 DEF ConfigInv, IdsFit
<1> QED
  BY <1>1, <1>2

\* expand_replicas: the ids of the streams.
LEMMA ExpandKeeps ==
  ASSUME ConfigInv, ExpandReplicas PROVE ConfigInv'
<1>1. /\ reading = "expand" /\ reading' = "accepted"
      /\ streamIds' = FlattenSeq([i \in DOMAIN sources |-> ReplicaIds(sources[i])])
      /\ UNCHANGED << file, numbers, choices, models, sources >>
  BY DEF ExpandReplicas
<1>2. ChecksHold'
  BY <1>1, ChecksStay DEF ConfigInv, ChecksHold
<1>3. NumbersFit' /\ ModelsFit' /\ StreamsFit'
  BY <1>1 DEF ConfigInv, NumbersFit, ModelsFit, StreamsFit, SourcesFit
<1>4. IdsFit'
  BY <1>1 DEF IdsFit
<1> QED
  BY <1>1, <1>2, <1>3, <1>4 DEF ConfigInv

\* The inductive invariant of the parser.
LEMMA ConfigInvHolds == ConfigSpec => []ConfigInv
<1>1. ASSUME ConfigInit PROVE ConfigInv
  <2>1. file.name = "none" /\ file.number = 0 /\ file.model = PlainFile.model
    BY <1>1 DEF ConfigInit, PlainFile
  <2>2. PlainFile.model \in ModelKeys
    BY DEF PlainFile, ModelKeys, Absent
  <2> QED
    BY <1>1, <2>1, <2>2 DEF ConfigInit, ConfigInv, NumbersFit, ModelsFit, StreamsFit, ChecksHold, IdsFit
<1>2. ConfigInv /\ [ConfigNext]_configVars => ConfigInv'
  <2> SUFFICES ASSUME ConfigInv, [ConfigNext]_configVars PROVE ConfigInv'
    OBVIOUS
  <2>1. CASE ReadText
    <3>1. CASE Reject
      BY <2>1, <3>1, RejectedIsFine DEF ReadText, Reject
    <3>2. CASE ~Reject
      <4>1. file' \in Files /\ reading' = "numbers"
        BY <2>1, <3>2 DEF ReadText
      <4> QED
        BY <4>1, FilesTyped DEF ConfigInv, NumbersFit, ModelsFit, StreamsFit, ChecksHold, IdsFit
    <3> QED
      BY <3>1, <3>2
  <2>2. CASE UNCHANGED configVars
    <3>1. UNCHANGED << reading, file, numbers, choices, models, sources, streamIds >>
      BY <2>2 DEF configVars
    <3>2. ChecksHold'
      BY <3>1, ChecksStay DEF ConfigInv, ChecksHold
    <3>3. NumbersFit' /\ ModelsFit' /\ StreamsFit' /\ IdsFit'
      BY <3>1 DEF ConfigInv, NumbersFit, ModelsFit, StreamsFit, SourcesFit, IdsFit
    <3> QED
      BY <3>1, <3>2, <3>3 DEF ConfigInv
  <2> QED
    BY <2>1, <2>2, ReadNumbersKeeps, ReadModulesKeeps, ReadStreamsKeeps, ValidateKeeps, ExpandKeeps
       DEF ConfigNext
<1>3. QED
  BY <1>1, <1>2, PTL DEF ConfigSpec

(* AcceptedIsUsable (config.cpp): what the components take for granted of  *)
(* their parameters, the numbers, the model files and the ids of streams.  *)
THEOREM AcceptedIsUsableHolds == ConfigSpec => []AcceptedIsUsable
<1>1. ConfigInv => AcceptedIsUsable
  <2> SUFFICES ASSUME ConfigInv, reading = "accepted"
               PROVE  AcceptedIsUsable
    BY DEF AcceptedIsUsable
  <2>1. NumbersFit /\ ModelsFit /\ SourcesFit /\ StreamingIsValid /\ RuntimeIsValid /\ ModulesAreValid
        /\ streamIds = FlattenSeq([i \in DOMAIN sources |-> ReplicaIds(sources[i])])
    BY DEF ConfigInv, StreamsFit, ChecksHold, IdsFit
  <2>2. ComponentsNeed
    <3>1. "max_peers_per_stream" \in DOMAIN StreamingNumbers
      BY DEF StreamingNumbers
    <3>2. numbers["max_peers_per_stream"] >= 1
      BY <2>1, <3>1 DEF StreamingIsValid
    <3> QED
      BY <2>1, <3>2 DEF ComponentsNeed, RuntimeIsValid, ModulesAreValid, NumbersFit
  <2>3. file.name # "none" =>
         \/ numbers[file.name] = file.number
         \/ Info(file.name).how = "raised" /\ file.number < numbers[file.name]
    BY <2>1 DEF NumbersFit
  <2>4. models.param = models.bin \/ file.model.param_path # file.model.bin_path
    BY <2>1 DEF ModelsFit
  <2>5. streamIds # << >>
    BY <2>1, StreamIdsAreShared
  <2>6. IdsDiffer <=> ~IdsClash
    <3>1. Shared <=> \E k, l \in DOMAIN streamIds : k # l /\ streamIds[k] = streamIds[l]
      BY <2>1, StreamIdsAreShared
    <3>2. Shared <=> IdsClash
      BY <2>1, ClashesAreShared, SharedAreClashes
    <3> QED
      BY <3>1, <3>2 DEF IdsDiffer
  <2> QED
    BY <2>2, <2>3, <2>4, <2>5, <2>6 DEF AcceptedIsUsable
<1>2. QED
  BY <1>1, ConfigInvHolds, PTL

-----------------------------------------------------------------------------
(***************************************************************************)
(* Detection: decoding the networks' output, for inputs of every size, and *)
(* suppression.                                                            *)
(***************************************************************************)
Indices == 1..Len(rows)
CandidateRows == {i \in Indices : Candidate(rows[i])}
KeptRows == {kept[k] : k \in 1..Len(kept)}

-----------------------------------------------------------------------------
(* A cell of a grid that is numbered row by row is found again by division. *)
LEMMA PlaceOfCell ==
  ASSUME NEW c \in Nat \ {0}, NEW x \in 0..(c - 1), NEW y \in Nat
  PROVE  (y * c + x) \div c = y /\ (y * c + x) % c = x
  OBVIOUS

(* The number of a cell is less than the size of its grid.                 *)
LEMMA PlaceInLevel ==
  ASSUME NEW c \in Nat \ {0}, NEW r \in Nat, NEW x \in 0..(c - 1), NEW y \in 0..(r - 1)
  PROVE  y * c + x \in Nat /\ y * c + x < c * r
<1>1. (y + 1) * c <= r * c
  OBVIOUS
<1> QED
  BY <1>1

(* With sides that are multiples of 32 the code's rounding is exact.       *)
LEMMA ExactLevels ==
  ASSUME NEW n \in Nat \ {0}, n % 32 = 0, NEW l \in Levels
  PROVE  /\ Cells(n, l) = Ceiling(n, l) /\ Cells(n, l) \in Nat \ {0}
         /\ AtLeastOne(Cells(n, l)) = Ceiling(n, l)
<1>1. l = 1 \/ l = 2 \/ l = 3
  BY DEF Levels
<1>2. Stride[1] = 8 /\ Stride[2] = 16 /\ Stride[3] = 32
  BY DEF Stride
<1>3. n \div 8 = (n + 8 - 1) \div 8 /\ n \div 8 \in Nat \ {0}
  OBVIOUS
<1>4. n \div 16 = (n + 16 - 1) \div 16 /\ n \div 16 \in Nat \ {0}
  OBVIOUS
<1>5. n \div 32 = (n + 32 - 1) \div 32 /\ n \div 32 \in Nat \ {0}
  OBVIOUS
<1>6. Cells(n, l) = Ceiling(n, l) /\ Cells(n, l) \in Nat \ {0}
  BY <1>1, <1>2, <1>3, <1>4, <1>5 DEF Cells, Ceiling
<1> QED
  BY <1>6 DEF AtLeastOne

(* yolox: the row of a cell decodes to its level, column and row.          *)
LEMMA YoloxDecodes ==
  ASSUME NEW w \in Nat \ {0}, NEW h \in Nat \ {0}, w % 32 = 0, h % 32 = 0, NEW l \in Levels,
         NEW x \in 0..(Ceiling(w, l) - 1), NEW y \in 0..(Ceiling(h, l) - 1)
  PROVE  YoloxCell(w, h, LevelStart(w, h, l) + (y * Ceiling(w, l) + x)) = << l, x, y >>
<1> DEFINE place == y * Ceiling(w, l) + x
           i == LevelStart(w, h, l) + place
           within == {k \in Levels : i < YoloxStart(w, h, k) + YoloxLevel(w, h, k)}
<1>1. \A k \in Levels : /\ YoloxLevel(w, h, k) = LevelSize(w, h, k)
                        /\ LevelSize(w, h, k) \in Nat /\ Ceiling(w, k) \in Nat \ {0}
                        /\ Ceiling(h, k) \in Nat \ {0}
  BY ExactLevels DEF YoloxLevel, LevelSize
<1>2. Levels = {1, 2, 3}
  BY DEF Levels
<1>3. \A k \in Levels : YoloxStart(w, h, k) = LevelStart(w, h, k)
  BY <1>1, <1>2 DEF YoloxStart, LevelStart
<1>4. place \in Nat /\ place < LevelSize(w, h, l)
  BY <1>1, PlaceInLevel DEF LevelSize
<1>5. place \div Ceiling(w, l) = y /\ place % Ceiling(w, l) = x
  <2>1. PICK c \in Nat \ {0} : c = Ceiling(w, l)
    BY <1>1
  <2>2. x \in 0..(c - 1) /\ y \in Nat
    BY <2>1, <1>1
  <2>3. (y * c + x) \div c = y /\ (y * c + x) % c = x
    BY <2>2, PlaceOfCell
  <2> QED
    BY <2>1, <2>3
<1> HIDE DEF place
<1> DEFINE a == LevelSize(w, h, 1)
           b == LevelSize(w, h, 2)
           c == LevelSize(w, h, 3)
<1>6. a \in Nat /\ b \in Nat /\ c \in Nat
  BY <1>1, <1>2
<1>7. LevelStart(w, h, 1) = 0 /\ LevelStart(w, h, 2) = a /\ LevelStart(w, h, 3) = a + b
  BY <1>6 DEF LevelStart
<1> HIDE DEF a, b, c
<1>8. within = {k \in Levels : i < LevelStart(w, h, k) + LevelSize(w, h, k)}
  BY <1>1, <1>3
<1>9. l \in within /\ \A k \in within : l <= k
  <2>1. CASE l = 1
    BY <1>2, <1>4, <1>6, <1>7, <1>8, <2>1 DEF a
  <2>2. CASE l = 2
    BY <1>2, <1>4, <1>6, <1>7, <1>8, <2>2 DEF a, b
  <2>3. CASE l = 3
    BY <1>2, <1>4, <1>6, <1>7, <1>8, <2>3 DEF a, b, c
  <2> QED
    BY <1>2, <2>1, <2>2, <2>3
<1> HIDE DEF within
<1>10. (CHOOSE m \in within : \A k \in within : m <= k) = l
  <2>1. \A m \in within : m \in Int
    BY <1>2, <1>8
  <2>2. \A m \in within : (\A k \in within : m <= k) => m = l
    BY <1>9, <2>1
  <2> QED
    BY <1>9, <2>2
<1>11. i - LevelStart(w, h, l) = place
  BY <1>2, <1>4, <1>6, <1>7
<1>12. AtLeastOne(Cells(w, l)) = Ceiling(w, l)
  BY ExactLevels
<1> QED
  BY <1>3, <1>5, <1>9, <1>10, <1>11, <1>12 DEF YoloxCell, within, place

(* scrfd: the number of anchors, and the cell of an anchor, found by       *)
(* division.                                                               *)
LEMMA AnchorOfPlace ==
  ASSUME NEW n \in Nat \ {0}, NEW p \in Nat, NEW k \in {1, 2}, NEW a \in {0, 1}, a < k
  PROVE  AtLeastOne((k * n) \div n) = k /\ (p * k + a) \div k = p
<1>1. (k * n) \div n = k
  <2>1. CASE k = 1
    BY <2>1
  <2>2. CASE k = 2
    <3>1. (2 * n) \div n = 2
      OBVIOUS
    <3> QED
      BY <2>2, <3>1
  <2> QED
    BY <2>1, <2>2
<1>2. (p * k + a) \div k = p
  <2>1. CASE k = 1
    BY <2>1
  <2>2. CASE k = 2
    BY <2>2
  <2> QED
    BY <2>1, <2>2
<1> QED
  BY <1>1, <1>2 DEF AtLeastOne

(* scrfd: the row of an anchor of a cell decodes to the cell.              *)
LEMMA ScrfdDecodes ==
  ASSUME NEW w \in Nat \ {0}, NEW h \in Nat \ {0}, w % 32 = 0, h % 32 = 0, NEW l \in Levels,
         NEW anchors \in {1, 2}, NEW a \in {0, 1}, a < anchors,
         NEW x \in 0..(Ceiling(w, l) - 1), NEW y \in 0..(Ceiling(h, l) - 1)
  PROVE  ScrfdCell(w, h, l, anchors * LevelSize(w, h, l), (y * Ceiling(w, l) + x) * anchors + a)
           = << l, x, y >>
<1>0. PICK c \in Nat \ {0}, r \in Nat \ {0} : c = Ceiling(w, l) /\ r = Ceiling(h, l)
  BY ExactLevels
<1>1. Cells(w, l) = c /\ Cells(h, l) = r /\ LevelSize(w, h, l) = c * r
  BY <1>0, ExactLevels DEF LevelSize
<1>2. x \in 0..(c - 1) /\ y \in 0..(r - 1) /\ x \in Int /\ y \in Nat
  BY <1>0
<1>3. PICK p \in Nat : p = y * c + x
  BY <1>2, PlaceInLevel
<1>4. p < c * r /\ p \div c = y
  <2>1. y * c + x < c * r
    BY <1>2, PlaceInLevel
  <2>2. (y * c + x) \div c = y
    <3>1. c \in Nat \ {0}
      OBVIOUS
    <3>2. x \in 0..(c - 1)
      BY <1>2
    <3>3. y \in Nat
      BY <1>2
    <3> QED
      BY ONLY <3>1, <3>2, <3>3, PlaceOfCell
  <2> QED
    BY <1>3, <2>1, <2>2
<1>5. p - y * c = x
  BY <1>2, <1>3
<1>6. PICK n \in Nat \ {0} : n = c * r
  BY <1>3, <1>4
<1>7. AtLeastOne((anchors * n) \div n) = anchors /\ (p * anchors + a) \div anchors = p
  BY AnchorOfPlace
<1>8. ScrfdAnchors(w, h, l, anchors * n) = anchors
  BY <1>1, <1>6, <1>7 DEF ScrfdAnchors
<1>9. ScrfdCell(w, h, l, anchors * n, p * anchors + a) = << l, x, y >>
  <2>1. ~(p >= c * r)
    BY <1>3, <1>4, <1>6
  <2> QED
    BY <1>1, <1>4, <1>5, <1>7, <1>8, <2>1 DEF ScrfdCell
<1> QED
  BY <1>0, <1>1, <1>3, <1>6, <1>9

(* yunet: the row of a cell decodes to the cell.                           *)
LEMMA YunetDecodes ==
  ASSUME NEW w \in Nat \ {0}, NEW h \in Nat \ {0}, w % 32 = 0, h % 32 = 0, NEW l \in Levels,
         NEW x \in 0..(Ceiling(w, l) - 1), NEW y \in 0..(Ceiling(h, l) - 1)
  PROVE  YunetCell(w, h, l, y * Ceiling(w, l) + x) = << l, x, y >>
<1>0. PICK c \in Nat \ {0}, r \in Nat \ {0} : c = Ceiling(w, l) /\ r = Ceiling(h, l)
  BY ExactLevels
<1>1. Cells(w, l) = c /\ Cells(h, l) = r
  BY <1>0, ExactLevels
<1>2. x \in 0..(c - 1) /\ y \in 0..(r - 1) /\ x \in Int /\ y \in Nat
  BY <1>0
<1>3. PICK p \in Nat : p = y * c + x
  BY <1>2, PlaceInLevel
<1>4. p < c * r /\ p \div c = y
  <2>1. y * c + x < c * r
    BY <1>2, PlaceInLevel
  <2>2. (y * c + x) \div c = y
    <3>1. c \in Nat \ {0}
      OBVIOUS
    <3>2. x \in 0..(c - 1)
      BY <1>2
    <3>3. y \in Nat
      BY <1>2
    <3> QED
      BY ONLY <3>1, <3>2, <3>3, PlaceOfCell
  <2> QED
    BY <1>3, <2>1, <2>2
<1>5. p - y * c = x
  BY <1>2, <1>3
<1>6. ~(p >= c * r)
  BY <1>3, <1>4
<1>7. YunetCell(w, h, l, p) = << l, x, y >>
  BY <1>1, <1>4, <1>5, <1>6 DEF YunetCell
<1> QED
  BY <1>0, <1>3, <1>7

(* uhd: the field of an anchor is read from its own channel, in both       *)
(* layouts of the head.                                                    *)
LEMMA UhdDecodes ==
  ASSUME NEW a \in Anchors, NEW field \in 0..6
  PROVE  /\ UhdHead(UhdChannel("catenated", a, field)) = << a, field >>
         /\ UhdChannel("gathered", a, field) \div 7 = a
         /\ UhdChannel("gathered", a, field) % 7 = field
<1>1. a \in 0..7
  BY DEF Anchors
<1>2. UhdChannel("gathered", a, field) = a * 7 + field
  BY DEF UhdChannel
<1>3. CASE field < 4
  <2>1. UhdChannel("catenated", a, field) = a * 4 + field
    BY <1>3 DEF UhdChannel
  <2>2. a * 4 + field < 32 /\ (a * 4 + field) \div 4 = a /\ (a * 4 + field) % 4 = field
    BY <1>1, <1>3
  <2>3. UhdHead(a * 4 + field) = << a, field >>
    BY <2>2 DEF UhdHead
  <2>4. (a * 7 + field) \div 7 = a /\ (a * 7 + field) % 7 = field
    BY <1>1
  <2> QED
    BY <1>2, <2>1, <2>3, <2>4
<1>4. CASE field >= 4
  <2>1. UhdChannel("catenated", a, field) = 32 + (field - 4) * 8 + a
    BY <1>4 DEF UhdChannel
  <2>2. PICK m \in Nat : m = 32 + (field - 4) * 8 + a
    BY <1>1, <1>4
  <2>3. ~(m < 32) /\ (m - 32) % 8 = a /\ 4 + ((m - 32) \div 8) = field
    BY <1>1, <1>4, <2>2
  <2>4. UhdHead(m) = << a, field >>
    BY <2>3 DEF UhdHead
  <2>5. (a * 7 + field) \div 7 = a /\ (a * 7 + field) % 7 = field
    BY <1>1
  <2> QED
    BY <1>2, <2>1, <2>2, <2>4, <2>5
<1> QED
  BY <1>3, <1>4

-----------------------------------------------------------------------------
DetectPhases == {"load", "ready", "threw", "decoded", "rank", "suppress", "done"}

DetectTypeOK ==
  /\ phase \in DetectPhases
  /\ rows \in Seq(Boxes)
  /\ order \in Seq(Indices) /\ kept \in Seq(Indices)
  /\ next \in Nat \ {0}
  /\ phase = "ready" => rows = << >>
  /\ phase = "load" => rows = << >>

\* A row that is as good as another.
StandsFor(k, i) == rows[k].score >= rows[i].score

\* The order: candidates, best first; a candidate is in it, or as many better
\* ones are.
RankInv ==
  phase \in {"suppress", "done"} /\ rows # << >> =>
    /\ \A k \in 1..Len(order) : order[k] \in CandidateRows
    /\ \A j, k \in 1..Len(order) : j < k => StandsFor(order[j], order[k])
    /\ \A i \in CandidateRows :
         \/ \E k \in 1..Len(order) : order[k] = i
         \/ /\ i \in dropped /\ Len(order) = TopK
            /\ \A k \in 1..Len(order) : StandsFor(order[k], i)

\* While rows are gone through in that order, each is kept or overlaps a
\* better one that is.
SuppressInv ==
  /\ phase # "suppress" /\ phase # "done" => order = << >> /\ kept = << >> /\ next = 1
  /\ phase \in {"suppress", "done"} /\ rows # << >> =>
       /\ next \in 1..(Len(order) + 1)
       /\ phase = "done" => next > Len(order)
       /\ \A i \in KeptRows : \E j \in 1..(next - 1) : i = order[j]
       /\ \A j \in 1..(next - 1) :
            order[j] \in KeptRows \/ \E i \in KeptRows : Overlap(order[j], i) /\ StandsFor(i, order[j])
       /\ \A i, j \in KeptRows : i # j => ~Overlap(i, j)

DetectInv == DetectTypeOK /\ CellsAreDecoded /\ RankInv /\ SuppressInv

(* No rows are read at the start.                                          *)
LEMMA DetectInvInit == DetectInit => DetectInv
<1> SUFFICES ASSUME DetectInit PROVE DetectInv
  OBVIOUS
<1>1. DetectTypeOK
  BY DEF DetectInit, DetectTypeOK, DetectPhases
<1>2. CellsAreDecoded
  BY DEF DetectInit, CellsAreDecoded, NoRow
<1>3. RankInv
  BY DEF DetectInit, RankInv
<1>4. SuppressInv
  BY DEF DetectInit, SuppressInv
<1> QED
  BY <1>1, <1>2, <1>3, <1>4 DEF DetectInv

(* DecodeRow puts every row at the cell the network wrote it for.          *)
LEMMA DecodeRowExact ==
  ASSUME DecodeRow
  PROVE  CellsAreDecoded'
<1> USE DetectionAssumption
<1>1. ASSUME NEW w \in InputSizes, NEW h \in InputSizes, NEW l \in Levels,
             NEW anchors \in {1, 2}, NEW a \in {0, 1}, a < anchors,
             NEW x \in 0..(Ceiling(w, l) - 1), NEW y \in 0..(Ceiling(h, l) - 1),
             NEW kind, NEW cell, NEW decoded, Decode(kind, w, h, cell, decoded),
             w % 32 = 0 /\ h % 32 = 0 => decoded = cell
      PROVE  CellsAreDecoded'
  BY <1>1 DEF Decode, CellsAreDecoded
<1>2. ASSUME NEW w \in InputSizes, NEW h \in InputSizes, NEW l \in Levels,
             NEW anchors \in {1, 2}, NEW a \in {0, 1}, a < anchors,
             NEW x \in 0..(Ceiling(w, l) - 1), NEW y \in 0..(Ceiling(h, l) - 1)
      PROVE  w % 32 = 0 /\ h % 32 = 0 =>
               LET place == y * Ceiling(w, l) + x IN
               /\ YoloxCell(w, h, LevelStart(w, h, l) + place) = << l, x, y >>
               /\ ScrfdCell(w, h, l, anchors * LevelSize(w, h, l), place * anchors + a) = << l, x, y >>
               /\ YunetCell(w, h, l, place) = << l, x, y >>
  <2> SUFFICES ASSUME w % 32 = 0, h % 32 = 0
               PROVE  LET place == y * Ceiling(w, l) + x IN
               /\ YoloxCell(w, h, LevelStart(w, h, l) + place) = << l, x, y >>
               /\ ScrfdCell(w, h, l, anchors * LevelSize(w, h, l), place * anchors + a) = << l, x, y >>
               /\ YunetCell(w, h, l, place) = << l, x, y >>
    OBVIOUS
  <2>0. w \in Nat \ {0} /\ h \in Nat \ {0}
    BY DEF DetectionAssumption
  <2>1. YoloxCell(w, h, LevelStart(w, h, l) + (y * Ceiling(w, l) + x)) = << l, x, y >>
    BY <2>0, YoloxDecodes
  <2>2. ScrfdCell(w, h, l, anchors * LevelSize(w, h, l), (y * Ceiling(w, l) + x) * anchors + a) = << l, x, y >>
    BY <1>2, <2>0, ScrfdDecodes
  <2>3. YunetCell(w, h, l, y * Ceiling(w, l) + x) = << l, x, y >>
    BY <2>0, YunetDecodes
  <2> QED
    BY <2>1, <2>2, <2>3
<1>3. ASSUME NEW a \in Anchors, NEW field \in 0..6, NEW decoded, decoded = << a, field >>,
             Decode("uhd", 64, 64, << a, field >>, decoded)
      PROVE  CellsAreDecoded'
  BY <1>3 DEF Decode, CellsAreDecoded
<1>4. ASSUME NEW a \in Anchors, NEW field \in 0..6
      PROVE  /\ UhdHead(UhdChannel("catenated", a, field)) = << a, field >>
             /\ << UhdChannel("gathered", a, field) \div 7, UhdChannel("gathered", a, field) % 7 >>
                  = << a, field >>
  BY UhdDecodes
<1>5. CASE \E w, h \in InputSizes, l \in Levels, anchors \in {1, 2}, a \in {0, 1} :
             \E x \in 0..(Ceiling(w, l) - 1), y \in 0..(Ceiling(h, l) - 1) :
               LET place == y * Ceiling(w, l) + x IN
               /\ a < anchors
               /\ \/ Decode("yolox", w, h, << l, x, y >>,
                            YoloxCell(w, h, LevelStart(w, h, l) + place))
                  \/ Decode("scrfd", w, h, << l, x, y >>,
                            ScrfdCell(w, h, l, anchors * LevelSize(w, h, l), place * anchors + a))
                  \/ Decode("yunet", w, h, << l, x, y >>, YunetCell(w, h, l, place))
  <2>0. PICK w \in InputSizes, h \in InputSizes, l \in Levels, anchors \in {1, 2}, a \in {0, 1} :
          \E x \in 0..(Ceiling(w, l) - 1), y \in 0..(Ceiling(h, l) - 1) :
            LET place == y * Ceiling(w, l) + x IN
            /\ a < anchors
            /\ \/ Decode("yolox", w, h, << l, x, y >>,
                         YoloxCell(w, h, LevelStart(w, h, l) + place))
               \/ Decode("scrfd", w, h, << l, x, y >>,
                         ScrfdCell(w, h, l, anchors * LevelSize(w, h, l), place * anchors + a))
               \/ Decode("yunet", w, h, << l, x, y >>, YunetCell(w, h, l, place))
    BY <1>5
  <2>1. PICK x \in 0..(Ceiling(w, l) - 1), y \in 0..(Ceiling(h, l) - 1) :
          LET place == y * Ceiling(w, l) + x IN
          /\ a < anchors
          /\ \/ Decode("yolox", w, h, << l, x, y >>,
                       YoloxCell(w, h, LevelStart(w, h, l) + place))
             \/ Decode("scrfd", w, h, << l, x, y >>,
                       ScrfdCell(w, h, l, anchors * LevelSize(w, h, l), place * anchors + a))
             \/ Decode("yunet", w, h, << l, x, y >>, YunetCell(w, h, l, place))
    BY <2>0
  <2>2. w % 32 = 0 /\ h % 32 = 0 =>
          /\ YoloxCell(w, h, LevelStart(w, h, l) + (y * Ceiling(w, l) + x)) = << l, x, y >>
          /\ ScrfdCell(w, h, l, anchors * LevelSize(w, h, l), (y * Ceiling(w, l) + x) * anchors + a)
               = << l, x, y >>
          /\ YunetCell(w, h, l, y * Ceiling(w, l) + x) = << l, x, y >>
    BY <1>2, <2>1
  <2> QED
    BY <1>1, <2>1, <2>2
<1>6. CASE \E a \in Anchors, field \in 0..6 :
             \/ Decode("uhd", 64, 64, << a, field >>, UhdHead(UhdChannel("catenated", a, field)))
             \/ LET c == UhdChannel("gathered", a, field)
                IN Decode("uhd", 64, 64, << a, field >>, << c \div 7, c % 7 >>)
  BY <1>3, <1>4, <1>6
<1> QED
  BY <1>5, <1>6 DEF DecodeRow

(* A ranking lists every candidate.                                        *)
LEMMA RankingsList ==
  ASSUME rows \in Seq(Boxes), NEW q \in Rankings
  PROVE  /\ q \in Seq(CandidateRows)
         /\ \A i \in CandidateRows : \E k \in 1..Len(q) : q[k] = i
         /\ \A j, k \in 1..Len(q) : j < k => StandsFor(q[j], q[k])
<1> DEFINE C == CandidateRows
           n == Cardinality(C)
<1>1. C = {i \in 1..Len(rows) : Candidate(rows[i])} /\ C \subseteq 1..Len(rows)
  BY DEF CandidateRows, Indices
<1>2. IsFiniteSet(C)
  <2>1. IsFiniteSet(1..Len(rows))
    BY FS_Interval
  <2> QED
    BY <1>1, <2>1, FS_Subset
<1>3. n \in Nat
  BY <1>2, FS_CardinalityType
<1>4. /\ q \in [1..n -> C]
      /\ \A i, j \in 1..n : i < j => q[i] # q[j]
      /\ \A i, j \in 1..n : i < j => StandsFor(q[i], q[j])
  BY <1>1 DEF Rankings, StandsFor
<1> HIDE DEF C, n
<1>5. q \in Injection(1..n, C)
  <2>1. ASSUME NEW i \in 1..n, NEW j \in 1..n, q[i] = q[j] PROVE i = j
    BY <1>3, <1>4, <2>1
  <2> QED
    BY <1>4, <2>1 DEF Injection, IsInjective
<1>6. Cardinality(1..n) = n
  BY <1>3, FS_Interval
<1>7. q \in Surjection(1..n, C)
  BY <1>2, <1>5, <1>6, FS_Injection DEF n
<1>8. \A i \in C : \E k \in 1..n : q[k] = i
  BY <1>7 DEF Surjection
<1>9. q \in Seq(C) /\ Len(q) = n
  BY <1>3, <1>4, SeqDef, LenProperties
<1> QED
  BY <1>4, <1>8, <1>9 DEF C

(* Cutting it keeps a prefix: all of it, or TopK.                          *)
LEMMA CutKeepsPrefix ==
  ASSUME NEW S, NEW q \in Seq(S)
  PROVE  /\ Cut(q) \in Seq(S)
         /\ Len(Cut(q)) <= Len(q)
         /\ Len(Cut(q)) = Len(q) \/ Len(Cut(q)) = TopK
         /\ \A k \in 1..Len(Cut(q)) : Cut(q)[k] = q[k]
<1> USE DetectionAssumption DEF DetectionAssumption
<1>1. Len(q) \in Nat
  OBVIOUS
<1>2. CASE TopK > 0 /\ Len(q) > TopK
  <2>1. Cut(q) = SubSeq(q, 1, TopK)
    BY <1>2 DEF Cut
  <2>2. \A k \in 1..TopK : q[k] \in S
    BY <1>1, <1>2, ElementOfSeq
  <2>3. /\ SubSeq(q, 1, TopK) \in Seq(S)
        /\ Len(SubSeq(q, 1, TopK)) = TopK
        /\ \A k \in 1..TopK : SubSeq(q, 1, TopK)[k] = q[k]
    BY <1>1, <1>2
  <2> QED
    BY <1>1, <1>2, <2>1, <2>3
<1>3. CASE ~(TopK > 0 /\ Len(q) > TopK)
  <2>1. Cut(q) = q
    BY <1>3 DEF Cut
  <2> QED
    BY <1>1, <2>1
<1> QED
  BY <1>2, <1>3

(* Rank: the candidates in the order of their scores, cut to the best.     *)
LEMMA RankInvRank ==
  ASSUME DetectInv, Rank
  PROVE  RankInv' /\ order' \in Seq(Indices)'
<1>0. rows' = rows /\ rows \in Seq(Boxes) /\ UNCHANGED overlap
  BY DEF Rank, DetectInv, DetectTypeOK
<1>1. PICK q \in Rankings :
        /\ order' = Cut(q)
        /\ dropped' = {q[i] : i \in 1..Len(q)} \ {Cut(q)[i] : i \in 1..Len(Cut(q))}
  BY DEF Rank
<1>2. /\ q \in Seq(CandidateRows)
      /\ \A i \in CandidateRows : \E k \in 1..Len(q) : q[k] = i
      /\ \A j, k \in 1..Len(q) : j < k => StandsFor(q[j], q[k])
  BY <1>0, RankingsList
<1>3. PICK o \in Seq(CandidateRows) : o = Cut(q)
  BY <1>2, CutKeepsPrefix
<1>4. /\ Len(o) <= Len(q)
      /\ Len(o) = Len(q) \/ Len(o) = TopK
      /\ \A k \in 1..Len(o) : o[k] = q[k]
  BY <1>2, <1>3, CutKeepsPrefix
<1>5. Len(o) \in Nat /\ Len(q) \in Nat
  BY <1>2
<1>6. order' = o /\ dropped' = {q[i] : i \in 1..Len(q)} \ {o[i] : i \in 1..Len(o)}
  BY <1>1, <1>3
<1>7. CandidateRows' = CandidateRows /\ Indices' = Indices /\ CandidateRows \subseteq Indices
  BY <1>0 DEF CandidateRows, Indices, Candidate
<1>8. \A k \in 1..Len(o) : o[k] \in CandidateRows
  BY ElementOfSeq
<1>9. ASSUME NEW j \in 1..Len(o), NEW k \in 1..Len(o), j < k
      PROVE  StandsFor(o[j], o[k])
  <2>1. j \in 1..Len(q) /\ k \in 1..Len(q)
    BY <1>4, <1>5
  <2>2. StandsFor(q[j], q[k])
    BY <1>2, <1>9, <2>1
  <2> QED
    BY <1>4, <2>2
<1>10. ASSUME NEW i \in CandidateRows
       PROVE  \/ \E k \in 1..Len(o) : o[k] = i
              \/ /\ i \in dropped' /\ Len(o) = TopK
                 /\ \A k \in 1..Len(o) : StandsFor(o[k], i)
  <2>1. PICK m \in 1..Len(q) : q[m] = i
    BY <1>2
  <2>2. CASE m <= Len(o)
    BY <1>4, <1>5, <2>1, <2>2
  <2>3. CASE m > Len(o)
    <3>1. Len(o) = TopK
      BY <1>4, <1>5, <2>3
    <3>2. ASSUME NEW k \in 1..Len(o) PROVE StandsFor(o[k], i)
      <4>1. k \in 1..Len(q) /\ k < m
        BY <1>4, <1>5, <2>3
      <4>2. StandsFor(q[k], q[m])
        BY <1>2, <4>1
      <4> QED
        BY <1>4, <2>1, <4>2
    <3>3. (\E k \in 1..Len(o) : o[k] = i) \/ i \in dropped'
      BY <1>6, <2>1
    <3> QED
      BY <3>1, <3>2, <3>3
  <2> QED
    BY <1>5, <2>2, <2>3
<1>11. order' \in Seq(Indices)'
  BY <1>6, <1>7
<1>12. \A j, k : StandsFor(j, k)' <=> StandsFor(j, k)
  BY <1>0 DEF StandsFor
<1>13. RankInv'
  BY <1>6, <1>7, <1>8, <1>9, <1>10, <1>12 DEF RankInv
<1> QED
  BY <1>11, <1>13

(* One step of the suppression: the next candidate is kept, or stood for.  *)
LEMMA SuppressInvSuppress ==
  ASSUME DetectInv, Suppress
  PROVE  SuppressInv' /\ kept' \in Seq(Indices) /\ next' \in Nat \ {0}
<1>0. /\ order' = order /\ rows' = rows /\ overlap' = overlap /\ phase = "suppress"
      /\ order \in Seq(Indices) /\ kept \in Seq(Indices) /\ next \in Nat \ {0}
  BY DEF Suppress, DetectInv, DetectTypeOK
<1>0a. \A i, j : (Overlap(i, j)' <=> Overlap(i, j)) /\ (StandsFor(i, j)' <=> StandsFor(i, j))
  BY <1>0 DEF Overlap, StandsFor
<1>0b. Len(order) \in Nat /\ Len(kept) \in Nat
  BY <1>0
<1>1. CASE next > Len(order)
  <2>1. phase' = "done" /\ next' = next /\ kept' = kept
    BY <1>1 DEF Suppress
  <2>2. KeptRows' = KeptRows
    BY <2>1 DEF KeptRows
  <2>3. rows # << >> => next \in 1..(Len(order) + 1)
    BY <1>0 DEF SuppressInv, DetectInv
  <2>4. SuppressInv'
    BY <1>0, <1>0a, <1>1, <2>1, <2>2, <2>3 DEF SuppressInv, DetectInv
  <2> QED
    BY <1>0, <2>1, <2>4
<1>2. CASE ~(next > Len(order))
  <2>1. /\ phase' = "suppress" /\ next' = next + 1
        /\ kept' = IF Survives(order[next]) THEN Append(kept, order[next]) ELSE kept
    BY <1>0, <1>2 DEF Suppress
  <2> SUFFICES ASSUME rows # << >>
               PROVE  SuppressInv' /\ kept' \in Seq(Indices) /\ next' \in Nat \ {0}
    <3>1. CASE rows = << >>
      <4>1. order[next] \in Indices
        BY <1>0, <1>0b, <1>2, ElementOfSeq
      <4> QED
        BY <1>0, <2>1, <3>1, <4>1, AppendProperties DEF SuppressInv
    <3> QED
      BY <3>1
  <2>2. /\ next \in 1..Len(order)
        /\ \A i \in KeptRows : \E j \in 1..(next - 1) : i = order[j]
        /\ \A j \in 1..(next - 1) :
             order[j] \in KeptRows \/ \E i \in KeptRows : Overlap(order[j], i) /\ StandsFor(i, order[j])
        /\ \A i, j \in KeptRows : i # j => ~Overlap(i, j)
    BY <1>0, <1>0b, <1>2 DEF SuppressInv, DetectInv
  <2>3. order[next] \in Indices
    BY <1>0, <2>2, ElementOfSeq
  <2>4. \A j \in 1..(next - 1) : StandsFor(order[j], order[next])
    BY <1>0, <1>0b, <2>2 DEF DetectInv, RankInv
  <2>5. 1..(next' - 1) = 1..(next - 1) \cup {next} /\ next' \in 1..(Len(order) + 1)
    BY <1>0b, <2>1, <2>2
  <2>6. CASE Survives(order[next])
    <3>1. kept' \in Seq(Indices) /\ KeptRows' = KeptRows \cup {order[next]}
      <4>1. kept' = Append(kept, order[next])
        BY <2>1, <2>6
      <4>2. /\ kept' \in Seq(Indices) /\ Len(kept') = Len(kept) + 1
            /\ \A k \in 1..Len(kept) : kept'[k] = kept[k]
            /\ kept'[Len(kept) + 1] = order[next]
        BY <1>0, <2>3, <4>1, AppendProperties
      <4>3. 1..Len(kept') = 1..Len(kept) \cup {Len(kept) + 1}
        BY <1>0b, <4>2
      <4> QED
        BY <4>2, <4>3 DEF KeptRows
    <3>2. \A i \in KeptRows : ~Overlap(order[next], i) /\ ~Overlap(i, order[next])
      BY <2>6 DEF Survives, KeptRows, Overlap
    <3>3. \A i \in KeptRows' : \E j \in 1..(next' - 1) : i = order[j]
      BY <2>2, <2>5, <3>1
    <3>4. \A j \in 1..(next' - 1) :
            order[j] \in KeptRows' \/ \E i \in KeptRows' : Overlap(order[j], i) /\ StandsFor(i, order[j])
      BY <2>2, <2>5, <3>1
    <3>5. \A i, j \in KeptRows' : i # j => ~Overlap(i, j)
      BY <2>2, <3>1, <3>2
    <3>6. SuppressInv'
      <4> HIDE DEF KeptRows
      <4> QED
        BY <1>0, <1>0a, <2>1, <2>5, <3>3, <3>4, <3>5 DEF SuppressInv
    <3> QED
      BY <2>1, <3>1, <3>6, <1>0
  <2>7. CASE ~Survives(order[next])
    <3>1. kept' = kept /\ KeptRows' = KeptRows
      BY <2>1, <2>7 DEF KeptRows
    <3>2. PICK i \in KeptRows : Overlap(order[next], i)
      BY <2>7 DEF Survives, KeptRows
    <3>3. StandsFor(i, order[next])
      BY <2>2, <2>4, <3>2
    <3>4. \A j \in KeptRows' : \E k \in 1..(next' - 1) : j = order[k]
      BY <2>2, <2>5, <3>1
    <3>5. \A j \in 1..(next' - 1) :
            order[j] \in KeptRows' \/ \E k \in KeptRows' : Overlap(order[j], k) /\ StandsFor(k, order[j])
      BY <2>2, <2>5, <3>1, <3>2, <3>3
    <3> QED
      BY <1>0, <1>0a, <2>1, <2>2, <2>5, <3>1, <3>4, <3>5 DEF SuppressInv
  <2> QED
    BY <2>6, <2>7
<1> QED
  BY <1>1, <1>2

(* Every step of a detector keeps the invariant.                           *)
LEMMA DetectInvNext ==
  ASSUME DetectInv, DetectNext \/ UNCHANGED detectVars
  PROVE  DetectInv'
<1> USE DEF DetectInv
<1>1. CASE Load
  BY <1>1 DEF Load, DetectTypeOK, DetectPhases, Indices, CellsAreDecoded, RankInv, SuppressInv
<1>2. CASE DecodeRow
  <2>1. CellsAreDecoded'
    BY <1>2, DecodeRowExact
  <2>2. /\ phase = "ready" /\ phase' = "decoded"
        /\ UNCHANGED << rows, overlap, order, dropped, next, kept >>
    BY <1>2 DEF DecodeRow
  <2> QED
    BY <2>1, <2>2 DEF DetectTypeOK, DetectPhases, Indices, RankInv, SuppressInv
<1>3. CASE NoOutput
  BY <1>3 DEF NoOutput, DetectTypeOK, DetectPhases, Indices, CellsAreDecoded, RankInv, SuppressInv
<1>4. CASE Infer
  <2>1. PICK n \in 1..MaxBoxes : rows' \in [1..n -> Boxes]
    BY <1>4 DEF Infer
  <2>2. rows' \in Seq(Boxes)
    <3>1. n \in Nat
      BY DetectionAssumption DEF DetectionAssumption
    <3> QED
      BY <2>1, <3>1, SeqDef
  <2>3. /\ phase = "ready" /\ phase' = "rank"
        /\ UNCHANGED << row, order, dropped, next, kept >>
    BY <1>4 DEF Infer
  <2>4. order' \in Seq(Indices)' /\ kept' \in Seq(Indices)'
    <3>1. kept = << >> /\ order = << >>
      BY <2>3 DEF SuppressInv, DetectTypeOK
    <3> QED
      BY <2>3, <3>1
  <2> QED
    BY <2>2, <2>3, <2>4 DEF DetectTypeOK, DetectPhases, CellsAreDecoded, RankInv, SuppressInv
<1>5. CASE Rank
  <2>1. RankInv' /\ order' \in Seq(Indices)'
    BY <1>5, RankInvRank
  <2>2. /\ phase = "rank" /\ phase' = "suppress"
        /\ UNCHANGED << row, rows, overlap, next, kept >>
    BY <1>5 DEF Rank
  <2>3. kept = << >> /\ next = 1 /\ KeptRows' = {} /\ kept' = << >> /\ next' = 1
    BY <2>2 DEF SuppressInv, KeptRows
  <2>4. SuppressInv'
    <3>1. Len(order)' \in Nat /\ 1..(1 - 1) = {} /\ 1 \in 1..(Len(order)' + 1)
      BY <2>1
    <3> QED
      BY <2>2, <2>3, <3>1 DEF SuppressInv
  <2>5. DetectTypeOK' /\ CellsAreDecoded'
    BY <2>1, <2>2 DEF DetectTypeOK, DetectPhases, CellsAreDecoded, Indices
  <2> QED
    BY <2>1, <2>4, <2>5
<1>6. CASE Suppress
  <2>1. SuppressInv' /\ kept' \in Seq(Indices) /\ next' \in Nat \ {0}
    BY <1>6, SuppressInvSuppress
  <2>2. /\ phase = "suppress" /\ phase' \in {"suppress", "done"}
        /\ UNCHANGED << row, rows, overlap, order, dropped >>
    BY <1>6 DEF Suppress
  <2>3. RankInv'
    BY <2>2 DEF RankInv, CandidateRows, Indices, Candidate, StandsFor
  <2>4. DetectTypeOK' /\ CellsAreDecoded'
    BY <2>1, <2>2 DEF DetectTypeOK, DetectPhases, CellsAreDecoded, Indices
  <2> QED
    BY <2>1, <2>3, <2>4
<1>7. CASE UNCHANGED detectVars
  <2>1. UNCHANGED << phase, row, rows, overlap, order, dropped, next, kept >>
    BY <1>7 DEF detectVars
  <2>2. DetectTypeOK' /\ CellsAreDecoded'
    BY <2>1 DEF DetectTypeOK, CellsAreDecoded, Indices
  <2>3. RankInv'
    BY <2>1 DEF RankInv, CandidateRows, Indices, StandsFor
  <2>4. SuppressInv'
    <3>1. KeptRows' = KeptRows
      BY <2>1 DEF KeptRows
    <3>2. \A i, j : (Overlap(i, j)' <=> Overlap(i, j)) /\ (StandsFor(i, j)' <=> StandsFor(i, j))
      BY <2>1 DEF Overlap, StandsFor
    <3> QED
      BY <2>1, <3>1, <3>2 DEF SuppressInv
  <2> QED
    BY <2>2, <2>3, <2>4
<1> QED
  BY <1>1, <1>2, <1>3, <1>4, <1>5, <1>6, <1>7 DEF DetectNext

(* At the end the invariant says what DetectionsAreTrue does.              *)
LEMMA DetectInvStands == DetectInv => DetectionsAreTrue
<1> SUFFICES ASSUME DetectInv, phase = "done", rows # << >>
             PROVE  /\ \A i, j \in KeptRows : i # j => ~Overlap(i, j)
                    /\ \A i \in 1..Len(rows) :
                         Candidate(rows[i]) =>
                           \/ i \in KeptRows
                           \/ \E k \in KeptRows : Overlap(i, k) /\ rows[k].score >= rows[i].score
                           \/ /\ i \in dropped /\ Len(order) = TopK
                              /\ \A k \in 1..Len(order) : rows[order[k]].score >= rows[i].score
                    /\ \A i \in KeptRows : Candidate(rows[i])
  BY DEF DetectionsAreTrue, KeptBoxesStandForAll, KeptRows, DetectInv
<1>1. Len(order) \in Nat /\ next \in 1..(Len(order) + 1) /\ next > Len(order)
  BY DEF DetectInv, DetectTypeOK, SuppressInv
<1>2. next - 1 = Len(order)
  BY <1>1
<1>3. \A i, j \in KeptRows : i # j => ~Overlap(i, j)
  BY DEF DetectInv, SuppressInv
<1>4. ASSUME NEW i \in 1..Len(rows), Candidate(rows[i])
      PROVE  \/ i \in KeptRows
             \/ \E k \in KeptRows : Overlap(i, k) /\ StandsFor(k, i)
             \/ /\ i \in dropped /\ Len(order) = TopK
                /\ \A k \in 1..Len(order) : StandsFor(order[k], i)
  <2>1. i \in CandidateRows
    BY <1>4 DEF CandidateRows, Indices
  <2>2. \A j \in 1..Len(order) :
          order[j] \in KeptRows \/ \E k \in KeptRows : Overlap(order[j], k) /\ StandsFor(k, order[j])
    BY <1>2 DEF DetectInv, SuppressInv
  <2> QED
    BY <2>1, <2>2 DEF DetectInv, RankInv
<1>5. \A i \in KeptRows : Candidate(rows[i])
  BY <1>2 DEF DetectInv, SuppressInv, RankInv, CandidateRows
<1> QED
  BY <1>3, <1>4, <1>5 DEF StandsFor

(* What suppression and decoding need holds always.                        *)
THEOREM DetectInvHolds == DetectSpec => []DetectInv
<1>1. DetectInit => DetectInv
  BY DetectInvInit
<1>2. DetectInv /\ [DetectNext]_detectVars => DetectInv'
  BY DetectInvNext
<1> QED
  BY <1>1, <1>2, PTL DEF DetectSpec

(* DetectionsAreTrue (the four detectors): cells decode to themselves, and *)
(* of the candidate rows those are kept that no better one overlaps, for   *)
(* inputs of every size.                                                   *)
THEOREM DetectionsAreTrueHolds == DetectSpec => []DetectionsAreTrue
  BY DetectInvHolds, DetectInvStands, PTL

-----------------------------------------------------------------------------
(***************************************************************************)
(* Sums over finite sets, as the community module FiniteSetsExt takes      *)
(* them: some element, and the sum of the rest.                            *)
(***************************************************************************)
Some(s) == CHOOSE x \in s : TRUE

\* What the recursive function of a sum satisfies.
IsFold(c, P, h) ==
  h = [s \in SUBSET P |-> IF s = {} THEN 0 ELSE c[Some(s)] + h[s \ {Some(s)}]]

\* What a sum satisfies whatever order its elements are taken in.
IsSum(c, P, h) ==
  /\ h \in [SUBSET P -> Int]
  /\ h[{}] = 0
  /\ \A s \in SUBSET P : \A x \in s : h[s] = c[x] + h[s \ {x}]

(* A set of numbers that is not empty has a least one.                     *)
LEMMA LeastExists ==
  ASSUME NEW S \in SUBSET Nat, S # {}
  PROVE  \E m \in S : \A x \in S : m <= x
<1>1. PICK m \in S : \A y \in S : << y, m >> \notin OpToRel(<, Nat)
  BY NatLessThanWellFounded, WFMin
<1>2. ASSUME NEW x \in S PROVE m <= x
  <2>1. << x, m >> \notin OpToRel(<, Nat)
    BY <1>1
  <2>2. ~(x < m)
    BY <2>1 DEF OpToRel
  <2> QED
    BY <2>2
<1> QED
  BY <1>2

(* A set with 0 and the successors of its numbers has every number.        *)
LEMMA Counting ==
  ASSUME NEW S, 0 \in S, \A n \in Nat : n \in S => n + 1 \in S
  PROVE  \A n \in Nat : n \in S
<1> SUFFICES ASSUME {n \in Nat : n \notin S} # {} PROVE FALSE
  OBVIOUS
<1> DEFINE T == {n \in Nat : n \notin S}
<1>1. PICK m \in T : \A x \in T : m <= x
  <2> HIDE DEF T
  <2> SUFFICES T \in SUBSET Nat /\ T # {}
    BY LeastExists
  <2> QED
    BY DEF T
<1>2. m # 0 /\ m \in Nat
  OBVIOUS
<1>3. m - 1 \in Nat /\ (m - 1) + 1 = m
  BY <1>2
<1>4. m - 1 \in S
  BY <1>1, <1>2, <1>3
<1> QED
  BY <1>3, <1>4

(* Taking out an element counts down by one.                               *)
LEMMA OneLess ==
  ASSUME NEW s, IsFiniteSet(s), NEW x \in s
  PROVE  /\ IsFiniteSet(s \ {x}) /\ Cardinality(s) \in Nat /\ Cardinality(s) # 0
         /\ Cardinality(s \ {x}) = Cardinality(s) - 1 /\ Cardinality(s \ {x}) \in Nat
<1>1. IsFiniteSet(s \ {x}) /\ Cardinality(s \ {x}) = IF x \in s THEN Cardinality(s) - 1 ELSE Cardinality(s)
  BY FS_RemoveElement
<1>2. Cardinality(s) \in Nat
  BY FS_CardinalityType
<1>3. Cardinality(s \ {x}) \in Nat
  BY <1>1, FS_CardinalityType
<1> QED
  BY <1>1, <1>2, <1>3

(* What holds of no element and of one more holds of a finite set.         *)
LEMMA CountingSets ==
  ASSUME NEW P, IsFiniteSet(P), NEW F, {} \in F,
         \A s \in SUBSET P : \A x \in P \ s : s \in F => s \cup {x} \in F
  PROVE  \A s \in SUBSET P : s \in F
<1> DEFINE N == {n \in Nat : \A s \in SUBSET P : Cardinality(s) = n => s \in F}
<1>1. 0 \in N
  <2>1. \A s \in SUBSET P : Cardinality(s) = 0 => s = {}
    BY FS_EmptySet, FS_Subset
  <2> QED
    BY <2>1
<1>2. ASSUME NEW n \in Nat, n \in N PROVE n + 1 \in N
  <2> SUFFICES ASSUME NEW s \in SUBSET P, Cardinality(s) = n + 1 PROVE s \in F
    OBVIOUS
  <2>1. IsFiniteSet(s)
    BY FS_Subset
  <2>2. s # {}
    <3>1. Cardinality({}) = 0
      BY FS_EmptySet
    <3>2. n + 1 # 0
      OBVIOUS
    <3> QED
      BY <3>1, <3>2
  <2>3. PICK x \in s : TRUE
    BY <2>2
  <2>4. Cardinality(s \ {x}) = n
    BY <2>1, OneLess
  <2>5. s \ {x} \in F
    BY <1>2, <2>4
  <2>6. (s \ {x}) \cup {x} = s
    OBVIOUS
  <2> QED
    BY <2>5, <2>6
<1> HIDE DEF N
<1>3. \A n \in Nat : n \in N
  BY <1>1, <1>2, Counting
<1> QED
  <2> TAKE s \in SUBSET P
  <2>1. Cardinality(s) \in Nat
    BY FS_Subset, FS_CardinalityType
  <2> QED
    BY <1>3, <2>1 DEF N

(* The function that FiniteSetsExt folds with exists: every set of n       *)
(* elements has its sum, for every n.                                      *)
LEMMA FoldExists ==
  ASSUME NEW P, IsFiniteSet(P), NEW c \in [P -> Int]
  PROVE  \E h : IsFold(c, P, h)
<1> DEFINE Value(h, s) == IF s = {} THEN 0 ELSE c[Some(s)] + h[s \ {Some(s)}]
           N == {n \in Nat : \E h \in [SUBSET P -> Int] :
                               \A s \in SUBSET P : Cardinality(s) <= n => h[s] = Value(h, s)}
<1>0. \A s \in SUBSET P : s # {} => Some(s) \in s
  BY DEF Some
<1>1. \A s \in SUBSET P : IsFiniteSet(s) /\ Cardinality(s) \in Nat
  BY FS_Subset, FS_CardinalityType
<1>2. 0 \in N
  <2>1. \A s \in SUBSET P : Cardinality(s) <= 0 => s = {}
    BY <1>1, FS_EmptySet
  <2>2. [s \in SUBSET P |-> 0] \in [SUBSET P -> Int]
    OBVIOUS
  <2>3. \A s \in SUBSET P : Cardinality(s) <= 0 => [t \in SUBSET P |-> 0][s] = Value([t \in SUBSET P |-> 0], s)
    BY <2>1
  <2> QED
    BY <2>2, <2>3
<1>3. ASSUME NEW n \in Nat, n \in N PROVE n + 1 \in N
  <2>1. PICK h \in [SUBSET P -> Int] : \A s \in SUBSET P : Cardinality(s) <= n => h[s] = Value(h, s)
    BY <1>3
  <2> DEFINE g == [s \in SUBSET P |-> IF Cardinality(s) <= n THEN h[s] ELSE Value(h, s)]
  <2>2. \A s \in SUBSET P : Value(h, s) \in Int
    BY <1>0
  <2>3. g \in [SUBSET P -> Int]
    BY <2>2
  <2>4. ASSUME NEW s \in SUBSET P, Cardinality(s) <= n + 1 PROVE g[s] = Value(g, s)
    <3>1. CASE s = {}
      BY <1>1, <2>1, <3>1
    <3>2. CASE s # {}
      <4>1. Cardinality(s \ {Some(s)}) = Cardinality(s) - 1 /\ s \ {Some(s)} \in SUBSET P
        BY <1>0, <1>1, <3>2, OneLess
      <4>2. Cardinality(s \ {Some(s)}) <= n
        BY <1>1, <2>4, <4>1
      <4>3. g[s \ {Some(s)}] = h[s \ {Some(s)}]
        BY <4>1, <4>2
      <4>4. g[s] = Value(h, s)
        BY <2>1
      <4> QED
        BY <4>3, <4>4
    <3> QED
      BY <3>1, <3>2
  <2>5. \A s \in SUBSET P : Cardinality(s) <= n + 1 => g[s] = Value(g, s)
    BY <2>4
  <2>6. \E f \in [SUBSET P -> Int] : \A s \in SUBSET P : Cardinality(s) <= n + 1 => f[s] = Value(f, s)
    <3> HIDE DEF g, Value
    <3> QED
      BY <2>3, <2>5
  <2>7. n + 1 \in Nat
    OBVIOUS
  <2> HIDE DEF Value, g
  <2> QED
    BY ONLY <2>6, <2>7
<1> HIDE DEF N
<1>4. \A n \in Nat : n \in N
  BY <1>2, <1>3, Counting
<1>5. Cardinality(P) \in N
  BY <1>1, <1>4
<1>6. PICK h \in [SUBSET P -> Int] : \A s \in SUBSET P : Cardinality(s) <= Cardinality(P) => h[s] = Value(h, s)
  BY <1>5 DEF N
<1>7. \A s \in SUBSET P : h[s] = Value(h, s)
  BY <1>6, FS_Subset
<1>8. h = [s \in SUBSET P |-> Value(h, s)]
  BY <1>7
<1> QED
  BY <1>8 DEF IsFold

(* The order in which the elements are taken does not matter.              *)
LEMMA FoldIsSum ==
  ASSUME NEW P, IsFiniteSet(P), NEW c \in [P -> Int], NEW h, IsFold(c, P, h)
  PROVE  IsSum(c, P, h)
<1>0. \A s \in SUBSET P : s # {} => Some(s) \in s
  BY DEF Some
<1>1. \A s \in SUBSET P : IsFiniteSet(s) /\ Cardinality(s) \in Nat
  BY FS_Subset, FS_CardinalityType
<1>2. h = [s \in SUBSET P |-> IF s = {} THEN 0 ELSE c[Some(s)] + h[s \ {Some(s)}]]
  BY DEF IsFold
<1>3. h[{}] = 0 /\ \A s \in SUBSET P : s # {} => h[s] = c[Some(s)] + h[s \ {Some(s)}]
  BY <1>2
<1> DEFINE N == {n \in Nat : \A s \in SUBSET P : Cardinality(s) = n =>
                               \A x \in s : h[s] = c[x] + h[s \ {x}]}
           M == {n \in Nat : \A s \in SUBSET P : Cardinality(s) = n => h[s] \in Int}
<1>4. \A s \in SUBSET P : h[s] \in Int
  <2>1. 0 \in M
    <3>1. \A s \in SUBSET P : Cardinality(s) = 0 => s = {}
      BY <1>1, FS_EmptySet
    <3>2. \A s \in SUBSET P : Cardinality(s) = 0 => h[s] = 0
      BY <1>3, <3>1
    <3> QED
      BY <3>2
  <2>2. ASSUME NEW n \in Nat, n \in M PROVE n + 1 \in M
    <3> SUFFICES ASSUME NEW s \in SUBSET P, Cardinality(s) = n + 1 PROVE h[s] \in Int
      OBVIOUS
    <3>1. s # {}
      BY FS_EmptySet, n + 1 # 0
    <3>2. Some(s) \in s /\ Cardinality(s \ {Some(s)}) = n /\ s \ {Some(s)} \in SUBSET P
      BY <1>0, <1>1, <3>1, OneLess
    <3>3. h[s \ {Some(s)}] \in Int /\ c[Some(s)] \in Int
      BY <2>2, <3>2
    <3>4. h[s] = c[Some(s)] + h[s \ {Some(s)}]
      BY <1>3, <3>1
    <3> QED
      BY <3>3, <3>4
  <2> HIDE DEF M
  <2>3. \A n \in Nat : n \in M
    BY <2>1, <2>2, Counting
  <2> QED
    BY <1>1, <2>3 DEF M
<1>5. 0 \in N
  <2>1. \A s \in SUBSET P : Cardinality(s) = 0 => s = {}
    BY <1>1, FS_EmptySet
  <2> QED
    BY <2>1
<1>6. ASSUME NEW n \in Nat, n \in N PROVE n + 1 \in N
  <2> SUFFICES ASSUME NEW s \in SUBSET P, Cardinality(s) = n + 1, NEW x \in s
               PROVE  h[s] = c[x] + h[s \ {x}]
    OBVIOUS
  <2>1. s # {}
    OBVIOUS
  <2>2. PICK y \in s : y = Some(s)
    BY <1>0, <2>1
  <2>3. h[s] = c[y] + h[s \ {y}]
    BY <1>3, <2>1, <2>2
  <2>4. CASE x = y
    BY <2>3, <2>4
  <2>5. CASE x # y
    <3>1. PICK a \in SUBSET P : a = s \ {y} /\ Cardinality(a) = n
      <4>1. Cardinality(s \ {y}) = Cardinality(s) - 1
        BY <1>1, OneLess
      <4> QED
        BY <4>1
    <3>2. PICK b \in SUBSET P : b = s \ {x} /\ Cardinality(b) = n
      <4>1. Cardinality(s \ {x}) = Cardinality(s) - 1
        BY <1>1, OneLess
      <4> QED
        BY <4>1
    <3>3. h[a] = c[x] + h[a \ {x}]
      BY <1>6, <2>5, <3>1
    <3>4. h[b] = c[y] + h[b \ {y}]
      BY <1>6, <2>5, <3>2
    <3>5. PICK d \in SUBSET P : d = a \ {x} /\ d = b \ {y}
      BY <3>1, <3>2
    <3>6. h[s] = c[y] + (c[x] + h[d]) /\ h[s \ {x}] = c[y] + h[d]
      BY <2>3, <3>1, <3>2, <3>3, <3>4, <3>5
    <3>7. c[x] \in Int /\ c[y] \in Int /\ h[d] \in Int
      BY <1>4
    <3> QED
      BY <3>6, <3>7
  <2> QED
    BY <2>4, <2>5
<1> HIDE DEF N
<1>7. \A s \in SUBSET P : \A x \in s : h[s] = c[x] + h[s \ {x}]
  <2>1. \A n \in Nat : n \in N
    BY <1>5, <1>6, Counting
  <2> QED
    BY <1>1, <2>1 DEF N
<1>8. h \in [SUBSET P -> Int]
  BY <1>2, <1>4
<1> QED
  BY <1>3, <1>7, <1>8 DEF IsSum

(* Numbers over a finite set have a sum.                                   *)
LEMMA SumExists ==
  ASSUME NEW P, IsFiniteSet(P), NEW c \in [P -> Int]
  PROVE  \E h : IsSum(c, P, h)
  BY FoldExists, FoldIsSum

(* One more element.                                                       *)
LEMMA SumOfOneMore ==
  ASSUME NEW P, NEW c, NEW h, IsSum(c, P, h), NEW s \in SUBSET P, NEW x \in P \ s
  PROVE  h[s \cup {x}] = c[x] + h[s] /\ h[s] \in Int /\ h[s \cup {x}] \in Int
<1>1. s \cup {x} \in SUBSET P /\ x \in s \cup {x} /\ (s \cup {x}) \ {x} = s
  OBVIOUS
<1>2. h[s \cup {x}] = c[x] + h[(s \cup {x}) \ {x}]
  BY <1>1 DEF IsSum
<1> QED
  BY <1>1, <1>2 DEF IsSum

(* A sum over P is the sum over what its elements are renamed to.          *)
LEMMA SumRenamed ==
  ASSUME NEW P, IsFiniteSet(P), NEW D, NEW c \in [P -> Int], NEW d \in [D -> Int],
         NEW g, IsSum(c, P, g), NEW h, IsSum(d, D, h),
         NEW b \in [P -> D], \A x, y \in P : b[x] = b[y] => x = y,
         \A x \in P : c[x] = d[b[x]]
  PROVE  g[P] = h[{b[x] : x \in P}]
<1> DEFINE Image(s) == {b[x] : x \in s}
           F == {s \in SUBSET P : g[s] = h[Image(s)]}
<1>1. {} \in F
  <2>1. Image({}) = {}
    OBVIOUS
  <2> QED
    BY <2>1 DEF IsSum
<1>2. ASSUME NEW s \in SUBSET P, NEW x \in P \ s, s \in F PROVE s \cup {x} \in F
  <2>1. Image(s) \in SUBSET D /\ b[x] \in D \ Image(s) /\ Image(s \cup {x}) = Image(s) \cup {b[x]}
    OBVIOUS
  <2> HIDE DEF Image
  <2>2. h[Image(s) \cup {b[x]}] = d[b[x]] + h[Image(s)]
    BY <2>1, SumOfOneMore
  <2>3. g[s \cup {x}] = c[x] + g[s]
    BY SumOfOneMore
  <2> QED
    BY <1>2, <2>1, <2>2, <2>3
<1> HIDE DEF F
<1>3. \A s \in SUBSET P : s \in F
  BY <1>1, <1>2, CountingSets
<1> QED
  BY <1>3 DEF F

(* Sums of differences compare as the differences do.                      *)
LEMMA SumsCompare ==
  ASSUME NEW P, IsFiniteSet(P),
         NEW c \in [P -> Int], NEW d \in [P -> Int], NEW v \in [P -> Int], NEW w \in [P -> Int],
         NEW sc, IsSum(c, P, sc), NEW sd, IsSum(d, P, sd),
         NEW sv, IsSum(v, P, sv), NEW sw, IsSum(w, P, sw),
         \A x \in P : c[x] - v[x] <= d[x] - w[x]
  PROVE  sc[P] - sv[P] <= sd[P] - sw[P]
<1> DEFINE F == {s \in SUBSET P : sc[s] - sv[s] <= sd[s] - sw[s]}
<1>1. {} \in F
  BY DEF IsSum
<1>2. ASSUME NEW s \in SUBSET P, NEW x \in P \ s, s \in F PROVE s \cup {x} \in F
  <2>1. sc[s \cup {x}] = c[x] + sc[s] /\ sc[s] \in Int
    BY SumOfOneMore
  <2>2. sd[s \cup {x}] = d[x] + sd[s] /\ sd[s] \in Int
    BY SumOfOneMore
  <2>3. sv[s \cup {x}] = v[x] + sv[s] /\ sv[s] \in Int
    BY SumOfOneMore
  <2>4. sw[s \cup {x}] = w[x] + sw[s] /\ sw[s] \in Int
    BY SumOfOneMore
  <2>5. c[x] \in Int /\ d[x] \in Int /\ v[x] \in Int /\ w[x] \in Int /\ c[x] - v[x] <= d[x] - w[x]
    OBVIOUS
  <2>6. sc[s] - sv[s] <= sd[s] - sw[s]
    BY <1>2
  <2> QED
    BY <2>1, <2>2, <2>3, <2>4, <2>5, <2>6
<1> HIDE DEF F
<1>3. \A s \in SUBSET P : s \in F
  BY <1>1, <1>2, CountingSets
<1> QED
  BY <1>3 DEF F

(* Leaving out what is not positive, or is nothing.                        *)
LEMMA SumOfFewer ==
  ASSUME NEW P, IsFiniteSet(P), NEW c \in [P -> Int], NEW h, IsSum(c, P, h),
         NEW T \in SUBSET P, \A x \in P \ T : c[x] <= 0
  PROVE  /\ h[P] <= h[T]
         /\ (\A x \in P \ T : c[x] = 0) => h[P] = h[T]
<1> DEFINE F == {s \in SUBSET (P \ T) : /\ h[T \cup s] <= h[T]
                                        /\ (\A x \in P \ T : c[x] = 0) => h[T \cup s] = h[T]}
<1>0. h[T] \in Int
  BY DEF IsSum
<1>1. {} \in F
  BY <1>0
<1>2. ASSUME NEW s \in SUBSET (P \ T), NEW x \in (P \ T) \ s, s \in F PROVE s \cup {x} \in F
  <2>1. T \cup (s \cup {x}) = (T \cup s) \cup {x} /\ T \cup s \in SUBSET P /\ x \in P \ (T \cup s)
    OBVIOUS
  <2>2. h[(T \cup s) \cup {x}] = c[x] + h[T \cup s] /\ h[T \cup s] \in Int
    BY <2>1, SumOfOneMore, SMTT(60)
  <2>3. c[x] \in Int /\ c[x] <= 0
    OBVIOUS
  <2>4. h[T \cup s] <= h[T] /\ ((\A y \in P \ T : c[y] = 0) => h[T \cup s] = h[T])
    BY <1>2
  <2>5. h[T \cup (s \cup {x})] = c[x] + h[T \cup s]
    BY <2>1, <2>2
  <2>6. h[T \cup (s \cup {x})] <= h[T]
    BY <1>0, <2>2, <2>3, <2>4, <2>5
  <2>7. ASSUME \A y \in P \ T : c[y] = 0 PROVE h[T \cup (s \cup {x})] = h[T]
    <3>1. c[x] = 0
      BY <2>7
    <3> QED
      BY <1>0, <2>2, <2>4, <2>5, <2>7, <3>1
  <2> QED
    BY <2>6, <2>7
<1>3. PICK Q : Q = P \ T /\ IsFiniteSet(Q)
  BY FS_Difference
<1> HIDE DEF F
<1>4. P \ T \in F
  <2>1. \A s \in SUBSET Q : \A x \in Q \ s : s \in F => s \cup {x} \in F
    BY <1>2, <1>3
  <2>2. \A s \in SUBSET Q : s \in F
    <3>1. IsFiniteSet(Q) /\ {} \in F
      BY <1>1, <1>3
    <3> QED
      BY ONLY <2>1, <3>1, CountingSets
  <2> QED
    BY <1>3, <2>2
<1>5. T \cup (P \ T) = P
  OBVIOUS
<1> QED
  BY <1>4, <1>5 DEF F

(* TotalCost is such a sum.                                                *)
LEMMA TotalCostIsSum ==
  ASSUME NEW P, IsFiniteSet(P), \A p \in P : cost[p[1]][p[2]] \in Int
  PROVE  \E h : IsSum([p \in P |-> cost[p[1]][p[2]]], P, h) /\ TotalCost(P) = h[P]
<1> DEFINE c == [p \in P |-> cost[p[1]][p[2]]]
           Fold(h) == [s \in SUBSET P |-> IF s = {} THEN 0
                                          ELSE cost[Some(s)[1]][Some(s)[2]] + h[s \ {Some(s)}]]
           h == CHOOSE iter : iter = Fold(iter)
<1>1. TotalCost(P) = h[P]
  BY Zenon DEF TotalCost, MapThenSumSet, MapThenFoldSet, Some
<1>2. \A s \in SUBSET P : s # {} => c[Some(s)] = cost[Some(s)[1]][Some(s)[2]]
  <2>1. \A s \in SUBSET P : s # {} => Some(s) \in P
    BY DEF Some
  <2> QED
    BY <2>1
<1>3. \A f : IsFold(c, P, f) <=> f = Fold(f)
  BY <1>2 DEF IsFold
<1>4. c \in [P -> Int]
  OBVIOUS
<1> HIDE DEF c
<1>5. \E f : f = Fold(f)
  BY <1>3, <1>4, FoldExists
<1>6. h = Fold(h)
  <2> HIDE DEF Fold
  <2> QED
    BY <1>5
<1> HIDE DEF h
<1>7. IsSum(c, P, h)
  BY <1>3, <1>4, <1>6, FoldIsSum
<1> QED
  BY <1>1, <1>7 DEF c

-----------------------------------------------------------------------------
(***************************************************************************)
(* DualSource: pairing the two versions of a frame.                        *)
(***************************************************************************)
Ascending(q) == \A i, j \in 1..Len(q) : i < j => q[i] < q[j]

(* Queues as read() keeps them.                                            *)
Kept(q) == q \in Seq(Moments) /\ Ascending(q)

(* A queue without its front: still ascending, and the front was its least. *)
LEMMA TailFacts ==
  ASSUME NEW q, Kept(q), q # << >>
  PROVE  /\ Kept(Tail(q)) /\ Len(q) \in Nat \ {0} /\ Len(Tail(q)) = Len(q) - 1
         /\ Pts(q) = {Head(q)} \cup Pts(Tail(q))
         /\ Head(q) \in Moments /\ Head(q) \in Int
         /\ \A x \in Pts(Tail(q)) : Head(q) < x
<1> USE DEF Kept
<1>1. /\ Tail(q) \in Seq(Moments) /\ Len(q) \in Nat \ {0} /\ Len(Tail(q)) = Len(q) - 1
      /\ Head(q) = q[1] /\ \A i \in 1..(Len(q) - 1) : Tail(q)[i] = q[i + 1]
  OBVIOUS
<1>2. PICK n \in Nat : Len(q) = n + 1
  <2>1. Len(q) - 1 \in Nat /\ Len(q) = (Len(q) - 1) + 1
    BY <1>1
  <2> QED
    BY <2>1
<1>3. \A i \in 1..n : i \in 1..(n + 1) /\ i + 1 \in 1..(n + 1) /\ 1 < i + 1
  OBVIOUS
<1>4. \A i \in 1..n : Tail(q)[i] = q[i + 1]
  BY <1>1, <1>2
<1>5. Ascending(Tail(q))
  <2> SUFFICES ASSUME NEW i \in 1..n, NEW j \in 1..n, i < j PROVE q[i + 1] < q[j + 1]
    BY <1>1, <1>2, <1>4 DEF Ascending
  <2>1. i + 1 \in 1..Len(q) /\ j + 1 \in 1..Len(q) /\ i + 1 < j + 1
    BY <1>2, <1>3
  <2> QED
    BY <2>1 DEF Ascending
<1>6. Pts(Tail(q)) = {q[i + 1] : i \in 1..n}
  BY <1>1, <1>2, <1>4 DEF Pts
<1>7. Pts(q) = {Head(q)} \cup Pts(Tail(q))
  <2>1. \A i \in 1..(n + 1) : i = 1 \/ (i - 1 \in 1..n /\ i = (i - 1) + 1)
    OBVIOUS
  <2>2. Pts(q) = {q[i] : i \in 1..(n + 1)}
    BY <1>2 DEF Pts
  <2>3. 1 \in 1..(n + 1)
    OBVIOUS
  <2>4. ASSUME NEW i \in 1..(n + 1) PROVE q[i] \in {q[1]} \cup {q[k + 1] : k \in 1..n}
    BY <2>1
  <2>5. ASSUME NEW k \in 1..n PROVE q[k + 1] \in {q[i] : i \in 1..(n + 1)}
    BY <1>3
  <2>6. q[1] \in {q[i] : i \in 1..(n + 1)}
    BY <2>3
  <2> QED
    BY <1>1, <1>6, <2>2, <2>4, <2>5, <2>6
<1>8. Head(q) \in Moments /\ Head(q) \in Int
  <2>1. q[1] \in Moments
    BY <1>1
  <2> QED
    BY <1>1, <2>1 DEF Moments
<1>9. ASSUME NEW i \in 1..n PROVE Head(q) < q[i + 1]
  <2>1. 1 \in 1..Len(q) /\ i + 1 \in 1..Len(q) /\ 1 < i + 1
    BY <1>2, <1>3
  <2> QED
    BY <1>1, <2>1 DEF Ascending
<1> QED
  BY <1>1, <1>5, <1>6, <1>7, <1>8, <1>9

(* A queue after the cap: the last of its frames, in order.                *)
LEMMA CappedFacts ==
  ASSUME NEW q, Kept(q)
  PROVE  Kept(Capped(q)) /\ Len(Capped(q)) <= PendingCap /\ Pts(Capped(q)) \subseteq Pts(q)
<1> USE PendingCapAssumption DEF Kept
<1>1. CASE Len(q) <= PendingCap
  BY <1>1 DEF Capped
<1>2. CASE Len(q) > PendingCap
  <2>1. PICK k \in Nat : k = Len(q) - PendingCap
    BY <1>2
  <2>2. k + 1 \in 1..Len(q) /\ Len(q) = k + PendingCap /\ Len(q) \in Nat
    BY <1>2, <2>1
  <2> DEFINE r == SubSeq(q, k + 1, Len(q))
  <2>3. Capped(q) = r
    BY <1>2, <2>1 DEF Capped
  <2>4. r \in Seq(Moments) /\ Len(r) = PendingCap /\ \A i \in 1..PendingCap : r[i] = q[k + i]
    <3>1. \A i \in (k + 1)..Len(q) : i \in 1..Len(q)
      BY <2>2
    <3>2. Len(r) = PendingCap /\ \A i \in 1..PendingCap : r[i] = q[k + i]
      BY <2>2
    <3>3. r \in Seq(Moments)
      BY <2>2, <3>1, SubSeqProperties
    <3> QED
      BY <3>2, <3>3
  <2>5. \A i \in 1..PendingCap : k + i \in 1..Len(q)
    BY <2>2
  <2> HIDE DEF r
  <2>6. Ascending(r)
    <3> SUFFICES ASSUME NEW i \in 1..PendingCap, NEW j \in 1..PendingCap, i < j PROVE q[k + i] < q[k + j]
      BY <2>4 DEF Ascending
    <3>1. k + i \in 1..Len(q) /\ k + j \in 1..Len(q) /\ k + i < k + j
      BY <2>5
    <3> QED
      BY <3>1 DEF Ascending
  <2>7. Pts(r) \subseteq Pts(q)
    BY <2>4, <2>5 DEF Pts
  <2> QED
    BY <2>3, <2>4, <2>6, <2>7
<1> QED
  BY <1>1, <1>2

(* A queue without one of its frames, which is in it once.                 *)
LEMMA WithoutFacts ==
  ASSUME NEW q, Kept(q), NEW k \in 1..Len(q)
  PROVE  Kept(Without(q, k)) /\ Pts(Without(q, k)) = Pts(q) \ {q[k]}
<1> USE DEF Kept
<1>1. PICK n \in Nat : Len(q) = n + 1
  <2>1. Len(q) \in Nat /\ 1 <= Len(q)
    OBVIOUS
  <2> QED
    BY <2>1
<1> DEFINE r == Without(q, k)
           src(i) == IF i < k THEN i ELSE i + 1
<1>2. k \in 1..(n + 1)
  BY <1>1
<1>3. r \in Seq(Moments) /\ Len(r) = n /\ \A i \in 1..n : r[i] = q[src(i)]
  <2>1. PICK a : a = SubSeq(q, 1, k - 1)
    OBVIOUS
  <2>2. PICK b : b = SubSeq(q, k + 1, n + 1)
    OBVIOUS
  <2>3. a \in Seq(Moments) /\ Len(a) = k - 1 /\ \A i \in 1..(k - 1) : a[i] = q[i]
    BY <1>1, <1>2, <2>1
  <2>4. b \in Seq(Moments) /\ Len(b) = n + 1 - k /\ \A i \in 1..(n + 1 - k) : b[i] = q[k + i]
    BY <1>1, <1>2, <2>2
  <2>5. r = a \o b
    BY <1>1, <2>1, <2>2 DEF Without
  <2>6. r \in Seq(Moments) /\ Len(r) = n
    <3>1. r \in Seq(Moments) /\ Len(r) = Len(a) + Len(b)
      BY <2>3, <2>4, <2>5, ConcatProperties
    <3> QED
      BY <1>2, <2>3, <2>4, <3>1
  <2>7. ASSUME NEW i \in 1..n PROVE r[i] = q[src(i)]
    <3>1. CASE i < k
      BY <1>2, <2>3, <2>4, <2>5, <3>1
    <3>2. CASE i >= k
      <4>1. r[i] = b[i - (k - 1)] /\ i - (k - 1) \in 1..(n + 1 - k)
        BY <1>2, <2>3, <2>4, <2>5, <3>2
      <4>2. b[i - (k - 1)] = q[k + (i - (k - 1))] /\ k + (i - (k - 1)) = i + 1
        BY <1>2, <2>4, <4>1
      <4> QED
        BY <1>2, <3>2, <4>1, <4>2
    <3> QED
      BY <1>2, <3>1, <3>2
  <2> QED
    BY <2>6, <2>7
<1>4. \A i \in 1..n : src(i) \in 1..(n + 1) /\ src(i) # k
  BY <1>2
<1>5. \A i, j \in 1..n : i < j => src(i) < src(j)
  BY <1>2
<1>6. \A j \in 1..(n + 1) : j # k => \E i \in 1..n : src(i) = j
  <2> SUFFICES ASSUME NEW j \in 1..(n + 1), j # k PROVE \E i \in 1..n : src(i) = j
    OBVIOUS
  <2>1. CASE j < k
    <3>1. j \in 1..n /\ src(j) = j
      BY <1>2, <2>1
    <3> QED
      BY <3>1
  <2>2. CASE j > k
    <3>1. j - 1 \in 1..n /\ src(j - 1) = j
      BY <1>2, <2>2
    <3> QED
      BY <3>1
  <2> QED
    BY <1>2, <2>1, <2>2
<1> HIDE DEF r, src
<1>7. Ascending(r)
  BY <1>1, <1>3, <1>4, <1>5 DEF Ascending
<1>8. \A j \in 1..(n + 1) : j # k => q[j] # q[k]
  <2> SUFFICES ASSUME NEW j \in 1..(n + 1), j # k PROVE q[j] # q[k]
    OBVIOUS
  <2>1. j < k \/ k < j
    BY <1>2
  <2>2. q[j] \in Int /\ q[k] \in Int
    <3>1. q[j] \in Moments /\ q[k] \in Moments
      BY <1>1, <1>2
    <3> QED
      BY <3>1 DEF Moments
  <2>3. q[j] < q[k] \/ q[k] < q[j]
    BY <1>1, <1>2, <2>1 DEF Ascending
  <2> QED
    BY <2>2, <2>3
<1>9. Pts(r) = Pts(q) \ {q[k]}
  <2>1. Pts(q) = {q[j] : j \in 1..(n + 1)} /\ Pts(r) = {q[src(i)] : i \in 1..n}
    BY <1>1, <1>3 DEF Pts
  <2>2. ASSUME NEW i \in 1..n PROVE q[src(i)] \in {q[j] : j \in 1..(n + 1)} /\ q[src(i)] # q[k]
    BY <1>4, <1>8
  <2>3. ASSUME NEW j \in 1..(n + 1), q[j] # q[k] PROVE q[j] \in {q[src(i)] : i \in 1..n}
    BY <1>6, <2>3
  <2> QED
    BY <2>1, <2>2, <2>3
<1> QED
  BY <1>3, <1>7, <1>9 DEF r

(* A queue with a later frame at its end.                                  *)
LEMMA PulledFacts ==
  ASSUME NEW q, Kept(q), NEW p \in Moments, \A x \in Pts(q) : p > x
  PROVE  Kept(q \o << p >>) /\ Pts(q \o << p >>) = Pts(q) \cup {p}
<1> USE DEF Kept
<1>1. PICK n \in Nat : Len(q) = n
  OBVIOUS
<1>2. PICK r : r = q \o << p >>
  OBVIOUS
<1>3. r \in Seq(Moments) /\ Len(r) = n + 1 /\ r[n + 1] = p /\ \A i \in 1..n : r[i] = q[i]
  BY <1>1, <1>2
<1>4. \A i \in 1..n : q[i] < p
  <2> SUFFICES ASSUME NEW i \in 1..n PROVE q[i] < p
    OBVIOUS
  <2>1. q[i] \in Pts(q) /\ q[i] \in Moments
    BY <1>1 DEF Pts
  <2> QED
    BY <2>1 DEF Moments
<1>5. Ascending(r)
  <2> SUFFICES ASSUME NEW i \in 1..(n + 1), NEW j \in 1..(n + 1), i < j PROVE r[i] < r[j]
    BY <1>3 DEF Ascending
  <2>1. i \in 1..n /\ (j \in 1..n \/ j = n + 1)
    OBVIOUS
  <2>2. CASE j \in 1..n
    BY <1>1, <1>3, <2>1, <2>2 DEF Ascending
  <2>3. CASE j = n + 1
    BY <1>3, <1>4, <2>1, <2>3
  <2> QED
    BY <2>1, <2>2, <2>3
<1>6. Pts(r) = Pts(q) \cup {p}
  <2>1. Pts(r) = {r[i] : i \in 1..(n + 1)} /\ Pts(q) = {q[i] : i \in 1..n}
    BY <1>1, <1>3 DEF Pts
  <2>2. \A i \in 1..(n + 1) : i = n + 1 \/ i \in 1..n
    OBVIOUS
  <2>3. \A i \in 1..n : i \in 1..(n + 1)
    OBVIOUS
  <2>4. n + 1 \in 1..(n + 1)
    OBVIOUS
  <2> QED
    BY <1>3, <2>1, <2>2, <2>3, <2>4
<1> QED
  BY <1>2, <1>3, <1>5, <1>6
-----------------------------------------------------------------------------
(***************************************************************************)
(* trim_pending_'s second loop.                                            *)
(***************************************************************************)
OldInf(q) == Comparable(q[1], q[2]) /\ TooOld(q[1], q[2])
\* The branch whose front is behind, and the queues without it.
OldUi(q) == Comparable(q[1], q[2]) /\ ~TooOld(q[1], q[2]) /\ TooOld(q[2], q[1])
LessInf(q) == << Tail(q[1]), q[2] >>
LessUi(q) == << q[1], Tail(q[2]) >>
Total(q) == Len(q[1]) + Len(q[2])

(* One turn of the loop, and the rest of it.                               *)
Round(h, q) == IF OldInf(q) THEN h[LessInf(q)] ELSE IF OldUi(q) THEN h[LessUi(q)] ELSE q

(* A turn that drops a front leaves shorter queues.                        *)
LEMMA TurnFacts ==
  ASSUME NEW q \in Queues
  PROVE  /\ Total(q) \in Nat /\ Total(q) <= PendingCap + PendingCap
         /\ q = << q[1], q[2] >> /\ q[1] \in Seq(Moments) /\ q[2] \in Seq(Moments)
         /\ OldInf(q) => LessInf(q) \in Queues /\ Total(LessInf(q)) = Total(q) - 1
         /\ OldUi(q) => LessUi(q) \in Queues /\ Total(LessUi(q)) = Total(q) - 1
         /\ Total(q) = 0 => ~OldInf(q) /\ ~OldUi(q)
<1> USE PendingCapAssumption
<1>1. /\ q = << q[1], q[2] >> /\ q[1] \in Seq(Moments) /\ q[2] \in Seq(Moments)
      /\ Len(q[1]) \in Nat /\ Len(q[2]) \in Nat
      /\ Len(q[1]) <= PendingCap /\ Len(q[2]) <= PendingCap
  BY DEF Queues
<1>2. Comparable(q[1], q[2]) =>
        /\ Tail(q[1]) \in Seq(Moments) /\ Len(Tail(q[1])) = Len(q[1]) - 1 /\ Len(q[1]) # 0
        /\ Tail(q[2]) \in Seq(Moments) /\ Len(Tail(q[2])) = Len(q[2]) - 1
  <2> SUFFICES ASSUME q[1] # << >>, q[2] # << >>
               PROVE  /\ Tail(q[1]) \in Seq(Moments) /\ Len(Tail(q[1])) = Len(q[1]) - 1 /\ Len(q[1]) # 0
                      /\ Tail(q[2]) \in Seq(Moments) /\ Len(Tail(q[2])) = Len(q[2]) - 1
    BY DEF Comparable
  <2>1. Tail(q[1]) \in Seq(Moments) /\ Len(Tail(q[1])) = Len(q[1]) - 1 /\ Len(q[1]) # 0
    BY <1>1
  <2>2. Tail(q[2]) \in Seq(Moments) /\ Len(Tail(q[2])) = Len(q[2]) - 1
    BY <1>1
  <2> QED
    BY <2>1, <2>2
<1>7. \A a, b \in Seq(Moments) : Len(a) <= PendingCap /\ Len(b) <= PendingCap => << a, b >> \in Queues
  <2> SUFFICES ASSUME NEW a \in Seq(Moments), NEW b \in Seq(Moments),
                      Len(a) <= PendingCap, Len(b) <= PendingCap
               PROVE  << a, b >> \in Queues
    OBVIOUS
  <2>1. << a, b >>[1] = a /\ << a, b >>[2] = b /\ << a, b >> \in Seq(Moments) \X Seq(Moments)
    OBVIOUS
  <2> QED
    BY <2>1, Zenon DEF Queues
<1>3. ASSUME Comparable(q[1], q[2]) PROVE LessInf(q) \in Queues /\ Total(LessInf(q)) = Total(q) - 1
  <2>1. Tail(q[1]) \in Seq(Moments) /\ Len(Tail(q[1])) = Len(q[1]) - 1 /\ Len(Tail(q[1])) <= PendingCap
    BY <1>1, <1>2, <1>3
  <2>2. LessInf(q) \in Queues
    BY <1>1, <1>7, <2>1 DEF LessInf
  <2>3. Total(LessInf(q)) = Len(Tail(q[1])) + Len(q[2])
    BY DEF LessInf, Total
  <2>4. Total(q) = Len(q[1]) + Len(q[2])
    BY DEF Total
  <2>5. Len(Tail(q[1])) + Len(q[2]) = Len(q[1]) + Len(q[2]) - 1
    BY <1>1, <2>1
  <2>6. Total(LessInf(q)) = Total(q) - 1
    <3>1. Total(q) - 1 = Len(q[1]) + Len(q[2]) - 1
      BY <2>4
    <3> QED
      BY <2>3, <2>5, <3>1
  <2> QED
    BY <2>2, <2>6
<1>4. ASSUME Comparable(q[1], q[2]) PROVE LessUi(q) \in Queues /\ Total(LessUi(q)) = Total(q) - 1
  <2>1. Tail(q[2]) \in Seq(Moments) /\ Len(Tail(q[2])) = Len(q[2]) - 1 /\ Len(Tail(q[2])) <= PendingCap
    BY <1>1, <1>2, <1>4
  <2>2. LessUi(q) \in Queues
    BY <1>1, <1>7, <2>1 DEF LessUi
  <2>3. Total(LessUi(q)) = Len(q[1]) + Len(Tail(q[2]))
    BY DEF LessUi, Total
  <2>4. Total(q) = Len(q[1]) + Len(q[2])
    BY DEF Total
  <2>5. Len(q[1]) + Len(Tail(q[2])) = Len(q[1]) + Len(q[2]) - 1
    BY <1>1, <2>1
  <2>6. Total(LessUi(q)) = Total(q) - 1
    <3>1. Total(q) - 1 = Len(q[1]) + Len(q[2]) - 1
      BY <2>4
    <3> QED
      BY <2>3, <2>5, <3>1
  <2> QED
    BY <2>2, <2>6
<1>5. Total(q) = 0 => ~Comparable(q[1], q[2])
  BY <1>1, <1>2 DEF Total
<1>6. Total(q) \in Nat /\ Total(q) <= PendingCap + PendingCap
  BY <1>1 DEF Total
<1> QED
  BY <1>1, <1>3, <1>4, <1>5, <1>6 DEF OldInf, OldUi

(* The loop ends: there is a function that it computes.                    *)
LEMMA AgingExists == \E h : h = [q \in Queues |-> Round(h, q)]
<1> DEFINE N == {n \in Nat : \E h : /\ h = [q \in Queues |-> h[q]]
                                    /\ \A q \in Queues : Total(q) <= n => h[q] = Round(h, q)}
<1>1. 0 \in N
  <2> DEFINE h == [q \in Queues |-> q]
  <2>1. \A q \in Queues : Total(q) <= 0 => h[q] = Round(h, q)
    <3> SUFFICES ASSUME NEW q \in Queues, Total(q) <= 0 PROVE q = Round(h, q)
      OBVIOUS
    <3>1. Total(q) = 0
      BY TurnFacts
    <3>2. ~OldInf(q) /\ ~OldUi(q)
      BY <3>1, TurnFacts
    <3> QED
      BY <3>2 DEF Round
  <2>2. h = [q \in Queues |-> h[q]]
    OBVIOUS
  <2> HIDE DEF h
  <2>3. \E g : g = [q \in Queues |-> g[q]] /\ \A q \in Queues : Total(q) <= 0 => g[q] = Round(g, q)
    BY <2>1, <2>2
  <2> QED
    BY ONLY <2>3
<1>2. ASSUME NEW n \in Nat, n \in N PROVE n + 1 \in N
  <2>1. PICK h : \A q \in Queues : Total(q) <= n => h[q] = Round(h, q)
    BY <1>2
  <2> DEFINE g == [q \in Queues |-> IF Total(q) <= n THEN h[q] ELSE Round(h, q)]
  <2>2. ASSUME NEW q \in Queues, Total(q) <= n + 1 PROVE g[q] = Round(g, q)
    <3>1. g[q] = Round(h, q)
      BY <2>1
    <3>2. OldInf(q) => g[LessInf(q)] = h[LessInf(q)]
      <4> SUFFICES ASSUME OldInf(q) PROVE g[LessInf(q)] = h[LessInf(q)]
        OBVIOUS
      <4>1. LessInf(q) \in Queues /\ Total(LessInf(q)) <= n
        BY <2>2, TurnFacts
      <4> QED
        BY <4>1
    <3>3. OldUi(q) => g[LessUi(q)] = h[LessUi(q)]
      <4> SUFFICES ASSUME OldUi(q) PROVE g[LessUi(q)] = h[LessUi(q)]
        OBVIOUS
      <4>1. LessUi(q) \in Queues /\ Total(LessUi(q)) <= n
        BY <2>2, TurnFacts
      <4> QED
        BY <4>1
    <3> HIDE DEF g
    <3> QED
      BY <3>1, <3>2, <3>3 DEF Round
  <2>3. g = [q \in Queues |-> g[q]]
    OBVIOUS
  <2> HIDE DEF g
  <2>4. \E f : f = [q \in Queues |-> f[q]] /\ \A q \in Queues : Total(q) <= n + 1 => f[q] = Round(f, q)
    BY <2>2, <2>3
  <2>5. n + 1 \in Nat
    OBVIOUS
  <2> QED
    BY ONLY <2>4, <2>5
<1> HIDE DEF N
<1>3. \A n \in Nat : n \in N
  BY <1>1, <1>2, Counting
<1>4. PendingCap + PendingCap \in Nat
  BY PendingCapAssumption
<1>5. PICK h : /\ h = [q \in Queues |-> h[q]]
               /\ \A q \in Queues : Total(q) <= PendingCap + PendingCap => h[q] = Round(h, q)
  BY <1>3, <1>4 DEF N
<1>6. \A q \in Queues : h[q] = Round(h, q)
  BY <1>5, TurnFacts
<1>7. h = [q \in Queues |-> Round(h, q)]
  BY <1>5, <1>6
<1> QED
  BY <1>7

(* Aging does what a turn does, and the rest of it.                        *)
LEMMA AgingTurns == \A q \in Queues : Aging[q] = Round(Aging, q)
<1> DEFINE Body(h, q) == LET inf == q[1]
                             ui  == q[2]
                         IN CASE Comparable(inf, ui) /\ TooOld(inf, ui) -> h[<< Tail(inf), ui >>]
                              [] Comparable(inf, ui) /\ ~TooOld(inf, ui) /\ TooOld(ui, inf) ->
                                   h[<< inf, Tail(ui) >>]
                              [] OTHER -> q
<1>1. ASSUME NEW h, NEW q PROVE Body(h, q) = Round(h, q)
  BY DEF Round, OldInf, OldUi, LessInf, LessUi
<1>2. Aging = CHOOSE h : h = [q \in Queues |-> Body(h, q)]
  BY Zenon DEF Aging
<1> HIDE DEF Body
<1>3. PICK g : g = [q \in Queues |-> Round(g, q)]
  BY AgingExists
<1>4. [q \in Queues |-> Round(g, q)] = [q \in Queues |-> Body(g, q)]
  BY <1>1
<1>5. g = [q \in Queues |-> Body(g, q)]
  BY <1>3, <1>4
<1>6. Aging = [q \in Queues |-> Body(Aging, q)]
  BY <1>2, <1>5, Zenon
<1>7. \A q \in Queues : Aging[q] = Body(Aging, q)
  BY <1>6
<1> QED
  BY <1>1, <1>7

(* What the loop drops has no partner on the other side, and something     *)
(* later is there already.                                                 *)
Lost(mine, rest, other) ==
  \A x \in Pts(mine) \ Pts(rest) : x \notin Pts(other) /\ \E y \in Pts(other) : y > x
\* What one branch loses by the loop, and what both do.
Thins(q, r) ==
  /\ Kept(r[1]) /\ Kept(r[2])
  /\ Pts(r[1]) \subseteq Pts(q[1]) /\ Pts(r[2]) \subseteq Pts(q[2])
  /\ Lost(q[1], r[1], q[2]) /\ Lost(q[2], r[2], q[1])

(* A front that is dropped.                                                *)
LEMMA TooOldFacts ==
  ASSUME NEW mine, NEW other, Kept(mine), Kept(other), mine # << >>, other # << >>,
         TooOld(mine, other)
  PROVE  /\ Head(mine) \notin Pts(other)
         /\ Head(other) \in Pts(other) /\ Head(other) > Head(mine)
<1>1. /\ Head(other) \in Pts(other) /\ Head(other) \in Int /\ Head(mine) \in Int
      /\ Pts(mine) = {Head(mine)} \cup Pts(Tail(mine)) /\ \A x \in Pts(Tail(mine)) : Head(mine) < x
  <2>1. Head(other) \in Pts(other) /\ Head(other) \in Int
    BY TailFacts
  <2> QED
    BY <2>1, TailFacts
<1>2. Head(mine) \notin Pts(other) /\ (Head(other) \in Pts(mine) \/ Head(mine) < Head(other))
  BY DEF TooOld
<1> QED
  BY <1>1, <1>2

(* Dropping a front first, and then what the loop drops of the rest.       *)
LEMMA DropFront ==
  ASSUME NEW mine, NEW other, Kept(mine), Kept(other), mine # << >>, other # << >>,
         TooOld(mine, other), NEW a, NEW b, Pts(a) \subseteq Pts(Tail(mine)),
         Lost(Tail(mine), a, other), Lost(other, b, Tail(mine))
  PROVE  Pts(a) \subseteq Pts(mine) /\ Lost(mine, a, other) /\ Lost(other, b, mine)
<1>1. Pts(mine) = {Head(mine)} \cup Pts(Tail(mine))
  BY TailFacts
<1>2. /\ Head(mine) \notin Pts(other)
      /\ \E y \in Pts(other) : y > Head(mine)
  BY TooOldFacts
<1>3. Lost(mine, a, other)
  BY <1>1, <1>2 DEF Lost
<1>4. Lost(other, b, mine)
  BY <1>1, <1>2 DEF Lost
<1> QED
  BY <1>1, <1>3, <1>4

(* Whatever turns the loop takes: what it drops is behind the other queue, *)
(* and nothing that both queues hold is dropped.                           *)
LEMMA AgingThins ==
  \A q \in Queues : Kept(q[1]) /\ Kept(q[2]) => Thins(q, Aging[q])
<1> DEFINE N == {n \in Nat : \A q \in Queues : Total(q) <= n /\ Kept(q[1]) /\ Kept(q[2])
                                               => Thins(q, Aging[q])}
<1>0. ASSUME NEW q \in Queues, Kept(q[1]), Kept(q[2]), ~OldInf(q), ~OldUi(q)
      PROVE  Thins(q, Aging[q])
  <2>1. Aging[q] = q
    BY <1>0, AgingTurns DEF Round
  <2> QED
    BY <1>0, <2>1 DEF Thins, Lost
<1>1. 0 \in N
  <2> SUFFICES ASSUME NEW q \in Queues, Total(q) <= 0, Kept(q[1]), Kept(q[2])
               PROVE  Thins(q, Aging[q])
    OBVIOUS
  <2>1. Total(q) = 0
    BY TurnFacts
  <2>2. ~OldInf(q) /\ ~OldUi(q)
    BY <2>1, TurnFacts
  <2> QED
    BY <1>0, <2>2
<1>2. ASSUME NEW n \in Nat, n \in N PROVE n + 1 \in N
  <2>0. \A q \in Queues : Total(q) <= n /\ Kept(q[1]) /\ Kept(q[2]) => Thins(q, Aging[q])
    BY <1>2
  <2> SUFFICES ASSUME NEW q \in Queues, Total(q) <= n + 1, Kept(q[1]), Kept(q[2])
               PROVE  Thins(q, Aging[q])
    OBVIOUS
  <2> HIDE DEF N
  <2>1. CASE OldInf(q)
    <3>1. q[1] # << >> /\ q[2] # << >> /\ TooOld(q[1], q[2])
      BY <2>1 DEF OldInf, Comparable
    <3>2. LessInf(q) \in Queues /\ Total(LessInf(q)) <= n
      BY <2>1, TurnFacts
    <3>3. Kept(Tail(q[1]))
      BY <3>1, TailFacts
    <3>4. PICK r : r = Aging[LessInf(q)]
      OBVIOUS
    <3>5. Thins(LessInf(q), r)
      <4>1. LessInf(q)[1] = Tail(q[1]) /\ LessInf(q)[2] = q[2]
        BY DEF LessInf
      <4> QED
        BY <2>0, <3>2, <3>3, <3>4, <4>1
    <3>6. /\ Kept(r[1]) /\ Kept(r[2]) /\ Pts(r[1]) \subseteq Pts(Tail(q[1])) /\ Pts(r[2]) \subseteq Pts(q[2])
          /\ Lost(Tail(q[1]), r[1], q[2]) /\ Lost(q[2], r[2], Tail(q[1]))
      BY <3>5 DEF Thins, LessInf
    <3>7. Pts(r[1]) \subseteq Pts(q[1]) /\ Lost(q[1], r[1], q[2]) /\ Lost(q[2], r[2], q[1])
      BY <3>1, <3>6, DropFront
    <3>8. Aging[q] = r
      BY <2>1, <3>4, AgingTurns DEF Round
    <3> QED
      BY <3>6, <3>7, <3>8 DEF Thins
  <2>2. CASE ~OldInf(q) /\ OldUi(q)
    <3>1. q[1] # << >> /\ q[2] # << >> /\ TooOld(q[2], q[1])
      BY <2>2 DEF OldUi, Comparable
    <3>2. LessUi(q) \in Queues /\ Total(LessUi(q)) <= n
      BY <2>2, TurnFacts
    <3>3. Kept(Tail(q[2]))
      BY <3>1, TailFacts
    <3>4. PICK r : r = Aging[LessUi(q)]
      OBVIOUS
    <3>5. Thins(LessUi(q), r)
      <4>1. LessUi(q)[1] = q[1] /\ LessUi(q)[2] = Tail(q[2])
        BY DEF LessUi
      <4> QED
        BY <2>0, <3>2, <3>3, <3>4, <4>1
    <3>6. /\ Kept(r[1]) /\ Kept(r[2]) /\ Pts(r[2]) \subseteq Pts(Tail(q[2])) /\ Pts(r[1]) \subseteq Pts(q[1])
          /\ Lost(Tail(q[2]), r[2], q[1]) /\ Lost(q[1], r[1], Tail(q[2]))
      BY <3>5 DEF Thins, LessUi
    <3>7. Pts(r[2]) \subseteq Pts(q[2]) /\ Lost(q[2], r[2], q[1]) /\ Lost(q[1], r[1], q[2])
      BY <3>1, <3>6, DropFront
    <3>8. Aging[q] = r
      BY <2>2, <3>4, AgingTurns DEF Round
    <3> QED
      BY <3>6, <3>7, <3>8 DEF Thins
  <2> QED
    BY <1>0, <2>1, <2>2
<1> HIDE DEF N
<1>3. \A n \in Nat : n \in N
  BY <1>1, <1>2, Counting
<1> QED
  <2> TAKE q \in Queues
  <2>1. Total(q) \in Nat
    BY TurnFacts
  <2>2. Total(q) \in N /\ Total(q) <= Total(q)
    BY <1>3, <2>1
  <2> QED
    BY <2>2 DEF N
-----------------------------------------------------------------------------
(***************************************************************************)
(* Where the frames of a branch are, and what read() does with them.       *)
(***************************************************************************)
(* Of what a branch delivered, the rest is queued, was aged or capped, or  *)
(* left with its partner; what was aged is behind the other branch.        *)
Side(mine, other, agedMine, cap, seen, seenOther) ==
  /\ Kept(mine) /\ seen \in SUBSET Moments /\ agedMine \in SUBSET Moments
  /\ Pts(mine) \subseteq seen
  /\ \A x \in agedMine : \E y \in seenOther : y > x
  /\ \A x \in seen : x \in Pts(mine) \cup agedMine \cup cap \cup (seenOther \ Pts(other))
  /\ agedMine \cap seenOther \subseteq cap
\* The same of both branches.
Sound(inf, ui, ai, au, cap, si, su) ==
  Side(inf, ui, ai, cap, si, su) /\ Side(ui, inf, au, cap, su, si)

(* A frame pulled is new: nothing of it was aged, capped or delivered in   *)
(* either branch.                                                          *)
LEMMA SoundPull ==
  ASSUME NEW mine, NEW other, NEW am, NEW ao, NEW cap, NEW sm, NEW so,
         Sound(mine, other, am, ao, cap, sm, so),
         NEW p \in Moments, \A x \in sm : p > x
  PROVE  /\ Sound(mine \o << p >>, other, am, ao, cap, sm \cup {p}, so)
         /\ Pts(mine \o << p >>) = Pts(mine) \cup {p}
<1>1. Kept(mine) /\ Pts(mine) \subseteq sm /\ sm \in SUBSET Moments /\ ao \in SUBSET Moments
  BY DEF Sound, Side
<1>2. Kept(mine \o << p >>) /\ Pts(mine \o << p >>) = Pts(mine) \cup {p}
  BY <1>1, PulledFacts
<1>3. p \notin sm /\ p \in Int /\ \A x \in sm : x \in Int
  BY <1>1 DEF Moments
<1>4. Side(mine \o << p >>, other, am, cap, sm \cup {p}, so)
  BY <1>1, <1>2 DEF Sound, Side
<1>5. p \notin ao
  <2> SUFFICES ASSUME p \in ao PROVE FALSE
    OBVIOUS
  <2>1. PICK y \in sm : y > p
    BY DEF Sound, Side
  <2> QED
    BY <1>3, <2>1
<1>6. Side(other, mine \o << p >>, ao, cap, so, sm \cup {p})
  <2>1. /\ Kept(other) /\ so \in SUBSET Moments /\ ao \in SUBSET Moments /\ Pts(other) \subseteq so
        /\ \A x \in ao : \E y \in sm \cup {p} : y > x
    BY DEF Sound, Side
  <2>2. \A x \in so : x \in Pts(other) \cup ao \cup cap \cup (sm \ Pts(mine))
    BY DEF Sound, Side
  <2>3. \A x \in so : x \in Pts(other) \cup ao \cup cap \cup ((sm \cup {p}) \ Pts(mine \o << p >>))
    BY <1>2, <1>3, <2>2
  <2>4. ao \cap (sm \cup {p}) \subseteq cap
    BY <1>5 DEF Sound, Side
  <2> QED
    BY <2>1, <2>3, <2>4 DEF Side
<1> QED
  BY <1>2, <1>4, <1>6 DEF Sound

(* The cap takes frames, and says so.                                      *)
LEMMA SoundCap ==
  ASSUME NEW inf, NEW ui, NEW ai, NEW au, NEW cap, NEW si, NEW su,
         Sound(inf, ui, ai, au, cap, si, su)
  PROVE  LET i2 == Capped(inf)
             u2 == Capped(ui)
         IN /\ Sound(i2, u2, ai, au,
                     cap \cup (Pts(inf) \ Pts(i2)) \cup (Pts(ui) \ Pts(u2)), si, su)
            /\ Pts(i2) \subseteq Pts(inf) /\ Pts(u2) \subseteq Pts(ui)
            /\ << i2, u2 >> \in Queues
<1>1. PICK i2, u2 : i2 = Capped(inf) /\ u2 = Capped(ui)
  OBVIOUS
<1>2. Kept(inf) /\ Kept(ui)
  BY DEF Sound, Side
<1>3. /\ Kept(i2) /\ Kept(u2) /\ Pts(i2) \subseteq Pts(inf) /\ Pts(u2) \subseteq Pts(ui)
      /\ Len(i2) <= PendingCap /\ Len(u2) <= PendingCap
  BY <1>1, <1>2, CappedFacts
<1> DEFINE cap2 == cap \cup (Pts(inf) \ Pts(i2)) \cup (Pts(ui) \ Pts(u2))
<1>4. Side(i2, u2, ai, cap2, si, su)
  BY <1>3 DEF Sound, Side
<1>5. Side(u2, i2, au, cap2, su, si)
  BY <1>3 DEF Sound, Side
<1>6. << i2, u2 >> \in Queues
  <2>1. << i2, u2 >>[1] = i2 /\ << i2, u2 >>[2] = u2 /\ << i2, u2 >> \in Seq(Moments) \X Seq(Moments)
    BY <1>3 DEF Kept
  <2> QED
    BY <1>3, <2>1, Zenon DEF Queues
<1> QED
  BY <1>1, <1>3, <1>4, <1>5, <1>6 DEF Sound

(* What the loop ages out of one branch, the other delivered only if the   *)
(* cap took it there.                                                      *)
LEMMA SoundAge ==
  ASSUME NEW inf, NEW ui, NEW ai, NEW au, NEW cap, NEW si, NEW su,
         Sound(inf, ui, ai, au, cap, si, su), << inf, ui >> \in Queues
  PROVE  LET r == Aging[<< inf, ui >>]
         IN /\ Sound(r[1], r[2], ai \cup (Pts(inf) \ Pts(r[1])), au \cup (Pts(ui) \ Pts(r[2])),
                     cap, si, su)
            /\ Pts(r[1]) \subseteq Pts(inf) /\ Pts(r[2]) \subseteq Pts(ui)
<1>1. Kept(inf) /\ Kept(ui)
  BY DEF Sound, Side
<1>2. PICK r : r = Aging[<< inf, ui >>]
  OBVIOUS
<1>3. Thins(<< inf, ui >>, r)
  <2>1. << inf, ui >>[1] = inf /\ << inf, ui >>[2] = ui
    OBVIOUS
  <2> QED
    BY <1>1, <1>2, <2>1, AgingThins
<1>4. /\ Kept(r[1]) /\ Kept(r[2]) /\ Pts(r[1]) \subseteq Pts(inf) /\ Pts(r[2]) \subseteq Pts(ui)
      /\ \A x \in Pts(inf) \ Pts(r[1]) : x \notin Pts(ui) /\ \E y \in Pts(ui) : y > x
      /\ \A x \in Pts(ui) \ Pts(r[2]) : x \notin Pts(inf) /\ \E y \in Pts(inf) : y > x
  BY <1>3 DEF Thins, Lost
<1> DEFINE ai2 == ai \cup (Pts(inf) \ Pts(r[1]))
           au2 == au \cup (Pts(ui) \ Pts(r[2]))
<1>5. /\ si \in SUBSET Moments /\ su \in SUBSET Moments /\ ai2 \in SUBSET Moments /\ au2 \in SUBSET Moments
      /\ Pts(inf) \subseteq si /\ Pts(ui) \subseteq su
  BY DEF Sound, Side
<1>6. /\ \A x \in ai2 : \E y \in su : y > x
      /\ \A x \in au2 : \E y \in si : y > x
  BY <1>4, <1>5 DEF Sound, Side
<1>7. /\ \A x \in si : x \in Pts(inf) \cup ai \cup cap \cup (su \ Pts(ui))
      /\ \A x \in su : x \in Pts(ui) \cup au \cup cap \cup (si \ Pts(inf))
      /\ ai \cap su \subseteq cap /\ au \cap si \subseteq cap
  BY DEF Sound, Side
<1>8. /\ \A x \in si : x \in Pts(r[1]) \cup ai2 \cup cap \cup (su \ Pts(r[2]))
      /\ \A x \in su : x \in Pts(r[2]) \cup au2 \cup cap \cup (si \ Pts(r[1]))
  BY <1>4, <1>7
<1>9. ai2 \cap su \subseteq cap
  BY <1>4, <1>5, <1>7
<1>10. au2 \cap si \subseteq cap
  BY <1>4, <1>5, <1>7
<1>11. Side(r[1], r[2], ai2, cap, si, su)
  BY <1>4, <1>5, <1>6, <1>8, <1>9 DEF Side
<1>12. Side(r[2], r[1], au2, cap, su, si)
  BY <1>4, <1>5, <1>6, <1>8, <1>10 DEF Side
<1> QED
  BY <1>2, <1>4, <1>11, <1>12 DEF Sound

(* Both frames of a pair leave together.                                   *)
LEMMA SoundTake ==
  ASSUME NEW inf, NEW ui, NEW ai, NEW au, NEW cap, NEW si, NEW su,
         Sound(inf, ui, ai, au, cap, si, su),
         NEW i \in 1..Len(inf), NEW j \in 1..Len(ui), inf[i] = ui[j]
  PROVE  /\ Sound(Without(inf, i), Without(ui, j), ai, au, cap, si, su)
         /\ inf[i] \in Pts(inf) \cap Pts(ui)
         /\ Pts(Without(inf, i)) \cap Pts(Without(ui, j)) = (Pts(inf) \cap Pts(ui)) \ {inf[i]}
<1>1. Kept(inf) /\ Kept(ui) /\ Pts(inf) \subseteq si /\ Pts(ui) \subseteq su
  BY DEF Sound, Side
<1>2. PICK a, b, x : a = Without(inf, i) /\ b = Without(ui, j) /\ x = inf[i]
  OBVIOUS
<1>3. Kept(a) /\ Pts(a) = Pts(inf) \ {x} /\ Kept(b) /\ Pts(b) = Pts(ui) \ {x}
  BY <1>1, <1>2, WithoutFacts
<1>4. x \in Pts(inf) /\ x \in Pts(ui)
  BY <1>2 DEF Pts
<1>5. Side(a, b, ai, cap, si, su)
  BY <1>1, <1>3, <1>4 DEF Sound, Side
<1>6. Side(b, a, au, cap, su, si)
  BY <1>1, <1>3, <1>4 DEF Sound, Side
<1> QED
  BY <1>2, <1>3, <1>4, <1>5, <1>6 DEF Sound

(* try_match_ finds the pair if there is one.                              *)
LEMMA MatchFacts ==
  ASSUME NEW inf, NEW ui, Kept(inf), Kept(ui)
  PROVE  \/ Match(inf, ui) = << >> /\ Pts(inf) \cap Pts(ui) = {}
         \/ \E i \in 1..Len(inf), j \in 1..Len(ui) : Match(inf, ui) = << i, j >> /\ inf[i] = ui[j]
<1>1. CASE Timed(inf, ui) # {}
  <2>1. Timed(inf, ui) \in SUBSET Nat
    BY DEF Timed
  <2>2. \E i \in Timed(inf, ui) : \A k \in Timed(inf, ui) : i <= k
    BY <1>1, <2>1, LeastExists
  <2> DEFINE i == CHOOSE i \in Timed(inf, ui) : \A k \in Timed(inf, ui) : i <= k
  <2>3. i \in Timed(inf, ui)
    BY <2>2
  <2>4. i \in 1..Len(inf) /\ inf[i] \in Pts(ui)
    BY <2>3 DEF Timed
  <2> HIDE DEF i
  <2> DEFINE J == {j \in 1..Len(ui) : ui[j] = inf[i]}
  <2>5. J \in SUBSET Nat /\ J # {}
    BY <2>4 DEF Pts
  <2>6. PICK least \in J : \A k \in J : least <= k
    <3> HIDE DEF J
    <3> QED
      BY <2>5, LeastExists
  <2>7. \E j \in 1..Len(ui) : ui[j] = inf[i] /\ \A k \in 1..(j - 1) : ui[k] # inf[i]
    <3>1. least \in 1..Len(ui) /\ ui[least] = inf[i] /\ Len(ui) \in Nat
      BY <2>6 DEF Kept
    <3>2. ASSUME NEW k \in 1..(least - 1) PROVE ui[k] # inf[i]
      <4>1. k \in 1..Len(ui) /\ ~(least <= k)
        BY <3>1
      <4> QED
        BY <2>6, <4>1
    <3> QED
      BY <3>1, <3>2
  <2> DEFINE j == CHOOSE j \in 1..Len(ui) : ui[j] = inf[i] /\ \A k \in 1..(j - 1) : ui[k] # inf[i]
  <2>8. j \in 1..Len(ui) /\ ui[j] = inf[i]
    BY <2>7
  <2>9. Match(inf, ui) = << i, j >>
    BY <1>1, Zenon DEF Match, i
  <2> HIDE DEF j
  <2> QED
    BY <2>4, <2>8, <2>9
<1>2. CASE Timed(inf, ui) = {} /\ Untimed(inf, ui)
  <2>1. Match(inf, ui) = << 1, 1 >>
    BY <1>2 DEF Match
  <2>2. inf # << >> /\ ui # << >> /\ Head(inf) <= 0 /\ Head(ui) <= 0
    BY <1>2 DEF Untimed
  <2>3. /\ Head(inf) = inf[1] /\ 1 \in 1..Len(inf) /\ inf[1] \in Moments
        /\ Head(ui) = ui[1] /\ 1 \in 1..Len(ui) /\ ui[1] \in Moments
    <3>1. Head(inf) = inf[1] /\ 1 \in 1..Len(inf) /\ inf[1] \in Moments
      BY <2>2 DEF Kept
    <3>2. Head(ui) = ui[1] /\ 1 \in 1..Len(ui) /\ ui[1] \in Moments
      BY <2>2 DEF Kept
    <3> QED
      BY <3>1, <3>2
  <2>4. inf[1] = 0 /\ ui[1] = 0
    BY <2>2, <2>3 DEF Moments
  <2> QED
    BY <2>1, <2>3, <2>4
<1>3. CASE Timed(inf, ui) = {} /\ ~Untimed(inf, ui)
  <2>1. Match(inf, ui) = << >>
    BY <1>3 DEF Match
  <2>2. ASSUME NEW x \in Pts(inf), x \in Pts(ui) PROVE FALSE
    <3>1. PICK k \in 1..Len(inf) : inf[k] = x
      BY DEF Pts
    <3>2. x \in Moments
      BY <3>1 DEF Kept
    <3>3. ~(x > 0)
      BY <1>3, <2>2, <3>1 DEF Timed
    <3>4. x = 0
      BY <3>2, <3>3 DEF Moments
    <3>5. inf # << >> /\ ui # << >>
      <4>1. PICK l \in 1..Len(ui) : ui[l] = x
        BY <2>2 DEF Pts
      <4> QED
        BY <3>1, <4>1
    <3>6. Head(inf) <= 0 /\ Head(ui) <= 0
      <4>1. \A q : Kept(q) /\ q # << >> /\ 0 \in Pts(q) => Head(q) <= 0
        <5> SUFFICES ASSUME NEW q, Kept(q), q # << >>, 0 \in Pts(q) PROVE Head(q) <= 0
          OBVIOUS
        <5> QED
          BY TailFacts
      <4> QED
        BY <2>2, <3>4, <3>5, <4>1
    <3> QED
      BY <1>3, <3>5, <3>6 DEF Untimed
  <2> QED
    BY <2>1, <2>2
<1> QED
  BY <1>1, <1>2, <1>3
-----------------------------------------------------------------------------
(***************************************************************************)
(* read().                                                                 *)
(***************************************************************************)
(* What both branches have a frame of and read() has not paired yet: at    *)
(* most one moment, later than the last packet's, and only before the next *)
(* match is tried.                                                         *)
OneToPair(common, last) ==
  /\ \A x, y \in common : x = y
  /\ \A x \in common : x > last

\* A packet is of a frame that both branches have delivered.
PacketIsSeen(si, su) ==
  /\ nextFrameId \in Nat /\ packet.id = nextFrameId - 1
  /\ packet.inf = -1 \/ packet.inf \in si \cap su

\* The inductive invariant of the two queues and of read().
SourceInv ==
  /\ source \in {"stopped", "playing"} /\ reader \in {"idle", "top", "inf", "ui"}
  /\ Sound(pendingInf, pendingUi, aged.inf, aged.ui, capped, pulledInf, pulledUi)
  /\ PacketIsSeen(pulledInf, pulledUi)
  /\ OneToPair(Pts(pendingInf) \cap Pts(pendingUi), packet.inf)
  /\ reader # "top" => Pts(pendingInf) \cap Pts(pendingUi) = {}

\* What PairsAreRight says of one step.
NextPair ==
  packet'.id > packet.id =>
    packet'.inf = packet'.ui /\ packet'.inf > packet.inf /\ packet'.id = packet.id + 1

(* What read() does with the queues once it has pulled.                    *)
LEMMA SettleKeeps ==
  ASSUME NEW inf, NEW ui, NEW trims \in BOOLEAN, NEW otherwise \in {"inf", "ui", "top", "idle"},
         NEW si, NEW su,
         Sound(inf, ui, aged.inf, aged.ui, capped, si, su),
         PacketIsSeen(si, su), OneToPair(Pts(inf) \cap Pts(ui), packet.inf),
         otherwise = "top" => trims,
         Settle(inf, ui, trims, otherwise)
  PROVE  /\ reader' \in {"idle", "top", "inf", "ui"}
         /\ Sound(pendingInf', pendingUi', aged'.inf, aged'.ui, capped', si, su)
         /\ PacketIsSeen(si, su)'
         /\ OneToPair(Pts(pendingInf') \cap Pts(pendingUi'), packet'.inf)
         /\ reader' # "top" => Pts(pendingInf') \cap Pts(pendingUi') = {}
         /\ NextPair
<1>1. PICK c : c = IF trims THEN << Capped(inf), Capped(ui) >> ELSE << inf, ui >>
  OBVIOUS
<1>2. PICK q : q = IF trims THEN Aging[c] ELSE c
  OBVIOUS
<1>3. PICK m : m = IF trims /\ otherwise = "top" THEN << >> ELSE Match(q[1], q[2])
  OBVIOUS
<1>4. /\ capped' = capped \cup (Pts(inf) \ Pts(c[1])) \cup (Pts(ui) \ Pts(c[2]))
      /\ aged' = [inf |-> aged.inf \cup (Pts(c[1]) \ Pts(q[1])),
                  ui  |-> aged.ui \cup (Pts(c[2]) \ Pts(q[2]))]
      /\ IF m = << >>
         THEN /\ pendingInf' = q[1] /\ pendingUi' = q[2]
              /\ reader' = otherwise
              /\ UNCHANGED << packet, nextFrameId >>
         ELSE /\ pendingInf' = Without(q[1], m[1])
              /\ pendingUi' = Without(q[2], m[2])
              /\ packet' = [inf |-> q[1][m[1]], ui |-> q[2][m[2]], id |-> nextFrameId]
              /\ nextFrameId' = nextFrameId + 1
              /\ reader' = "idle"
  BY <1>1, <1>2, <1>3, Zenon DEF Settle
<1>5. /\ Sound(q[1], q[2], aged'.inf, aged'.ui, capped', si, su)
      /\ Pts(q[1]) \subseteq Pts(inf) /\ Pts(q[2]) \subseteq Pts(ui)
  <2>1. CASE trims
    <3>1. /\ Sound(c[1], c[2], aged.inf, aged.ui, capped', si, su)
          /\ Pts(c[1]) \subseteq Pts(inf) /\ Pts(c[2]) \subseteq Pts(ui)
          /\ c \in Queues /\ c = << c[1], c[2] >>
      <4>1. c = << Capped(inf), Capped(ui) >> /\ c[1] = Capped(inf) /\ c[2] = Capped(ui)
        BY <1>1, <2>1
      <4> QED
        BY <1>4, <4>1, SoundCap
    <3>2. q = Aging[<< c[1], c[2] >>] /\ << c[1], c[2] >> \in Queues
      BY <1>2, <2>1, <3>1
    <3>3. aged'.inf = aged.inf \cup (Pts(c[1]) \ Pts(q[1])) /\ aged'.ui = aged.ui \cup (Pts(c[2]) \ Pts(q[2]))
      BY <1>4
    <3>4. /\ Sound(q[1], q[2], aged.inf \cup (Pts(c[1]) \ Pts(q[1])), aged.ui \cup (Pts(c[2]) \ Pts(q[2])),
                   capped', si, su)
          /\ Pts(q[1]) \subseteq Pts(c[1]) /\ Pts(q[2]) \subseteq Pts(c[2])
      BY <3>1, <3>2, SoundAge
    <3> QED
      BY <3>1, <3>3, <3>4
  <2>2. CASE ~trims
    <3>1. q[1] = inf /\ q[2] = ui /\ c[1] = inf /\ c[2] = ui
      BY <1>1, <1>2, <2>2
    <3>2. capped' = capped /\ aged'.inf = aged.inf /\ aged'.ui = aged.ui
      BY <1>4, <3>1
    <3> QED
      BY <3>1, <3>2
  <2> QED
    BY <2>1, <2>2
<1>6. OneToPair(Pts(q[1]) \cap Pts(q[2]), packet.inf)
  BY <1>5 DEF OneToPair
<1>7. Kept(q[1]) /\ Kept(q[2]) /\ Pts(q[1]) \subseteq si /\ Pts(q[2]) \subseteq su
  BY <1>5 DEF Sound, Side
<1>8. CASE m = << >>
  <2>1. pendingInf' = q[1] /\ pendingUi' = q[2] /\ reader' = otherwise /\ packet' = packet /\ nextFrameId' = nextFrameId
    BY <1>4, <1>8
  <2>2. otherwise # "top" => Pts(q[1]) \cap Pts(q[2]) = {}
    <3> SUFFICES ASSUME otherwise # "top" PROVE Pts(q[1]) \cap Pts(q[2]) = {}
      OBVIOUS
    <3>1. Match(q[1], q[2]) = << >>
      BY <1>3, <1>8
    <3>2. \A i, j : << i, j >> # << >>
      OBVIOUS
    <3> QED
      BY <1>7, <3>1, <3>2, MatchFacts, SMTT(60)
  <2>3. PacketIsSeen(si, su)'
    BY <2>1 DEF PacketIsSeen
  <2>4. NextPair
    <3>1. packet.id \in Int
      BY DEF PacketIsSeen
    <3> QED
      BY <2>1, <3>1 DEF NextPair
  <2> QED
    BY <1>5, <1>6, <2>1, <2>2, <2>3, <2>4
<1>9. CASE m # << >>
  <2>1. m = Match(q[1], q[2])
    BY <1>3, <1>9
  <2>2. PICK i \in 1..Len(q[1]), j \in 1..Len(q[2]) : m = << i, j >> /\ q[1][i] = q[2][j]
    BY <1>7, <1>9, <2>1, MatchFacts
  <2>3. /\ pendingInf' = Without(q[1], i) /\ pendingUi' = Without(q[2], j)
        /\ packet' = [inf |-> q[1][i], ui |-> q[2][j], id |-> nextFrameId]
        /\ nextFrameId' = nextFrameId + 1 /\ reader' = "idle"
    BY <1>4, <1>9, <2>2
  <2>4. PICK x : x = q[1][i]
    OBVIOUS
  <2>5. /\ Sound(pendingInf', pendingUi', aged'.inf, aged'.ui, capped', si, su)
        /\ x \in Pts(q[1]) \cap Pts(q[2])
        /\ Pts(pendingInf') \cap Pts(pendingUi') = (Pts(q[1]) \cap Pts(q[2])) \ {x}
    BY <1>5, <2>2, <2>3, <2>4, SoundTake
  <2>6. Pts(pendingInf') \cap Pts(pendingUi') = {} /\ x > packet.inf
    BY <1>6, <2>5 DEF OneToPair
  <2>7. packet'.inf = x /\ packet'.ui = x /\ packet'.id = nextFrameId
    BY <2>2, <2>3, <2>4
  <2>8. PacketIsSeen(si, su)'
    <3>1. nextFrameId' \in Nat /\ packet'.id = nextFrameId' - 1
      BY <2>3, <2>7 DEF PacketIsSeen
    <3>2. packet'.inf \in si \cap su
      BY <1>7, <2>5, <2>7
    <3> QED
      BY <3>1, <3>2 DEF PacketIsSeen
  <2>9. NextPair
    <3>1. packet'.id = packet.id + 1
      BY <2>7 DEF PacketIsSeen
    <3> QED
      BY <2>6, <2>7, <3>1 DEF NextPair
  <2>10. OneToPair(Pts(pendingInf') \cap Pts(pendingUi'), packet'.inf)
    BY <2>6 DEF OneToPair
  <2>11. reader' \in {"idle", "top", "inf", "ui"}
    BY <2>3
  <2> QED
    BY <2>5, <2>6, <2>8, <2>9, <2>10, <2>11
<1> QED
  BY <1>8, <1>9

(* Nothing has been pulled.                                                *)
LEMMA SourceInitHolds == SourceInit => SourceInv
<1> SUFFICES ASSUME SourceInit PROVE SourceInv
  OBVIOUS
<1>1. Pts(<< >>) = {}
  BY DEF Pts
<1>2. Kept(<< >>)
  BY DEF Kept, Ascending
<1>3. aged.inf = {} /\ aged.ui = {} /\ packet.inf = -1 /\ packet.id = -1
  BY DEF SourceInit, NoPacket
<1> QED
  BY <1>1, <1>2, <1>3 DEF SourceInit, SourceInv, Sound, Side, PacketIsSeen, OneToPair

(* A pull that delivers nothing, or a moment later than all before.        *)
LEMMA PullFacts ==
  ASSUME NEW mine, NEW other, NEW am, NEW ao, NEW cap, NEW sm, NEW so,
         Sound(mine, other, am, ao, cap, sm, so), NEW s \in Pulled(sm),
         Pts(mine) \cap Pts(other) = {}, NEW last, last = -1 \/ last \in sm \cap so
  PROVE  /\ Sound(mine \o s, other, am, ao, cap, sm \cup Pts(s), so)
         /\ OneToPair(Pts(mine \o s) \cap Pts(other), last)
<1>1. mine \in Seq(Moments)
  BY DEF Sound, Side, Kept
<1>2. CASE s = << >>
  <2>1. mine \o s = mine /\ Pts(s) = {} /\ sm \cup {} = sm
    BY <1>1, <1>2 DEF Pts
  <2> QED
    BY <2>1 DEF OneToPair
<1>3. ASSUME NEW p \in Moments, \A x \in sm : p > x, s = << p >>
      PROVE  /\ Sound(mine \o s, other, am, ao, cap, sm \cup Pts(s), so)
             /\ OneToPair(Pts(mine \o s) \cap Pts(other), last)
  <2>1. Pts(s) = {p}
    BY <1>3 DEF Pts
  <2>2. /\ Sound(mine \o << p >>, other, am, ao, cap, sm \cup {p}, so)
        /\ Pts(mine \o << p >>) = Pts(mine) \cup {p}
    BY <1>3, SoundPull
  <2>3. p > last
    BY <1>3 DEF Moments
  <2>4. Pts(mine \o << p >>) \cap Pts(other) \subseteq {p}
    BY <2>2
  <2>5. OneToPair(Pts(mine \o << p >>) \cap Pts(other), last)
    BY <2>3, <2>4 DEF OneToPair
  <2> QED
    BY <1>3, <2>1, <2>2, <2>5
<1> QED
  BY <1>2, <1>3 DEF Pulled

(* What is said of the two branches is said of each alike.                 *)
LEMMA SoundTurned ==
  ASSUME NEW inf, NEW ui, NEW ai, NEW au, NEW cap, NEW si, NEW su
  PROVE  Sound(inf, ui, ai, au, cap, si, su) <=> Sound(ui, inf, au, ai, cap, su, si)
  BY DEF Sound

(* Every step keeps the invariant, and every packet follows the one before *)
(* it.                                                                     *)
LEMMA SourceNextKeeps == SourceInv /\ [SourceNext]_sourceVars => SourceInv' /\ NextPair
<1> SUFFICES ASSUME SourceInv, [SourceNext]_sourceVars PROVE SourceInv' /\ NextPair
  OBVIOUS
<1>0. /\ source \in {"stopped", "playing"} /\ reader \in {"idle", "top", "inf", "ui"}
      /\ Sound(pendingInf, pendingUi, aged.inf, aged.ui, capped, pulledInf, pulledUi)
      /\ PacketIsSeen(pulledInf, pulledUi)
      /\ OneToPair(Pts(pendingInf) \cap Pts(pendingUi), packet.inf)
      /\ reader # "top" => Pts(pendingInf) \cap Pts(pendingUi) = {}
      /\ packet.id \in Int
  BY DEF SourceInv, PacketIsSeen
<1>1. ASSUME UNCHANGED << pendingInf, pendingUi, pulledInf, pulledUi, aged, capped, packet, nextFrameId >>,
             source' \in {"stopped", "playing"}, reader' \in {"idle", "top", "inf", "ui"},
             reader' # "top" => Pts(pendingInf) \cap Pts(pendingUi) = {}
      PROVE  SourceInv' /\ NextPair
  <2>1. SourceInv'
    <3>1. /\ pendingInf' = pendingInf /\ pendingUi' = pendingUi /\ pulledInf' = pulledInf
          /\ pulledUi' = pulledUi /\ aged' = aged /\ capped' = capped /\ packet' = packet
          /\ nextFrameId' = nextFrameId
      BY <1>1
    <3>2. PacketIsSeen(pulledInf, pulledUi)'
      BY <1>0, <3>1 DEF PacketIsSeen
    <3> QED
      BY <1>0, <1>1, <3>1, <3>2 DEF SourceInv
  <2>2. NextPair
    BY <1>0, <1>1 DEF NextPair
  <2> QED
    BY <2>1, <2>2
<1>3. CASE Start
  BY <1>0, <1>1, <1>3 DEF Start
<1>4. CASE Read
  BY <1>0, <1>1, <1>4 DEF Read
<1>5. CASE UNCHANGED sourceVars
  BY <1>0, <1>1, <1>5 DEF sourceVars
<1>6. CASE Stop
  <2>1. /\ source' = "stopped" /\ reader' = "idle"
        /\ pendingInf' = << >> /\ pendingUi' = << >>
        /\ pulledInf' = {} /\ pulledUi' = {} /\ aged'.inf = {} /\ aged'.ui = {} /\ capped' = {}
        /\ packet'.inf = -1 /\ packet'.id = -1 /\ nextFrameId' = 0
    BY <1>6 DEF Stop, NoPacket
  <2>2. Pts(<< >>) = {} /\ Kept(<< >>)
    BY DEF Pts, Kept, Ascending
  <2>3. Sound(pendingInf', pendingUi', aged'.inf, aged'.ui, capped', pulledInf', pulledUi')
    BY <2>1, <2>2 DEF Sound, Side
  <2>4. PacketIsSeen(pulledInf, pulledUi)' /\ OneToPair(Pts(pendingInf') \cap Pts(pendingUi'), packet'.inf)
    BY <2>1, <2>2 DEF PacketIsSeen, OneToPair
  <2>5. packet.id >= -1
    BY <1>0 DEF PacketIsSeen
  <2>6. NextPair
    BY <1>0, <2>1, <2>5 DEF NextPair
  <2> QED
    BY <2>1, <2>2, <2>3, <2>4, <2>6 DEF SourceInv
<1>7. ASSUME NEW si, NEW su, si = pulledInf', su = pulledUi', source' = source,
             reader' \in {"idle", "top", "inf", "ui"},
             Sound(pendingInf', pendingUi', aged'.inf, aged'.ui, capped', si, su),
             PacketIsSeen(si, su)',
             OneToPair(Pts(pendingInf') \cap Pts(pendingUi'), packet'.inf),
             reader' # "top" => Pts(pendingInf') \cap Pts(pendingUi') = {}
      PROVE  SourceInv'
  <2>1. PacketIsSeen(pulledInf, pulledUi)'
    BY <1>7 DEF PacketIsSeen
  <2> QED
    BY <1>0, <1>7, <2>1 DEF SourceInv
<1>8. CASE ReadTop
  <2>1. Settle(pendingInf, pendingUi, FALSE, "inf") /\ source' = source /\ pulledInf' = pulledInf /\ pulledUi' = pulledUi
    BY <1>8 DEF ReadTop
  <2> QED
    BY <1>0, <1>7, <2>1, SettleKeeps
<1>9. CASE TimeOut
  <2>1. Settle(pendingInf, pendingUi, TRUE, "idle") /\ source' = source /\ pulledInf' = pulledInf /\ pulledUi' = pulledUi
    BY <1>9 DEF TimeOut
  <2> QED
    BY <1>0, <1>7, <2>1, SettleKeeps
<1>10. CASE PullInf
  <2>1. PICK s \in Pulled(pulledInf) :
          pulledInf' = pulledInf \cup Pts(s) /\ Settle(pendingInf \o s, pendingUi, FALSE, "ui")
    BY <1>10 DEF PullInf
  <2>2. reader = "inf" /\ source' = source /\ pulledUi' = pulledUi
    BY <1>10 DEF PullInf
  <2>3. PICK si, su : si = pulledInf' /\ su = pulledUi'
    OBVIOUS
  <2>4. /\ Sound(pendingInf \o s, pendingUi, aged.inf, aged.ui, capped, si, su)
        /\ OneToPair(Pts(pendingInf \o s) \cap Pts(pendingUi), packet.inf)
    <3>1. Pts(pendingInf) \cap Pts(pendingUi) = {}
      BY <1>0, <2>2
    <3>2. packet.inf = -1 \/ packet.inf \in pulledInf \cap pulledUi
      BY <1>0 DEF PacketIsSeen
    <3> QED
      BY <1>0, <2>1, <2>2, <2>3, <3>1, <3>2, PullFacts
  <2>5. PacketIsSeen(si, su)
    BY <1>0, <2>1, <2>2, <2>3 DEF PacketIsSeen
  <2> QED
    BY <1>7, <2>1, <2>2, <2>3, <2>4, <2>5, SettleKeeps
<1>11. CASE PullUi
  <2>1. PICK s \in Pulled(pulledUi) :
          pulledUi' = pulledUi \cup Pts(s) /\ Settle(pendingInf, pendingUi \o s, TRUE, "top")
    BY <1>11 DEF PullUi
  <2>2. reader = "ui" /\ source' = source /\ pulledInf' = pulledInf
    BY <1>11 DEF PullUi
  <2>3. PICK si, su : si = pulledInf' /\ su = pulledUi'
    OBVIOUS
  <2>4. /\ Sound(pendingUi \o s, pendingInf, aged.ui, aged.inf, capped, su, si)
        /\ OneToPair(Pts(pendingUi \o s) \cap Pts(pendingInf), packet.inf)
    <3>1. Pts(pendingUi) \cap Pts(pendingInf) = {}
      BY <1>0, <2>2
    <3>2. packet.inf = -1 \/ packet.inf \in pulledUi \cap pulledInf
      BY <1>0 DEF PacketIsSeen
    <3>3. Sound(pendingUi, pendingInf, aged.ui, aged.inf, capped, pulledUi, pulledInf)
      BY <1>0, SoundTurned
    <3> QED
      BY <2>1, <2>2, <2>3, <3>1, <3>2, <3>3, PullFacts
  <2>5. /\ Sound(pendingInf, pendingUi \o s, aged.inf, aged.ui, capped, si, su)
        /\ OneToPair(Pts(pendingInf) \cap Pts(pendingUi \o s), packet.inf)
    <3>1. Pts(pendingInf) \cap Pts(pendingUi \o s) = Pts(pendingUi \o s) \cap Pts(pendingInf)
      OBVIOUS
    <3> QED
      BY <2>4, <3>1, SoundTurned
  <2>6. PacketIsSeen(si, su)
    BY <1>0, <2>1, <2>2, <2>3 DEF PacketIsSeen
  <2> QED
    BY <1>7, <2>1, <2>2, <2>3, <2>5, <2>6, SettleKeeps
<1> QED
  BY <1>3, <1>4, <1>5, <1>6, <1>8, <1>9, <1>10, <1>11 DEF SourceNext

(* The invariant holds what is promised of every state.                    *)
LEMMA SourceInvMeans == SourceInv => SourceTypeOK /\ NoMatchLost
  BY DEF SourceInv, Sound, Side, Kept, PacketIsSeen, SourceTypeOK, NoMatchLost

(* PairsAreRight (gst_dual_source.cpp): whatever the branches drop, and    *)
(* however many frames fit a queue, every packet shows one moment twice,   *)
(* packets follow each other in time with consecutive ids, and no frame is *)
(* aged out whose partner is delivered, unless the cap took the partner.   *)
THEOREM PairsAreRightHolds == SourceSpec => PairsAreRight
<1>1. SourceInit => SourceInv
  BY SourceInitHolds
<1>2. SourceInv /\ [SourceNext]_sourceVars => SourceInv'
  BY SourceNextKeeps
<1>3. SourceInv => SourceTypeOK /\ NoMatchLost
  BY SourceInvMeans
<1>4. SourceInv /\ [SourceNext]_sourceVars =>
        [packet'.id > packet.id =>
           /\ packet'.inf = packet'.ui
           /\ packet'.inf > packet.inf
           /\ packet'.id = packet.id + 1]_sourceVars
  BY SourceNextKeeps DEF NextPair
<1> QED
  BY <1>1, <1>2, <1>3, <1>4, PTL DEF SourceSpec, PairsAreRight, PairsInOrder

-----------------------------------------------------------------------------
(***************************************************************************)
(* Association: the Hungarian method. The prices of rows and columns are a *)
(* solution of the dual problem; the search keeps it one, and at the end   *)
(* it proves the assignment optimal.                                       *)
(***************************************************************************)
Top == MaxIou + MaxExtra
Slots == {0} \cup Columns
Steps == {"boxes", "row", "scan", "augment", "assigned", "greedy", "taken"}

\* The boxes and the costs of each pair are numbers, in a matrix that fits the
\* arrays.
Shape ==
  \E n, k \in Nat \ {0} :
    /\ iou \in [1..n -> [1..k -> 0..MaxIou]]
    /\ cost \in [1..n -> [1..k -> 0..Top]]
    /\ step # "boxes" => n <= MaxSide /\ k <= MaxSide

\* Before the matrix is built, nothing of the search has happened.
Untouched ==
  /\ current = 0 /\ at = 0
  /\ rowOf = Zero /\ rowPrice = Zero /\ colPrice = Zero /\ way = Zero
  /\ slack = [j \in 0..MaxSide |-> Infinity]
  /\ used = {} /\ left = {} /\ matches = {}

\* The arrays of the search, with the spare column 0 of the code.
SearchTyped ==
  /\ rowOf \in [0..MaxSide -> Nat] /\ way \in [0..MaxSide -> Nat]
  /\ rowPrice \in [0..MaxSide -> Int] /\ colPrice \in [0..MaxSide -> Int]
  /\ slack \in [0..MaxSide -> Int]
  /\ current \in Nat /\ current <= Cardinality(Rows)
  /\ at \in Slots /\ used \subseteq Slots

\* Over the columns S: each has a row seen so far or none, no row has two, and
\* each row seen so far has one.
Pairing(S) ==
  /\ \A j \in S : rowOf[j] \in 0..current
  /\ \A j, k \in S : rowOf[j] = rowOf[k] /\ rowOf[j] # 0 => j = k
  /\ \A i \in 1..current : \E j \in S : rowOf[j] = i

\* The columns that have a row of their own: the row of the column being left
\* is on its way to the next.
Holding == IF step = "scan" THEN Slots ELSE IF step = "augment" THEN Slots \ {at} ELSE Columns

\* The slack of the dual constraint of a row and a column.
Excess(i, j) == Mat(i, j) - rowPrice[i] - colPrice[j]

\* The prices solve the dual problem: no pair is cheaper than its two prices,
\* and a free column costs nothing.
Prices ==
  /\ \A i \in Rows : rowPrice[i] >= 0
  /\ \A j \in Columns : colPrice[j] <= 0 /\ (rowOf[j] = 0 => colPrice[j] = 0)
  /\ \A i \in Rows, j \in Columns : Excess(i, j) >= 0

\* Pairs of the assignment cost exactly their prices, which makes it optimal.
Tight == \A j \in Columns \cap Holding : rowOf[j] # 0 => Excess(rowOf[j], j) = 0

\* The column before j on the path costs exactly its prices with the row it
\* has.
OnTree(j, rank) ==
  /\ way[j] \in used /\ rank[way[j]] < rank[j]
  /\ rowOf[way[j]] # 0 /\ Excess(rowOf[way[j]], j) = 0

\* way leads from each column reached back to column 0, by columns reached
\* earlier, over pairs that cost exactly their prices.
Tree ==
  step \in {"scan", "augment"} =>
    /\ current >= 1 /\ 0 \in Reached
    /\ \E rank \in [0..MaxSide -> Nat] :
         \A j \in Reached \ {0} : (step = "scan" \/ rank[j] <= rank[at]) => OnTree(j, rank)

\* slack is the least excess of a column not reached yet, and way the column
\* it comes from; Infinity until a row has been scanned.
Fringe ==
  /\ step = "augment" => at # 0
  /\ step = "scan" =>
       /\ at \notin used /\ rowOf[0] = current
       /\ \A j \in Reached : rowOf[j] # 0
       /\ \A j \in Columns \ Reached :
            /\ \A k \in used : slack[j] <= Excess(rowOf[k], j)
            /\ \/ slack[j] >= Infinity - rowPrice[current]
               \/ way[j] \in used /\ slack[j] = Excess(rowOf[way[j]], j)

\* The inductive invariant of the Hungarian method.
HungarianInv ==
  /\ step \in Steps /\ Shape
  /\ step = "boxes" => Untouched
  /\ step # "boxes" => /\ SearchTyped /\ Pairing(Holding) /\ Prices /\ Tight /\ Tree /\ Fringe
                       /\ step = "assigned" => current = Cardinality(Rows)

-----------------------------------------------------------------------------
(* The matrix has at least as many columns as rows, and its costs are      *)
(* less than Infinity.                                                     *)
MatrixOf(r, m) ==
  /\ r <= m /\ Rows = 1..r /\ Columns = 1..m /\ Cardinality(Rows) = r
  /\ IsFiniteSet(Rows) /\ IsFiniteSet(Columns) /\ Cardinality(Columns) = m
  /\ step # "boxes" => m <= MaxSide
  /\ \A i \in Rows, j \in Columns : Mat(i, j) \in 0..Top

(* The matrix has at least as many columns as rows, and its entries are    *)
(* costs.                                                                  *)
LEMMA MatrixSizes == Shape => \E r, m \in Nat \ {0} : MatrixOf(r, m)
<1> SUFFICES ASSUME Shape PROVE \E r, m \in Nat \ {0} : MatrixOf(r, m)
  OBVIOUS
<1>1. PICK n \in Nat \ {0}, k \in Nat \ {0} :
        /\ iou \in [1..n -> [1..k -> 0..MaxIou]]
        /\ cost \in [1..n -> [1..k -> 0..Top]]
        /\ step # "boxes" => n <= MaxSide /\ k <= MaxSide
  BY DEF Shape
<1>2. Tracks = 1..n /\ Detected = 1..k
  BY <1>1 DEF Tracks, Detected
<1>3. Turned <=> n > k
  <2>1. Len(iou) = n /\ Len(iou[1]) = k
    <3>1. iou[1] \in [1..k -> 0..MaxIou]
      BY <1>1
    <3> QED
      BY <1>1, <3>1, SeqDef, LenProperties
  <2> QED
    BY <2>1 DEF Turned
<1>4. \A a, b \in Nat \ {0} : IsFiniteSet(1..a) /\ Cardinality(1..a) = a
  BY FS_Interval
<1>5. CASE n > k
  <2>1. Rows = 1..k /\ Columns = 1..n
    BY <1>2, <1>3, <1>5 DEF Rows, Columns
  <2>2. \A i \in 1..k, j \in 1..n : Mat(i, j) \in 0..Top
    BY <1>1, <1>3, <1>5 DEF Mat
  <2>3. k <= n /\ Cardinality(1..k) = k /\ IsFiniteSet(1..k) /\ IsFiniteSet(1..n) /\ Cardinality(1..n) = n
    BY <1>4, <1>5
  <2>4. MatrixOf(k, n)
    BY <1>1, <2>1, <2>2, <2>3 DEF MatrixOf
  <2> QED
    BY <2>4
<1>6. CASE ~(n > k)
  <2>1. Rows = 1..n /\ Columns = 1..k
    BY <1>2, <1>3, <1>6 DEF Rows, Columns
  <2>2. \A i \in 1..n, j \in 1..k : Mat(i, j) \in 0..Top
    BY <1>1, <1>3, <1>6 DEF Mat
  <2>3. n <= k /\ Cardinality(1..k) = k /\ IsFiniteSet(1..k) /\ IsFiniteSet(1..n) /\ Cardinality(1..n) = n
    <3>1. n <= k
      BY <1>6
    <3> QED
      BY <1>4, <3>1
  <2>4. MatrixOf(n, k)
    BY <1>1, <2>1, <2>2, <2>3 DEF MatrixOf
  <2> QED
    BY <2>4
<1> QED
  BY <1>5, <1>6

(* The matrix stays the one it is until the next frame.                    *)
LEMMA SameMatrix ==
  ASSUME UNCHANGED << iou, cost >>
  PROVE  /\ Rows' = Rows /\ Columns' = Columns /\ Slots' = Slots
         /\ Tracks' = Tracks /\ Detected' = Detected
         /\ \A i, j : Mat(i, j)' = Mat(i, j)
  BY DEF Rows, Columns, Slots, Mat, Turned, Tracks, Detected

(* No search has begun.                                                    *)
LEMMA HungarianInit == AssocInit => HungarianInv
<1> SUFFICES ASSUME AssocInit PROVE HungarianInv
  OBVIOUS
<1>1. Shape
  <2>1. << << 0 >> >> \in [1..1 -> [1..1 -> 0..MaxIou]] /\ << << 0 >> >> \in [1..1 -> [1..1 -> 0..Top]]
    BY AssociationAssumption DEF Top, AssociationAssumption
  <2>2. iou = << << 0 >> >> /\ cost = << << 0 >> >> /\ step = "boxes" /\ 1 \in Nat \ {0}
    BY DEF AssocInit
  <2>3. /\ iou \in [1..1 -> [1..1 -> 0..MaxIou]]
        /\ cost \in [1..1 -> [1..1 -> 0..Top]]
        /\ step # "boxes" => 1 <= MaxSide /\ 1 <= MaxSide
    BY <2>1, <2>2
  <2> QED
    BY Zenon, <2>2, <2>3 DEF Shape
<1> QED
  BY <1>1 DEF AssocInit, HungarianInv, Untouched, Steps

(* A new matrix and nothing assigned: all prices are 0, and no cost is     *)
(* negative.                                                               *)
LEMMA HungarianPrepare ==
  ASSUME HungarianInv, Prepare
  PROVE  HungarianInv'
<1> USE AssociationAssumption DEF AssociationAssumption
<1>1. Untouched /\ step' = "row" /\ UNCHANGED << search, left, matches >>
  BY DEF Prepare, HungarianInv
<1>2. PICK n \in 1..MaxSide, k \in 1..MaxSide :
        /\ iou' \in [1..n -> [1..k -> 0..MaxIou]]
        /\ \E extra \in ExtraCosts(n, k) :
             cost' = [i \in 1..n |-> [j \in 1..k |-> MaxIou - iou'[i][j] + extra[i][j]]]
  BY DEF Prepare
<1>3. PICK extra \in [1..n -> [1..k -> 0..MaxExtra]] :
        cost' = [i \in 1..n |-> [j \in 1..k |-> MaxIou - iou'[i][j] + extra[i][j]]]
  <2>1. ExtraCosts(n, k) \subseteq [1..n -> [1..k -> 0..MaxExtra]]
    <3>1. (IF n * k <= GridPairs THEN 0..MaxExtra ELSE {0}) \subseteq 0..MaxExtra
      OBVIOUS
    <3> QED
      BY <3>1 DEF ExtraCosts
  <2> QED
    BY <1>2, <2>1
<1>4. cost' \in [1..n -> [1..k -> 0..Top]]
  <2>1. \A i \in 1..n, j \in 1..k : iou'[i][j] \in 0..MaxIou /\ extra[i][j] \in 0..MaxExtra
    BY <1>2, <1>3
  <2>2. \A a \in 0..MaxIou, b \in 0..MaxExtra : MaxIou - a + b \in 0..Top
    BY DEF Top
  <2>3. \A i \in 1..n, j \in 1..k : MaxIou - iou'[i][j] + extra[i][j] \in 0..Top
    BY <2>1, <2>2
  <2> QED
    BY <1>3, <2>3
<1>5. Shape'
  <2>1. n \in Nat \ {0} /\ k \in Nat \ {0} /\ n <= MaxSide /\ k <= MaxSide
    OBVIOUS
  <2> QED
    BY Zenon, <1>2, <1>4, <2>1 DEF Shape
<1>6. PICK r \in Nat \ {0}, m \in Nat \ {0} :
        /\ r <= m /\ Rows' = 1..r /\ Columns' = 1..m /\ Cardinality(Rows)' = r /\ m <= MaxSide
        /\ \A i \in Rows', j \in Columns' : Mat(i, j)' \in 0..Top
  <2>1. \E r, m \in Nat \ {0} : MatrixOf(r, m)'
    <3>1. (\E r, m \in Nat \ {0} : MatrixOf(r, m))'
      BY <1>5, MatrixSizes, PTL
    <3> QED
      BY <3>1
  <2> QED
    BY <1>1, <2>1 DEF MatrixOf
<1>7. /\ current' = 0 /\ at' = 0 /\ used' = {}
      /\ rowOf' = Zero /\ rowPrice' = Zero /\ colPrice' = Zero /\ way' = Zero
      /\ slack' = [j \in 0..MaxSide |-> Infinity]
  BY <1>1 DEF Untouched, search
<1>8. Holding' = Columns' /\ Columns' \subseteq 0..MaxSide /\ Rows' \subseteq 0..MaxSide
  <2>1. Holding' = Columns'
    BY <1>1 DEF Holding
  <2>2. 1..r \subseteq 0..MaxSide /\ 1..m \subseteq 0..MaxSide
    <3>1. r \in Nat /\ m \in Nat /\ r <= m /\ m <= MaxSide /\ MaxSide \in Nat
      BY <1>6, AssociationAssumption
    <3> QED
      BY ONLY <3>1
  <2> QED
    BY <1>6, <2>1, <2>2, Zenon
<1>9. SearchTyped'
  BY <1>6, <1>7 DEF SearchTyped, Zero, Infinity, Slots
<1>10. Pairing(Holding)'
  BY <1>7, <1>8 DEF Pairing, Zero
<1>11. \A i \in Rows', j \in Columns' : Excess(i, j)' >= 0
  <2> SUFFICES ASSUME NEW i \in Rows', NEW j \in Columns' PROVE Excess(i, j)' >= 0
    OBVIOUS
  <2>1. rowPrice'[i] = 0 /\ colPrice'[j] = 0 /\ Mat(i, j)' \in 0..Top
    BY <1>6, <1>7, <1>8 DEF Zero
  <2> QED
    BY <2>1 DEF Excess, Top
<1>12. Prices'
  BY <1>7, <1>8, <1>11 DEF Prices, Zero
<1>13. Tight' /\ Tree' /\ Fringe'
  BY <1>1, <1>7, <1>8 DEF Tight, Tree, Fringe, Zero
<1> QED
  BY <1>1, <1>5, <1>9, <1>10, <1>12, <1>13 DEF HungarianInv, Steps

(* The next row holds column 0, and only column 0 is reached.              *)
LEMMA HungarianStartRow ==
  ASSUME HungarianInv, StartRow
  PROVE  HungarianInv'
<1>0. MaxSide \in Nat
  BY AssociationAssumption DEF AssociationAssumption
<1>1. PICK r \in Nat \ {0}, m \in Nat \ {0} : MatrixOf(r, m)
  BY MatrixSizes DEF HungarianInv
<1>2. /\ step = "row" /\ step' = "scan" /\ current < r /\ current' = current + 1
      /\ rowOf' = [rowOf EXCEPT ![0] = current + 1] /\ at' = 0 /\ used' = {}
      /\ slack' = [j \in 0..MaxSide |-> Infinity]
      /\ UNCHANGED << iou, cost, rowPrice, colPrice, way, left, matches >>
  BY <1>1 DEF StartRow, MatrixOf
<1>3. /\ Rows' = Rows /\ Columns' = Columns /\ Slots' = Slots
      /\ \A i, j : Mat(i, j)' = Mat(i, j)
  BY <1>2, SameMatrix
<1>4. /\ Rows = 1..r /\ Columns = 1..m /\ r <= m /\ m <= MaxSide /\ Cardinality(Rows) = r
      /\ Slots = 0..m
  BY <1>1, <1>2 DEF MatrixOf, Slots
<1>5. SearchTyped /\ Pairing(Columns) /\ Prices /\ Shape
      /\ \A j \in Columns : rowOf[j] # 0 => Excess(rowOf[j], j) = 0
  BY <1>2 DEF HungarianInv, Holding, Tight
<1> USE <1>0, <1>3
<1>5a. /\ rowOf \in [0..MaxSide -> Nat] /\ way \in [0..MaxSide -> Nat]
       /\ rowPrice \in [0..MaxSide -> Int] /\ colPrice \in [0..MaxSide -> Int]
       /\ current \in Nat /\ 0..m \subseteq 0..MaxSide
  <2>1. 0..m \subseteq 0..MaxSide
    BY <1>0, <1>4
  <2> QED
    BY <1>5, <2>1 DEF SearchTyped
<1>6. /\ rowOf'[0] = current + 1 /\ \A j \in Columns : rowOf'[j] = rowOf[j]
  BY <1>2, <1>4, <1>5 DEF SearchTyped
<1>7. Holding' = Slots /\ Reached' = {0}
  BY <1>2 DEF Holding, Reached
<1>8. Shape'
  BY <1>2, <1>5 DEF Shape
<1>9. SearchTyped'
  <2>1. /\ rowOf' \in [0..MaxSide -> Nat] /\ slack' \in [0..MaxSide -> Int]
        /\ current' \in Nat /\ current' <= r /\ at' \in Slots
    <3>1. rowOf' \in [0..MaxSide -> Nat] /\ slack' \in [0..MaxSide -> Int]
      BY <1>2, <1>5a DEF Infinity
    <3>2. current' \in Nat /\ current' <= r /\ at' \in Slots
      BY <1>2, <1>4, <1>5a
    <3> QED
      BY <3>1, <3>2
  <2>2. Cardinality(Rows)' = r
    BY <1>4
  <2> QED
    BY <1>2, <1>4, <1>5a, <2>1, <2>2 DEF SearchTyped
<1>10. Pairing(Slots)'
  <2>1. 1..current' = 1..current \cup {current + 1} /\ 0..current \subseteq 0..current'
        /\ current + 1 \in 0..current' /\ current + 1 \notin 0..current
    BY <1>2, <1>5a
  <2>2. \A j \in Slots : rowOf'[j] \in 0..current'
    BY <1>5, <1>6, <2>1 DEF Pairing, Slots
  <2>3. \A j, k \in Slots : rowOf'[j] = rowOf'[k] /\ rowOf'[j] # 0 => j = k
    BY <1>5, <1>6, <2>1 DEF Pairing, Slots
  <2>4. \A i \in 1..current' : \E j \in Slots : rowOf'[j] = i
    BY <1>5, <1>6, <2>1 DEF Pairing, Slots
  <2> QED
    BY <2>2, <2>3, <2>4 DEF Pairing
<1>11. \A i, j : Excess(i, j)' = Excess(i, j)
  BY <1>2 DEF Excess
<1>12. Prices'
  BY <1>2, <1>5, <1>6, <1>11 DEF Prices
<1>13. Tight'
  BY <1>5, <1>6, <1>7, <1>11 DEF Tight
<1>14. Tree'
  <2>1. [j \in 0..MaxSide |-> 0] \in [0..MaxSide -> Nat]
    OBVIOUS
  <2>2. current' >= 1 /\ 0 \in Reached'
    BY <1>2, <1>5a, <1>7
  <2>3. \A j \in Reached' \ {0} : FALSE
    BY <1>7
  <2> QED
    BY <2>1, <2>2, <2>3 DEF Tree
<1>15. Fringe'
  <2>1. current + 1 \in Rows /\ rowPrice[current + 1] >= 0
    BY <1>2, <1>4, <1>5 DEF SearchTyped, Prices
  <2>2. \A j \in Columns : slack'[j] >= Infinity - rowPrice'[current']
    <3>1. rowPrice[current + 1] \in Int
      BY <1>4, <1>5, <2>1 DEF SearchTyped
    <3> QED
      BY <1>2, <1>4, <2>1, <3>1 DEF Infinity
  <2> QED
    <3>1. step' # "augment" /\ at' \notin used' /\ rowOf'[0] = current' /\ used' = {}
      BY <1>2, <1>6
    <3>2. \A j \in Reached' : rowOf'[j] # 0
      BY <1>5a, <1>6, <1>7
    <3>3. \A j \in Columns' : slack'[j] >= Infinity - rowPrice'[current']
      BY <2>2
    <3> QED
      BY <3>1, <3>2, <3>3 DEF Fringe
<1> QED
  BY <1>2, <1>7, <1>8, <1>9, <1>10, <1>12, <1>13, <1>14, <1>15 DEF HungarianInv, Steps

(* Moving a row one column back along the path leaves the pairing one,     *)
(* with another column that nobody holds.                                  *)
LEMMA HungarianAugment ==
  ASSUME HungarianInv, Augment
  PROVE  HungarianInv'
<1>0. MaxSide \in Nat
  BY AssociationAssumption DEF AssociationAssumption
<1>1. PICK r \in Nat \ {0}, m \in Nat \ {0} : MatrixOf(r, m)
  BY MatrixSizes DEF HungarianInv
<1>2. /\ step = "augment" /\ step' = IF way[at] = 0 THEN "row" ELSE "augment"
      /\ rowOf' = [rowOf EXCEPT ![at] = rowOf[way[at]]] /\ at' = way[at]
      /\ UNCHANGED << iou, cost, current, rowPrice, colPrice, slack, way, used, left, matches >>
  BY DEF Augment
<1>3. /\ Rows' = Rows /\ Columns' = Columns /\ Slots' = Slots
      /\ \A i, j : Mat(i, j)' = Mat(i, j)
  BY <1>2, SameMatrix
<1>4. /\ Rows = 1..r /\ Columns = 1..m /\ r <= m /\ m <= MaxSide /\ Cardinality(Rows) = r
      /\ Slots = 0..m
  BY <1>1, <1>2 DEF MatrixOf, Slots
<1>5. /\ SearchTyped /\ Pairing(Slots \ {at}) /\ Prices /\ Shape /\ at # 0
      /\ \A j \in Columns \ {at} : rowOf[j] # 0 => Excess(rowOf[j], j) = 0
      /\ current >= 1 /\ 0 \in Reached
  BY <1>2 DEF HungarianInv, Holding, Tight, Fringe, Tree, Slots
<1> USE <1>0, <1>3
<1>5a. /\ rowOf \in [0..MaxSide -> Nat] /\ way \in [0..MaxSide -> Nat]
       /\ rowPrice \in [0..MaxSide -> Int] /\ colPrice \in [0..MaxSide -> Int]
       /\ slack \in [0..MaxSide -> Int]
       /\ current \in 0..r /\ 0..m \subseteq 0..MaxSide /\ at \in 0..m /\ used \subseteq 0..m
  <2>1. 0..m \subseteq 0..MaxSide
    BY <1>0, <1>4
  <2>2. current \in 0..r
    BY <1>4, <1>5 DEF SearchTyped
  <2> QED
    BY <1>4, <1>5, <2>1, <2>2 DEF SearchTyped
<1>6. PICK rank \in [0..MaxSide -> Nat] :
        \A j \in Reached \ {0} : rank[j] <= rank[at] => OnTree(j, rank)
  BY <1>2 DEF HungarianInv, Tree
<1>6a. PICK w : w = way[at]
  OBVIOUS
<1>7. at \in Columns /\ at \in Reached /\ at \in 0..MaxSide /\ rank[at] \in Nat
  <2>1. at \in Slots
    BY <1>5 DEF SearchTyped
  <2>2. at \in 1..m /\ at \in 0..MaxSide
    BY <1>0, <1>4, <1>5, <2>1
  <2> QED
    BY <1>4, <2>2 DEF Reached
<1>8. w \in used /\ w \in Slots /\ rank[w] < rank[at] /\ w # at /\ rowOf[w] # 0 /\ Excess(rowOf[w], at) = 0
  <2>1. OnTree(at, rank)
    BY <1>5, <1>6, <1>7
  <2>2. w \in used /\ rank[w] < rank[at] /\ rowOf[w] # 0 /\ Excess(rowOf[w], at) = 0
    <3>1. way[at] \in used /\ rank[way[at]] < rank[at] /\ rowOf[way[at]] # 0 /\ Excess(rowOf[way[at]], at) = 0
      BY <2>1, Zenon DEF OnTree
    <3> QED
      BY <1>6a, <3>1, Zenon
  <2>3. w \in 0..MaxSide /\ w \in Slots
    BY <1>4, <1>5a, <2>2
  <2>4. w # at
    BY <1>7, <2>2
  <2> QED
    BY <2>2, <2>3, <2>4
<1> USE <1>6a
<1>9. rowOf'[at] = rowOf[w] /\ \A j \in Slots \ {at} : rowOf'[j] = rowOf[j]
  BY <1>2, <1>4, <1>5a, <1>7
<1>10. at' = w /\ used' = used /\ way' = way /\ Reached' = used
  BY <1>2, <1>8 DEF Reached
<1>11. Holding' = Slots \ {w}
  BY <1>2, <1>4, <1>10 DEF Holding
<1>12. SearchTyped'
  <2>1. rowOf[w] \in Nat
    BY <1>4, <1>5a, <1>8
  <2>2. rowOf' \in [0..MaxSide -> Nat]
    BY <1>2, <1>5a, <2>1
  <2> QED
    BY <1>2, <1>5, <1>8, <1>10, <2>2 DEF SearchTyped
<1>13. Pairing(Slots \ {w})'
  <2>1. \A j \in Slots \ {w} : rowOf'[j] \in 0..current
    BY <1>5, <1>8, <1>9 DEF Pairing
  <2>2. ASSUME NEW j \in Slots \ {w}, NEW k \in Slots \ {w}, rowOf'[j] = rowOf'[k], rowOf'[j] # 0 PROVE j = k
    BY <1>5, <1>8, <1>9, <2>2 DEF Pairing
  <2>3. ASSUME NEW i \in 1..current PROVE \E j \in Slots \ {w} : rowOf'[j] = i
    <3>1. PICK k \in Slots \ {at} : rowOf[k] = i
      BY <1>5 DEF Pairing
    <3> QED
      BY <1>7, <1>8, <1>9, <3>1 DEF Slots
  <2>4. (Slots \ {w})' = Slots \ {w}
    BY <1>3
  <2> QED
    BY <1>2, <2>1, <2>2, <2>3 DEF Pairing
<1>14. \A i, j : Excess(i, j)' = Excess(i, j)
  BY <1>2 DEF Excess
<1>15. Prices'
  BY <1>2, <1>5, <1>8, <1>9, <1>14 DEF Prices, Slots
<1>16. Tight'
  BY <1>5, <1>8, <1>9, <1>11, <1>14 DEF Tight, Slots
<1>17. Shape'
  BY <1>2, <1>5 DEF Shape
<1>18. Tree'
  <2>1. ASSUME step' = "augment" PROVE \A j \in used \ {0} : rank[j] <= rank[w] => OnTree(j, rank)'
    <3> SUFFICES ASSUME NEW j \in used \ {0}, rank[j] <= rank[w] PROVE OnTree(j, rank)'
      OBVIOUS
    <3>1. j \in Reached \ {0} /\ rank[j] \in Nat /\ rank[w] \in Nat
      BY <1>4, <1>5a, <1>8 DEF Reached
    <3>2. rank[j] <= rank[at]
      BY <1>7, <1>8, <3>1
    <3>3. OnTree(j, rank)
      BY <1>6, <3>1, <3>2
    <3>4. way[j] \in used /\ way[j] \in Slots /\ rank[way[j]] < rank[j]
      BY <1>5, <3>3 DEF OnTree, SearchTyped
    <3>5. way[j] # at
      <4>1. rank[way[j]] \in Nat
        BY <1>4, <1>5a, <3>4
      <4>2. rank[way[j]] < rank[at]
        BY <1>7, <3>1, <3>2, <3>4, <4>1
      <4> QED
        BY <1>7, <4>2
    <3>6. rowOf'[way[j]] = rowOf[way[j]]
      BY <1>9, <3>4, <3>5
    <3> QED
      BY <1>10, <1>14, <3>3, <3>6 DEF OnTree
  <2>2. 0 \in used
    BY <1>5 DEF Reached
  <2>3. step' \in {"row", "augment"}
    BY <1>2
  <2> QED
    BY <1>2, <1>5, <1>10, <2>1, <2>2, <2>3 DEF Tree
<1>19. Fringe'
  BY <1>2, <1>10 DEF Fringe
<1> QED
  BY <1>2, <1>11, <1>12, <1>13, <1>15, <1>16, <1>17, <1>18, <1>19 DEF HungarianInv, Steps

(* What the scan works with: numbers, rows and columns of the matrix.      *)
ScanFacts(r, m) ==
  /\ Rows = 1..r /\ Columns = 1..m /\ r <= m /\ Slots = 0..m /\ 0..m \subseteq 0..MaxSide
  /\ rowOf \in [0..MaxSide -> Nat] /\ way \in [0..MaxSide -> Nat]
  /\ rowPrice \in [0..MaxSide -> Int] /\ colPrice \in [0..MaxSide -> Int]
  /\ slack \in [0..MaxSide -> Int]
  /\ current \in Rows /\ Reached \subseteq Slots /\ 0 \in Reached /\ at \in Reached /\ used \subseteq Slots
  /\ \A k \in Reached : rowOf[k] \in Rows
  /\ \A i \in Rows, j \in Columns : Mat(i, j) \in 0..Top /\ Excess(i, j) \in Nat
  /\ Top \in Nat /\ Top < Infinity

(* What holds of the search before a turn of its inner loop.               *)
LEMMA ScanFactsHold ==
  ASSUME HungarianInv, step = "scan"
  PROVE  \E r, m \in Nat \ {0} : ScanFacts(r, m) /\ MatrixOf(r, m)
<1>0. MaxSide \in Nat /\ Top \in Nat /\ Top < Infinity
  BY AssociationAssumption DEF AssociationAssumption, Top
<1>1. PICK r \in Nat \ {0}, m \in Nat \ {0} : MatrixOf(r, m)
  BY MatrixSizes DEF HungarianInv
<1>2. /\ SearchTyped /\ Pairing(Slots) /\ Prices /\ current >= 1 /\ 0 \in Reached
      /\ \A j \in Reached : rowOf[j] # 0
  BY DEF HungarianInv, Holding, Fringe, Tree
<1>3. /\ Rows = 1..r /\ Columns = 1..m /\ r <= m /\ m <= MaxSide /\ Cardinality(Rows) = r
      /\ Slots = 0..m /\ \A i \in Rows, j \in Columns : Mat(i, j) \in 0..Top
  BY <1>1 DEF MatrixOf, Slots
<1>4. 0..m \subseteq 0..MaxSide
  BY <1>0, <1>3
<1>5. current \in Rows
  BY <1>2, <1>3 DEF SearchTyped
<1>6. Reached \subseteq Slots /\ at \in Reached
  BY <1>2 DEF SearchTyped, Reached
<1>7. \A k \in Reached : rowOf[k] \in Rows
  <2> SUFFICES ASSUME NEW k \in Reached PROVE rowOf[k] \in Rows
    OBVIOUS
  <2>1. rowOf[k] \in 0..current /\ rowOf[k] # 0
    BY <1>2, <1>6 DEF Pairing
  <2>2. current \in 1..r /\ rowOf[k] \in 1..current
    BY <1>3, <1>5, <2>1
  <2> QED
    BY <1>3, <2>2
<1>8. ASSUME NEW i \in Rows, NEW j \in Columns PROVE Excess(i, j) \in Nat
  <2>1. rowPrice[i] \in Int /\ colPrice[j] \in Int
    <3>1. i \in 0..MaxSide /\ j \in 0..MaxSide
      BY <1>3, <1>4
    <3> QED
      BY <1>2, <3>1 DEF SearchTyped
  <2>2. Mat(i, j) \in Int /\ Excess(i, j) >= 0
    BY <1>2, <1>3 DEF Prices
  <2> QED
    BY <2>1, <2>2 DEF Excess
<1>9. ScanFacts(r, m)
  BY <1>0, <1>2, <1>3, <1>4, <1>5, <1>6, <1>7, <1>8 DEF ScanFacts, SearchTyped
<1> QED
  BY <1>1, <1>9

(* The columns with a row are fewer than the rows, so a column is free.    *)
LEMMA SomeColumnIsFree ==
  ASSUME HungarianInv, step = "scan"
  PROVE  \E j \in Columns \ Reached : rowOf[j] = 0
<1>1. PICK r \in Nat \ {0}, m \in Nat \ {0} : ScanFacts(r, m) /\ MatrixOf(r, m)
  BY ScanFactsHold
<1>2. /\ Pairing(Slots) /\ rowOf[0] = current /\ \A j \in Reached : rowOf[j] # 0
  BY DEF HungarianInv, Holding, Fringe
<1>3. /\ Columns = 1..m /\ Slots = 0..m /\ r <= m /\ current \in 1..r /\ rowOf \in [0..MaxSide -> Nat]
      /\ 0..m \subseteq 0..MaxSide
  BY <1>1 DEF ScanFacts
<1> SUFFICES ASSUME \A j \in Columns : rowOf[j] # 0 PROVE FALSE
  BY <1>2
<1>4. \A j \in 1..m : rowOf[j] \in 1..(current - 1)
  <2> SUFFICES ASSUME NEW j \in 1..m PROVE rowOf[j] \in 1..(current - 1)
    OBVIOUS
  <2>1. rowOf[j] \in 0..current /\ rowOf[j] # 0
    BY <1>2, <1>3 DEF Pairing
  <2>2. rowOf[j] # current
    <3>1. j # 0 /\ 0 \in Slots /\ j \in Slots /\ current # 0
      BY <1>3
    <3> QED
      BY <1>2, <3>1 DEF Pairing
  <2> QED
    BY <1>3, <2>1, <2>2
<1> DEFINE f == [j \in 1..m |-> rowOf[j]]
<1>5. f \in [1..m -> 1..(current - 1)]
  BY <1>4
<1>6. IsFiniteSet(1..m) /\ Cardinality(1..m) = m
  BY FS_Interval
<1>7. current - 1 \in Nat /\ current - 1 < m
  BY <1>3
<1>8. IsFiniteSet(1..(current - 1)) /\ Cardinality(1..(current - 1)) = current - 1
  BY <1>7, FS_Interval
<1>9. PICK x \in 1..m, y \in 1..m : x # y /\ f[x] = f[y]
  <2> HIDE DEF f
  <2> QED
    BY <1>5, <1>6, <1>7, <1>8, FS_PigeonHole, SMTT(60)
<1>10. rowOf[x] = rowOf[y] /\ rowOf[x] # 0 /\ x \in Slots /\ y \in Slots
  BY <1>3, <1>4, <1>9
<1> QED
  BY <1>2, <1>9, <1>10 DEF Pairing

(* The column before j, when the row of the column just reached is cheap.  *)
Through(j) == IF Slacks[j] < slack[j] THEN at ELSE way[j]

(* The slack of a column not reached is the least excess of the rows       *)
(* reached.                                                                *)
LEMMA NearFacts ==
  ASSUME HungarianInv, step = "scan", NEW j \in Columns \ Reached
  PROVE  /\ Slacks[j] \in Nat
         /\ \A k \in Reached : Slacks[j] <= Excess(rowOf[k], j)
         /\ \/ Slacks[j] >= Infinity - rowPrice[current]
            \/ Through(j) \in Reached /\ Slacks[j] = Excess(rowOf[Through(j)], j)
         /\ rowOf[j] = 0 => Slacks[j] < Infinity - rowPrice[current]
<1>1. PICK r \in Nat \ {0}, m \in Nat \ {0} : ScanFacts(r, m) /\ MatrixOf(r, m)
  BY ScanFactsHold
<1>2. /\ rowOf[0] = current /\ Prices
      /\ \A k \in used : slack[j] <= Excess(rowOf[k], j)
      /\ \/ slack[j] >= Infinity - rowPrice[current]
         \/ way[j] \in used /\ slack[j] = Excess(rowOf[way[j]], j)
  BY DEF HungarianInv, Fringe
<1>3. /\ slack[j] \in Int /\ rowPrice[current] \in Int /\ at \in Reached /\ 0 \in Reached
      /\ \A k \in Reached : rowOf[k] \in Rows /\ Excess(rowOf[k], j) \in Nat
  <2>1. j \in 0..MaxSide /\ current \in 0..MaxSide
    BY <1>1 DEF ScanFacts
  <2> QED
    BY <1>1, <2>1 DEF ScanFacts
<1>4. PICK e \in Nat : e = Excess(rowOf[at], j)
  BY <1>3
<1>5. Slacks[j] = IF e < slack[j] THEN e ELSE slack[j]
  BY <1>4 DEF Slacks, Reduced, Excess
<1>6. PICK n \in Int : n = Slacks[j]
  BY <1>3, <1>5
<1>7. \A k \in Reached : n <= Excess(rowOf[k], j)
  <2> SUFFICES ASSUME NEW k \in Reached PROVE n <= Excess(rowOf[k], j)
    OBVIOUS
  <2>1. CASE k = at
    BY <1>3, <1>4, <1>5, <1>6, <2>1
  <2>2. CASE k \in used
    BY <1>2, <1>3, <1>4, <1>5, <1>6, <2>2
  <2> QED
    BY <2>1, <2>2 DEF Reached
<1>8. \/ n >= Infinity - rowPrice[current]
      \/ Through(j) \in Reached /\ n = Excess(rowOf[Through(j)], j)
  <2>1. CASE e < slack[j]
    <3>1. Through(j) = at
      BY <1>5, <2>1 DEF Through
    <3> QED
      BY <1>3, <1>4, <1>5, <1>6, <2>1, <3>1
  <2>2. CASE ~(e < slack[j])
    <3>1. Through(j) = way[j] /\ n = slack[j]
      BY <1>3, <1>5, <1>6, <2>2 DEF Through
    <3>2. used \subseteq Reached
      BY DEF Reached
    <3> QED
      BY <1>2, <3>1, <3>2
  <2> QED
    BY <2>1, <2>2
<1>9. rowPrice[current] < Infinity
  <2>1. PICK free \in Columns \ Reached : rowOf[free] = 0
    BY SomeColumnIsFree
  <2>2. colPrice[free] = 0 /\ Excess(current, free) \in Nat /\ Mat(current, free) \in 0..Top /\ Top \in Nat /\ Top < Infinity
    BY <1>1, <1>2, <2>1 DEF Prices, ScanFacts
  <2>3. Excess(current, free) = Mat(current, free) - rowPrice[current] - 0
    BY <2>2 DEF Excess
  <2> QED
    BY <1>3, <2>2, <2>3 DEF Infinity
<1>10. n \in Nat
  <2>1. CASE n >= Infinity - rowPrice[current]
    BY <1>3, <1>9, <2>1 DEF Infinity
  <2>2. CASE Through(j) \in Reached /\ n = Excess(rowOf[Through(j)], j)
    BY <1>3, <2>2
  <2> QED
    BY <1>8, <2>1, <2>2
<1>11. ASSUME rowOf[j] = 0 PROVE n < Infinity - rowPrice[current]
  <2>1. colPrice[j] = 0 /\ Mat(current, j) \in 0..Top /\ Top \in Nat /\ Top < Infinity
    BY <1>1, <1>2, <1>11 DEF Prices, ScanFacts
  <2>2. n <= Excess(current, j)
    BY <1>2, <1>3, <1>7
  <2>3. Excess(current, j) = Mat(current, j) - rowPrice[current] - 0
    BY <2>1 DEF Excess
  <2> QED
    BY <1>3, <2>1, <2>2, <2>3 DEF Infinity
<1> QED
  BY <1>6, <1>7, <1>8, <1>10, <1>11

(* The nearest column is one that is not reached, and none is nearer.      *)
LEMMA NearestFacts ==
  ASSUME HungarianInv, step = "scan"
  PROVE  /\ Nearest(Slacks) \in Columns \ Reached
         /\ \A k \in Columns \ Reached : Slacks[Nearest(Slacks)] <= Slacks[k]
<1>1. PICK r \in Nat \ {0}, m \in Nat \ {0} : ScanFacts(r, m) /\ MatrixOf(r, m)
  BY ScanFactsHold
<1>2. PICK D : D = Columns \ Reached /\ D \in SUBSET Nat
  <2>1. Columns = 1..m
    BY <1>1 DEF ScanFacts
  <2>2. Columns \ Reached \in SUBSET Nat
    BY <2>1
  <2> QED
    BY <2>2
<1>3. PICK near : near = Slacks
  OBVIOUS
<1>4. DOMAIN near = D /\ \A j \in D : near[j] \in Nat
  BY <1>2, <1>3, NearFacts DEF Slacks
<1>5. D # {}
  BY <1>2, SomeColumnIsFree
<1> DEFINE V == {near[j] : j \in D}
<1>6. PICK v \in V : \A x \in V : v <= x
  <2>1. V \in SUBSET Nat /\ V # {}
    BY <1>4, <1>5
  <2> HIDE DEF V
  <2> QED
    BY <2>1, LeastExists
<1> DEFINE W == {j \in D : near[j] = v}
<1>7. PICK b \in W : \A x \in W : b <= x
  <2>1. W \in SUBSET Nat /\ W # {}
    BY <1>2, <1>6
  <2> HIDE DEF W
  <2> QED
    BY <2>1, LeastExists
<1>8. b \in DOMAIN near /\ \A k \in DOMAIN near : near[b] < near[k] \/ (near[b] = near[k] /\ b <= k)
  <2> SUFFICES ASSUME NEW k \in D PROVE near[b] < near[k] \/ (near[b] = near[k] /\ b <= k)
    BY <1>4
  <2>1. near[b] = v /\ v <= near[k] /\ v \in Nat /\ near[k] \in Nat
    BY <1>4, <1>6
  <2>2. CASE v = near[k]
    BY <1>7, <2>1, <2>2
  <2>3. CASE v # near[k]
    BY <2>1, <2>3
  <2> QED
    BY <2>2, <2>3
<1>9. PICK c : c = Nearest(near)
  OBVIOUS
<1>10. c \in DOMAIN near /\ \A k \in DOMAIN near : near[c] < near[k] \/ (near[c] = near[k] /\ c <= k)
  <2>1. \E j \in DOMAIN near : \A k \in DOMAIN near : near[j] < near[k] \/ (near[j] = near[k] /\ j <= k)
    BY <1>8
  <2> QED
    BY <1>9, <2>1, Zenon DEF Nearest
<1>11. \A k \in D : near[c] <= near[k]
  <2> SUFFICES ASSUME NEW k \in D PROVE near[c] <= near[k]
    OBVIOUS
  <2>1. near[c] \in Nat /\ near[k] \in Nat
    BY <1>4, <1>10
  <2> QED
    BY <1>4, <1>10, <2>1
<1> QED
  BY <1>2, <1>3, <1>4, <1>9, <1>10, <1>11

(* A turn of the inner loop: raising the prices by the least slack keeps   *)
(* every excess at least 0, those on the tree 0, and makes that of the     *)
(* column it reaches 0.                                                    *)
LEMMA HungarianScan ==
  ASSUME HungarianInv, Scan
  PROVE  HungarianInv'
<1>0. step = "scan"
  BY DEF Scan
<1>1. PICK r \in Nat \ {0}, m \in Nat \ {0} : ScanFacts(r, m) /\ MatrixOf(r, m)
  BY <1>0, ScanFactsHold
<1>2. PICK near : near = Slacks
  OBVIOUS
<1>3. PICK best \in Columns \ Reached : best = Nearest(near) /\ \A k \in Columns \ Reached : near[best] <= near[k]
  BY <1>0, <1>2, NearestFacts
<1>4. PICK delta \in Nat : delta = near[best]
  BY <1>0, <1>2, <1>3, NearFacts
<1>5. /\ rowPrice' = RowPrices(delta)
      /\ colPrice' = [j \in 0..MaxSide |-> colPrice[j] - (IF j \in Reached THEN delta ELSE 0)]
      /\ slack' = [j \in 0..MaxSide |-> IF j \in DOMAIN near THEN near[j] - delta ELSE slack[j]]
      /\ way' = [j \in 0..MaxSide |-> IF j \in DOMAIN near /\ near[j] < slack[j] THEN at ELSE way[j]]
      /\ at' = best
      /\ step' = IF rowOf[best] = 0 THEN "augment" ELSE "scan"
      /\ used' = Reached
      /\ UNCHANGED << iou, cost, current, rowOf, left, matches >>
  BY <1>2, <1>3, <1>4 DEF Scan
<1>6. /\ Rows' = Rows /\ Columns' = Columns /\ Slots' = Slots
      /\ \A i, j : Mat(i, j)' = Mat(i, j)
  BY <1>5, SameMatrix
<1>7. DOMAIN near = Columns \ Reached
  BY <1>2 DEF Slacks
<1>8. /\ Rows = 1..r /\ Columns = 1..m /\ r <= m /\ Slots = 0..m /\ 0..m \subseteq 0..MaxSide
      /\ rowOf \in [0..MaxSide -> Nat] /\ way \in [0..MaxSide -> Nat]
      /\ rowPrice \in [0..MaxSide -> Int] /\ colPrice \in [0..MaxSide -> Int]
      /\ slack \in [0..MaxSide -> Int]
      /\ current \in Rows /\ Reached \subseteq Slots /\ 0 \in Reached /\ at \in Reached /\ used \subseteq Slots
      /\ \A k \in Reached : rowOf[k] \in Rows
      /\ \A i \in Rows, j \in Columns : Excess(i, j) \in Nat
  BY <1>1 DEF ScanFacts
<1>9. /\ SearchTyped /\ Pairing(Slots) /\ Prices /\ Shape /\ rowOf[0] = current /\ current >= 1
      /\ \A j \in Columns : rowOf[j] # 0 => Excess(rowOf[j], j) = 0
      /\ \A j \in Reached : rowOf[j] # 0
  BY <1>0 DEF HungarianInv, Holding, Tight, Fringe, Tree, Slots
<1>10. /\ Columns \subseteq 0..MaxSide /\ Rows \subseteq 0..MaxSide /\ Reached \subseteq 0..MaxSide
       /\ Columns \subseteq Slots
  <2>1. 1..r \subseteq 0..m /\ 1..m \subseteq 0..m
    <3>1. r <= m
      BY <1>8
    <3> QED
      BY <3>1
  <2>2. Columns \subseteq Slots /\ Rows \subseteq Slots /\ Slots \subseteq 0..MaxSide
    BY <1>8, <2>1
  <2> QED
    BY <1>8, <2>2
<1> DEFINE RowReached(i) == \E k \in Reached : rowOf[k] = i
(* What the step does to the prices and to what a pair exceeds them by.    *)
<1>11. \A i \in 0..MaxSide : rowPrice'[i] = rowPrice[i] + (IF RowReached(i) THEN delta ELSE 0)
  BY <1>5 DEF RowPrices
<1>12. \A j \in 0..MaxSide : colPrice'[j] = colPrice[j] - (IF j \in Reached THEN delta ELSE 0)
  BY <1>5
<1> HIDE DEF RowReached
<1>13. ASSUME NEW i \in Rows, NEW j \in Columns
       PROVE  Excess(i, j)' = Excess(i, j) - (IF RowReached(i) THEN delta ELSE 0)
                                           + (IF j \in Reached THEN delta ELSE 0)
  <2>1. Mat(i, j)' = Mat(i, j) /\ Mat(i, j) \in 0..Top /\ Top \in Nat
    BY <1>1, <1>6 DEF ScanFacts
  <2>2. /\ rowPrice[i] \in Int /\ colPrice[j] \in Int
        /\ rowPrice'[i] = rowPrice[i] + (IF RowReached(i) THEN delta ELSE 0)
        /\ colPrice'[j] = colPrice[j] - (IF j \in Reached THEN delta ELSE 0)
    BY <1>8, <1>10, <1>11, <1>12
  <2>3. Excess(i, j)' = Mat(i, j) - rowPrice'[i] - colPrice'[j]
    BY <2>1 DEF Excess
  <2> QED
    BY <2>1, <2>2, <2>3 DEF Excess
<1>14. \A k \in Reached : RowReached(rowOf[k]) /\ rowOf[k] \in Rows
  BY <1>8 DEF RowReached
<1>15. ASSUME NEW j \in Columns \ Reached, rowOf[j] # 0 PROVE ~RowReached(rowOf[j])
  BY <1>8, <1>9, <1>10, <1>15, ZenonT(60) DEF RowReached, Pairing
<1>16. ASSUME NEW k \in Reached, NEW j \in Columns
       PROVE  Excess(rowOf[k], j)' = Excess(rowOf[k], j) - (IF j \in Reached THEN 0 ELSE delta)
  <2>1. Excess(rowOf[k], j) \in Nat
    BY <1>8
  <2>2. rowOf'[k] = rowOf[k] /\ Excess(rowOf[k], j)' = Excess(rowOf[k], j) - delta + (IF j \in Reached THEN delta ELSE 0)
    <3>1. PICK i \in Rows : i = rowOf[k]
      BY <1>8
    <3>2. rowOf' = rowOf
      BY <1>5
    <3>3. Excess(i, j)' = Excess(i, j) - delta + (IF j \in Reached THEN delta ELSE 0)
      BY <1>13, <1>14, <3>1
    <3>4. Excess(rowOf[k], j)' = Excess(i, j)'
      BY <3>1, <3>2 DEF Excess
    <3> QED
      BY <3>1, <3>2, <3>3, <3>4
  <2> QED
    BY <2>1, <2>2
<1>17. ASSUME NEW j \in Columns \ Reached
       PROVE  /\ near[j] \in Nat /\ delta <= near[j]
              /\ \A k \in Reached : near[j] <= Excess(rowOf[k], j)
              /\ \/ near[j] >= Infinity - rowPrice[current]
                 \/ way'[j] \in Reached /\ near[j] = Excess(rowOf[way'[j]], j)
              /\ slack'[j] = near[j] - delta
  <2>1. way'[j] = Through(j) /\ slack'[j] = near[j] - delta
    BY <1>2, <1>5, <1>7, <1>10 DEF Through
  <2> QED
    BY <1>0, <1>2, <1>3, <1>4, <2>1, NearFacts
<1>18. way'[best] \in Reached /\ delta = Excess(rowOf[way'[best]], best)
  <2>1. PICK free \in Columns \ Reached : rowOf[free] = 0
    BY <1>0, SomeColumnIsFree
  <2>2. near[free] < Infinity - rowPrice[current] /\ near[free] \in Nat /\ delta <= near[free]
    BY <1>0, <1>2, <1>17, <2>1, NearFacts
  <2>3. rowPrice[current] \in Int
    BY <1>8, <1>10
  <2> QED
    BY <1>4, <1>17, <2>2, <2>3 DEF Infinity
<1>19. Reached' = Reached \cup {best} /\ used' = Reached /\ at' = best
  BY <1>5 DEF Reached
<1>20. Shape'
  <2>1. UNCHANGED << iou, cost >> /\ step # "boxes"
    BY <1>0, <1>5
  <2> QED
    BY <1>9, <2>1 DEF Shape
<1>21. SearchTyped'
  <2>1. rowPrice' \in [0..MaxSide -> Int]
    <3>1. \A i \in 0..MaxSide : rowPrice[i] + (IF \E j \in Reached : rowOf[j] = i THEN delta ELSE 0) \in Int
      <4>1. \A i \in 0..MaxSide : rowPrice[i] \in Int
        BY <1>8
      <4> QED
        BY <4>1
    <3> QED
      BY <1>5, <3>1 DEF RowPrices
  <2>2. colPrice' \in [0..MaxSide -> Int]
    <3>1. \A j \in 0..MaxSide : colPrice[j] - (IF j \in Reached THEN delta ELSE 0) \in Int
      <4>1. \A j \in 0..MaxSide : colPrice[j] \in Int
        BY <1>8
      <4> QED
        BY <4>1
    <3> QED
      BY <1>5, <3>1
  <2>3. slack' \in [0..MaxSide -> Int]
    <3>1. \A j \in 0..MaxSide : (IF j \in DOMAIN near THEN near[j] - delta ELSE slack[j]) \in Int
      <4>1. \A j \in 0..MaxSide : slack[j] \in Int
        BY <1>8
      <4>2. \A j \in DOMAIN near : near[j] \in Nat
        BY <1>7, <1>17
      <4> QED
        BY <4>1, <4>2
    <3> QED
      BY <1>5, <3>1
  <2>4. way' \in [0..MaxSide -> Nat]
    <3>1. at \in Nat
      BY <1>8
    <3> QED
      BY <1>5, <1>8, <3>1
  <2>5. rowOf' \in [0..MaxSide -> Nat]
    BY <1>5, <1>8
  <2>6. current' \in Nat /\ current' <= Cardinality(Rows)' /\ at' \in Slots' /\ used' \subseteq Slots'
    BY <1>5, <1>6, <1>8, <1>9, <1>10 DEF SearchTyped
  <2> QED
    BY <2>1, <2>2, <2>3, <2>4, <2>5, <2>6 DEF SearchTyped
<1>22. Prices'
  <2>1. ASSUME NEW i \in Rows PROVE rowPrice'[i] >= 0
    <3>1. rowPrice[i] \in Int /\ rowPrice[i] >= 0
      BY <1>8, <1>9, <1>10 DEF Prices
    <3> QED
      BY <1>10, <1>11, <3>1
  <2>2. ASSUME NEW j \in Columns PROVE colPrice'[j] <= 0 /\ (rowOf[j] = 0 => colPrice'[j] = 0)
    <3>1. colPrice[j] \in Int /\ colPrice[j] <= 0 /\ (rowOf[j] = 0 => colPrice[j] = 0)
      BY <1>8, <1>9, <1>10 DEF Prices
    <3>2. rowOf[j] = 0 => j \notin Reached
      BY <1>9
    <3>3. colPrice'[j] = colPrice[j] - (IF j \in Reached THEN delta ELSE 0)
      BY <1>10, <1>12
    <3> QED
      BY <3>1, <3>2, <3>3
  <2>3. ASSUME NEW i \in Rows, NEW j \in Columns PROVE Excess(i, j)' >= 0
    <3>1. Excess(i, j) \in Nat
      BY <1>8
    <3>2. CASE RowReached(i) /\ j \notin Reached
      <4>1. PICK k \in Reached : rowOf[k] = i
        BY <3>2 DEF RowReached
      <4>2. near[j] \in Nat /\ delta <= near[j] /\ near[j] <= Excess(i, j)
        BY <1>17, <3>2, <4>1
      <4> QED
        BY <1>13, <3>1, <3>2, <4>2
    <3>3. CASE ~(RowReached(i) /\ j \notin Reached)
      BY <1>13, <3>1, <3>3
    <3> QED
      BY <3>2, <3>3
  <2> QED
    BY <1>5, <1>6, <2>1, <2>2, <2>3 DEF Prices
<1>23. \A j \in Columns : rowOf[j] # 0 => Excess(rowOf[j], j)' = 0
  <2> SUFFICES ASSUME NEW j \in Columns, rowOf[j] # 0 PROVE Excess(rowOf[j], j)' = 0
    OBVIOUS
  <2>1. CASE j \in Reached
    BY <1>9, <1>16, <2>1
  <2>2. CASE j \notin Reached
    <3>1. rowOf[j] \in Rows
      <4>1. rowOf[j] \in 0..current
        BY <1>9, <1>10 DEF Pairing
      <4>2. current \in 1..r /\ Rows = 1..r
        BY <1>8
      <4>3. rowOf[j] \in 1..current
        BY <2>2, <4>1, <4>2
      <4> QED
        BY <4>2, <4>3
    <3>2. PICK i \in Rows : i = rowOf[j]
      BY <3>1
    <3>3. Excess(i, j)' = Excess(i, j) - 0 + 0 /\ Excess(i, j) = 0
      BY <1>9, <1>13, <1>15, <2>2, <3>2
    <3>4. Excess(rowOf[j], j)' = Excess(i, j)'
      BY <1>5, <3>2 DEF Excess
    <3> QED
      BY <3>3, <3>4
  <2> QED
    BY <2>1, <2>2
<1>24. best # 0 /\ best \in Columns /\ best \notin Reached
  BY <1>8
<1>25. Tree'
  <2>1. PICK rank \in [0..MaxSide -> Nat] : \A j \in Reached \ {0} : OnTree(j, rank)
    BY <1>0 DEF HungarianInv, Tree
  <2>2. PICK w \in Reached : w = way'[best]
    BY <1>18
  <2> DEFINE rank2 == [rank EXCEPT ![best] = rank[w] + 1]
  <2>3. rank2 \in [0..MaxSide -> Nat]
    BY <1>10, <2>1
  <2>4. rank2[best] = rank[w] + 1 /\ \A j \in Reached : rank2[j] = rank[j] /\ rank[j] \in Nat
    BY <1>10, <1>24, <2>1
  <2> HIDE DEF rank2
  <2>5. ASSUME NEW j \in (Reached \cup {best}) \ {0} PROVE OnTree(j, rank2)'
    <3>1. CASE j = best
      <4>1. rank2[w] < rank2[best]
        BY <2>2, <2>4
      <4>2. Excess(rowOf[w], best)' = 0
        BY <1>4, <1>16, <1>18, <1>24, <2>2
      <4>3. rowOf'[w] # 0 /\ rowOf' = rowOf
        BY <1>5, <1>9, <2>2
      <4>4. way'[j] = w /\ Excess(rowOf[way[j]], j)' = Excess(rowOf[w], best)'
        BY <2>2, <3>1 DEF Excess
      <4> QED
        BY <1>19, <2>2, <3>1, <4>1, <4>2, <4>3, <4>4 DEF OnTree
    <3>2. CASE j \in Reached \ {0}
      <4>1. OnTree(j, rank)
        BY <2>1, <3>2
      <4>2. way'[j] = way[j]
        BY <1>5, <1>7, <1>10, <3>2
      <4>3. way[j] \in Reached /\ rank[way[j]] < rank[j] /\ rowOf[way[j]] # 0 /\ Excess(rowOf[way[j]], j) = 0
        BY <4>1 DEF OnTree, Reached
      <4>4. PICK w2 \in Reached : w2 = way[j]
        BY <4>3
      <4>5. j \in Columns
        BY <1>8, <3>2
      <4>6. Excess(rowOf[w2], j)' = 0
        BY <1>16, <3>2, <4>3, <4>4, <4>5
      <4>7. rank2[w2] < rank2[j]
        BY <2>4, <3>2, <4>3, <4>4
      <4>8. Excess(rowOf[way[j]], j)' = Excess(rowOf[w2], j)'
        BY <4>2, <4>4 DEF Excess
      <4>9. rowOf'[w2] # 0
        BY <1>5, <4>3, <4>4
      <4> QED
        BY <1>19, <4>2, <4>4, <4>6, <4>7, <4>8, <4>9 DEF OnTree
    <3> QED
      BY <3>1, <3>2
  <2> QED
    BY <1>5, <1>8, <1>9, <1>19, <2>3, <2>5 DEF Tree
<1>26. ASSUME NEW j \in Columns \ Reached'
       PROVE  /\ \A k \in used' : slack'[j] <= Excess(rowOf[k], j)'
              /\ \/ slack'[j] >= Infinity - rowPrice'[current']
                 \/ way'[j] \in used' /\ slack'[j] = Excess(rowOf[way[j]], j)'
  <2>1. j \in Columns \ Reached
    BY <1>19
  <2>2. PICK n \in Nat : n = near[j]
    BY <1>17, <2>1
  <2>3. slack'[j] = n - delta /\ \A k \in Reached : n <= Excess(rowOf[k], j)
    BY <1>17, <2>1, <2>2
  <2>4. \A k \in Reached : Excess(rowOf[k], j) \in Nat /\ Excess(rowOf[k], j)' = Excess(rowOf[k], j) - delta
    BY <1>8, <1>16, <2>1
  <2>5. \A k \in used' : slack'[j] <= Excess(rowOf[k], j)'
    BY <1>19, <2>3, <2>4
  <2>6. rowPrice'[current'] = rowPrice[current] + delta /\ rowPrice[current] \in Int
    <3>1. RowReached(current)
      BY <1>8, <1>9 DEF RowReached
    <3> QED
      BY <1>5, <1>8, <1>10, <1>11, <3>1
  <2>7. CASE n >= Infinity - rowPrice[current]
    <3>1. PICK u \in Int : u = rowPrice[current]
      BY <2>6
    <3>2. n - delta >= Infinity - (u + delta)
      BY <2>7, <3>1 DEF Infinity
    <3> QED
      BY <2>3, <2>5, <2>6, <3>1, <3>2
  <2>8. CASE way'[j] \in Reached /\ n = Excess(rowOf[way'[j]], j)
    <3>1. PICK w \in Reached : w = way'[j]
      BY <2>8
    <3>2. Excess(rowOf[way[j]], j)' = Excess(rowOf[w], j)'
      BY <3>1 DEF Excess
    <3>3. Excess(rowOf[w], j)' = n - delta
      BY <2>4, <2>8, <3>1
    <3>4. way'[j] \in used' /\ slack'[j] = Excess(rowOf[way[j]], j)'
      BY <1>19, <2>3, <3>1, <3>2, <3>3
    <3> QED
      BY <2>5, <3>4
  <2> QED
    BY <1>17, <2>1, <2>2, <2>7, <2>8
<1>27. CASE rowOf[best] = 0
  <2>1. step' = "augment"
    BY <1>5, <1>27
  <2>2. Holding' = Slots \ {best}
    BY <1>6, <1>19, <2>1 DEF Holding
  <2>3. Pairing(Slots \ {best})
    BY <1>9, <1>27 DEF Pairing
  <2>4. Pairing(Holding)'
    BY <1>5, <2>2, <2>3 DEF Pairing
  <2>5. Tight'
    BY <1>5, <1>6, <1>23 DEF Tight
  <2>6. Fringe'
    BY <1>19, <1>24, <2>1 DEF Fringe
  <2> QED
    BY <1>20, <1>21, <1>22, <1>25, <2>1, <2>4, <2>5, <2>6 DEF HungarianInv, Steps
<1>28. CASE rowOf[best] # 0
  <2>1. step' = "scan"
    BY <1>5, <1>28
  <2>2. Holding' = Slots
    BY <1>6, <2>1 DEF Holding
  <2>3. Pairing(Holding)'
    BY <1>5, <1>9, <2>2 DEF Pairing
  <2>4. Tight'
    BY <1>5, <1>6, <1>23 DEF Tight
  <2>5. Fringe'
    <3>1. at' \notin used' /\ rowOf'[0] = current' /\ \A j \in Reached' : rowOf'[j] # 0
      BY <1>5, <1>9, <1>19, <1>24, <1>28
    <3> QED
      BY <1>6, <1>26, <2>1, <3>1 DEF Fringe
  <2> QED
    BY <1>20, <1>21, <1>22, <1>25, <2>1, <2>3, <2>4, <2>5 DEF HungarianInv, Steps
<1> QED
  BY <1>27, <1>28

(* The other steps leave prices and pairing alone.                         *)
LEMMA HungarianRest ==
  ASSUME HungarianInv, Collect \/ StartGreedy \/ MatchGreedy \/ EndGreedy \/ UNCHANGED assocVars
  PROVE  HungarianInv'
<1>1. UNCHANGED << iou, cost, search >>
  BY DEF Collect, StartGreedy, MatchGreedy, EndGreedy, assocVars, search
<1>2. \/ step' = step /\ (step = "greedy" \/ UNCHANGED << left, matches >>)
      \/ step = "row" /\ step' = "greedy"
      \/ step = "greedy" /\ step' = "taken"
      \/ step = "row" /\ step' = "assigned" /\ current = Cardinality(Rows)
  BY DEF Collect, StartGreedy, MatchGreedy, EndGreedy, assocVars
<1>3. /\ Rows' = Rows /\ Columns' = Columns /\ Slots' = Slots
      /\ \A i, j : Mat(i, j)' = Mat(i, j)
  BY <1>1, SameMatrix
<1>4. /\ current' = current /\ rowOf' = rowOf /\ rowPrice' = rowPrice /\ colPrice' = colPrice
      /\ slack' = slack /\ way' = way /\ used' = used /\ at' = at
  BY <1>1 DEF search
<1>5. Reached' = Reached /\ \A i, j : Excess(i, j)' = Excess(i, j)
  BY <1>3, <1>4 DEF Reached, Excess
<1>6. Shape'
  BY <1>1, <1>2 DEF HungarianInv, Shape
<1>7. CASE step = "boxes"
  BY <1>1, <1>2, <1>4, <1>6, <1>7 DEF HungarianInv, Untouched, Steps
<1>8. CASE step # "boxes"
  <2>1. SearchTyped' /\ Prices'
    BY <1>3, <1>4, <1>5, <1>8 DEF HungarianInv, SearchTyped, Prices
  <2>2. Holding' = Holding /\ step' \in Steps /\ step' # "boxes"
    BY <1>2, <1>3, <1>4, <1>8 DEF Holding, HungarianInv, Steps
  <2>3. Pairing(Holding)'
    BY <1>4, <1>8, <2>2 DEF HungarianInv, Pairing
  <2>4. Tight'
    BY <1>3, <1>4, <1>5, <1>8, <2>2 DEF HungarianInv, Tight
  <2>5. CASE step' = step
    <3>1. Tree'
      BY <1>4, <1>5, <1>8, <2>5 DEF HungarianInv, Tree, OnTree
    <3>2. Fringe'
      BY <1>3, <1>4, <1>5, <1>8, <2>5 DEF HungarianInv, Fringe
    <3> QED
      BY <1>3, <1>4, <1>6, <1>8, <2>1, <2>2, <2>3, <2>4, <2>5, <3>1, <3>2 DEF HungarianInv
  <2>6. CASE step' # step
    <3>1. Tree' /\ Fringe'
      BY <1>2, <2>6 DEF Tree, Fringe
    <3> QED
      BY <1>2, <1>3, <1>4, <1>6, <1>8, <2>1, <2>2, <2>3, <2>4, <2>6, <3>1 DEF HungarianInv
  <2> QED
    BY <2>5, <2>6
<1> QED
  BY <1>7, <1>8

(* Every step keeps the invariant.                                         *)
LEMMA HungarianNext == HungarianInv /\ [AssocNext]_assocVars => HungarianInv'
  BY HungarianPrepare, HungarianStartRow, HungarianScan, HungarianAugment, HungarianRest
     DEF AssocNext

-----------------------------------------------------------------------------
(***************************************************************************)
(* The prices prove the assignment optimal.                                *)
(***************************************************************************)
PairOf(i, j) == IF Turned THEN << j, i >> ELSE << i, j >>
\* The pairs of an assignment of columns to rows.
PairsOf(f) == {IF Turned THEN << f[i], i >> ELSE << i, f[i] >> : i \in Rows}

(* The pairs of an injection are one-to-one, as many as the rows, and cost *)
(* the sum of the matrix over the rows.                                    *)
LEMMA CostOfInjection ==
  ASSUME Shape, NEW f \in [Rows -> Columns], \A x, y \in Rows : f[x] = f[y] => x = y
  PROVE  /\ OneToOne(PairsOf(f))
         /\ Cardinality(PairsOf(f)) = Cardinality(Rows)
         /\ \E h : IsSum([i \in Rows |-> Mat(i, f[i])], Rows, h) /\ TotalCost(PairsOf(f)) = h[Rows]
<1>1. PICK r \in Nat \ {0}, m \in Nat \ {0} : MatrixOf(r, m)
  BY MatrixSizes
<1>2. IsFiniteSet(Rows) /\ \A i \in Rows, j \in Columns : Mat(i, j) \in Int
  <2>1. \A i \in Rows, j \in Columns : Mat(i, j) \in 0..Top
    BY <1>1 DEF MatrixOf
  <2> QED
    BY <1>1, <2>1 DEF MatrixOf
<1> DEFINE D == PairsOf(f)
           b == [i \in Rows |-> IF Turned THEN << f[i], i >> ELSE << i, f[i] >>]
           c == [i \in Rows |-> Mat(i, f[i])]
           d == [p \in D |-> cost[p[1]][p[2]]]
<1>3. b \in [Rows -> D] /\ \A p \in D : \E i \in Rows : b[i] = p
  BY DEF PairsOf
<1>4. \A x, y \in Rows : b[x] = b[y] => x = y
  <2> SUFFICES ASSUME NEW x \in Rows, NEW y \in Rows, b[x] = b[y] PROVE x = y
    OBVIOUS
  <2> QED
    BY <1>3
<1>5. OneToOne(D)
  <2> SUFFICES ASSUME NEW x \in Rows, NEW y \in Rows, b[x] # b[y]
               PROVE  b[x][1] # b[y][1] /\ b[x][2] # b[y][2]
    BY <1>3 DEF OneToOne
  <2>1. x # y /\ f[x] # f[y]
    OBVIOUS
  <2> QED
    BY <2>1
<1>6. \A i \in Rows : d[b[i]] = Mat(i, f[i]) /\ cost[b[i][1]][b[i][2]] = Mat(i, f[i])
  <2> SUFFICES ASSUME NEW i \in Rows PROVE d[b[i]] = Mat(i, f[i]) /\ cost[b[i][1]][b[i][2]] = Mat(i, f[i])
    OBVIOUS
  <2>1. cost[b[i][1]][b[i][2]] = Mat(i, f[i])
    BY DEF Mat
  <2> QED
    BY <1>3, <2>1
<1>7. \A p \in D : cost[p[1]][p[2]] \in Int
  <2> SUFFICES ASSUME NEW p \in D PROVE cost[p[1]][p[2]] \in Int
    OBVIOUS
  <2>1. PICK i \in Rows : b[i] = p
    BY <1>3
  <2>2. cost[b[i][1]][b[i][2]] = Mat(i, f[i]) /\ f[i] \in Columns
    BY <1>6
  <2>3. cost[b[i][1]][b[i][2]] \in Int
    <3>1. Mat(i, f[i]) \in Int
      BY <1>2, <2>2
    <3> HIDE DEF b
    <3> QED
      BY <2>2, <3>1
  <2> HIDE DEF b
  <2> QED
    BY <2>1, <2>3
<1>8. b \in Surjection(Rows, D) /\ b \in Injection(Rows, D)
  BY <1>3, <1>4 DEF Surjection, Injection, IsInjective
<1> HIDE DEF b
<1>9. IsFiniteSet(D) /\ Cardinality(D) = Cardinality(Rows)
  BY <1>2, <1>8, FS_Surjection
<1>10. PICK h : IsSum(d, D, h) /\ TotalCost(D) = h[D]
  BY <1>7, <1>9, TotalCostIsSum
<1>11. c \in [Rows -> Int] /\ d \in [D -> Int]
  BY <1>2, <1>7
<1>12. PICK g : IsSum(c, Rows, g)
  BY <1>2, <1>11, SumExists
<1>13. g[Rows] = h[{b[x] : x \in Rows}]
  <2>1. \A x \in Rows : c[x] = d[b[x]]
    BY <1>6
  <2> HIDE DEF c, d, D
  <2>2. b \in [Rows -> D]
    BY <1>3
  <2>3. IsFiniteSet(Rows)
    BY <1>2
  <2>4. c \in [Rows -> Int]
    BY <1>11
  <2>5. d \in [D -> Int]
    BY <1>11
  <2>6. IsSum(c, Rows, g)
    BY <1>12
  <2>7. IsSum(d, D, h)
    BY <1>10
  <2> QED
    BY ONLY <1>4, <2>1, <2>2, <2>3, <2>4, <2>5, <2>6, <2>7, SumRenamed
<1>14. {b[x] : x \in Rows} = D
  BY <1>3
<1> QED
  BY <1>5, <1>9, <1>10, <1>12, <1>13, <1>14

(* Weak duality: with prices that no pair undercuts and that the           *)
(* assignment meets, no other assignment costs less.                       *)
LEMMA PricesProveOptimal ==
  ASSUME Shape, SearchTyped, Pairing(Columns), Prices, current = Cardinality(Rows), step # "boxes",
         \A j \in Columns : rowOf[j] # 0 => Excess(rowOf[j], j) = 0
  PROVE  /\ OneToOne(Assignment)
         /\ Cardinality(Assignment) = Cardinality(Rows)
         /\ \A f \in Injection(Rows, Columns) : TotalCost(Assignment) <= TotalCost(PairsOf(f))
<1>1. PICK r \in Nat \ {0}, m \in Nat \ {0} : MatrixOf(r, m)
  BY MatrixSizes
<1>2. /\ Rows = 1..r /\ Columns = 1..m /\ r <= m /\ m <= MaxSide /\ current = r
      /\ IsFiniteSet(Rows) /\ IsFiniteSet(Columns) /\ Top \in Nat
      /\ \A i \in Rows, j \in Columns : Mat(i, j) \in Int
  <2>1. Top \in Nat
    BY AssociationAssumption DEF AssociationAssumption, Top
  <2>2. \A i \in Rows, j \in Columns : Mat(i, j) \in 0..Top
    BY <1>1 DEF MatrixOf
  <2> QED
    BY <1>1, <2>1, <2>2 DEF MatrixOf
<1>3. MaxSide \in Nat /\ Rows \subseteq 0..MaxSide /\ Columns \subseteq 0..MaxSide
  <2>1. MaxSide \in Nat /\ 1..r \subseteq 0..MaxSide /\ 1..m \subseteq 0..MaxSide
    <3>1. MaxSide \in Nat /\ r <= m /\ m <= MaxSide
      BY <1>2, AssociationAssumption DEF AssociationAssumption
    <3> QED
      BY <3>1
  <2> QED
    BY <1>2, <2>1
<1>4. /\ \A i \in Rows : rowPrice[i] \in Int
      /\ \A j \in Columns : colPrice[j] \in Int /\ rowOf[j] \in Nat
  BY <1>3 DEF SearchTyped
<1>5. /\ \A j \in Columns : rowOf[j] \in 0..r
      /\ \A j, k \in Columns : rowOf[j] = rowOf[k] /\ rowOf[j] # 0 => j = k
      /\ \A i \in Rows : \E j \in Columns : rowOf[j] = i
  BY <1>2 DEF Pairing
<1> DEFINE a == [i \in Rows |-> CHOOSE j \in Columns : rowOf[j] = i]
<1>6. a \in [Rows -> Columns] /\ \A i \in Rows : rowOf[a[i]] = i
  BY <1>5
<1> HIDE DEF a
<1>7. \A x, y \in Rows : a[x] = a[y] => x = y
  BY <1>6
<1>8. \A i \in Rows, j \in Columns : rowOf[j] = i => a[i] = j
  <2> SUFFICES ASSUME NEW i \in Rows, NEW j \in Columns, rowOf[j] = i PROVE a[i] = j
    OBVIOUS
  <2>1. a[i] \in Columns /\ rowOf[a[i]] = i /\ i # 0
    <3>1. i # 0
      BY <1>2
    <3> QED
      BY <1>6, <3>1
  <2> QED
    BY <1>5, <2>1
<1>9. Assignment = PairsOf(a)
  <2>1. CASE Turned
    <3>1. Tracks = Columns /\ Detected = Rows
      BY <2>1 DEF Rows, Columns
    <3>2. Assignment = {pair \in Columns \X Rows : rowOf[pair[1]] = pair[2]}
      BY <2>1, <3>1 DEF Assignment
    <3>3. PairsOf(a) = {<< a[i], i >> : i \in Rows}
      BY <2>1 DEF PairsOf
    <3>4. ASSUME NEW p \in Columns \X Rows, rowOf[p[1]] = p[2] PROVE p \in {<< a[i], i >> : i \in Rows}
      <4>1. p[2] \in Rows /\ p[1] \in Columns /\ p = << p[1], p[2] >>
        OBVIOUS
      <4>2. a[p[2]] = p[1]
        BY <1>8, <3>4, <4>1
      <4> QED
        BY <4>1, <4>2
    <3>5. ASSUME NEW i \in Rows
          PROVE  << a[i], i >> \in Columns \X Rows /\ rowOf[<< a[i], i >>[1]] = << a[i], i >>[2]
      BY <1>6
    <3> QED
      BY <3>2, <3>3, <3>4, <3>5
  <2>2. CASE ~Turned
    <3>1. Tracks = Rows /\ Detected = Columns
      BY <2>2 DEF Rows, Columns
    <3>2. Assignment = {pair \in Rows \X Columns : rowOf[pair[2]] = pair[1]}
      BY <2>2, <3>1 DEF Assignment
    <3>3. PairsOf(a) = {<< i, a[i] >> : i \in Rows}
      BY <2>2 DEF PairsOf
    <3>4. ASSUME NEW p \in Rows \X Columns, rowOf[p[2]] = p[1] PROVE p \in {<< i, a[i] >> : i \in Rows}
      <4>1. p[1] \in Rows /\ p[2] \in Columns /\ p = << p[1], p[2] >>
        OBVIOUS
      <4>2. a[p[1]] = p[2]
        BY <1>8, <3>4, <4>1
      <4> QED
        BY <4>1, <4>2
    <3>5. ASSUME NEW i \in Rows
          PROVE  << i, a[i] >> \in Rows \X Columns /\ rowOf[<< i, a[i] >>[2]] = << i, a[i] >>[1]
      BY <1>6
    <3> QED
      BY <3>2, <3>3, <3>4, <3>5
  <2> QED
    BY <2>1, <2>2
<1>10. ASSUME NEW f \in Injection(Rows, Columns)
       PROVE  TotalCost(PairsOf(a)) <= TotalCost(PairsOf(f))
  <2>1. f \in [Rows -> Columns] /\ \A x, y \in Rows : f[x] = f[y] => x = y
    BY DEF Injection, IsInjective
  <2> DEFINE ca == [i \in Rows |-> Mat(i, a[i])]
             cf == [i \in Rows |-> Mat(i, f[i])]
             va == [i \in Rows |-> colPrice[a[i]]]
             vf == [i \in Rows |-> colPrice[f[i]]]
             v  == [j \in Columns |-> colPrice[j]]
  <2>0. IsFiniteSet(Rows)
    BY <1>2
  <2>2. PICK sa : IsSum(ca, Rows, sa) /\ TotalCost(PairsOf(a)) = sa[Rows]
    BY <1>6, <1>7, CostOfInjection
  <2>3. PICK sf : IsSum(cf, Rows, sf) /\ TotalCost(PairsOf(f)) = sf[Rows]
    BY <2>1, CostOfInjection
  <2>4. /\ ca \in [Rows -> Int] /\ cf \in [Rows -> Int]
        /\ va \in [Rows -> Int] /\ vf \in [Rows -> Int] /\ v \in [Columns -> Int]
    BY <1>2, <1>4, <1>6, <2>1
  <2>5. \A i \in Rows : va[i] = v[a[i]] /\ vf[i] = v[f[i]]
    BY <1>6, <2>1
  <2>6. \A i \in Rows : ca[i] - va[i] <= cf[i] - vf[i]
    <3> SUFFICES ASSUME NEW i \in Rows
                 PROVE  Mat(i, a[i]) - colPrice[a[i]] <= Mat(i, f[i]) - colPrice[f[i]]
      OBVIOUS
    <3>1. a[i] \in Columns /\ f[i] \in Columns /\ rowOf[a[i]] = i /\ i # 0
      BY <1>2, <1>6, <2>1, SMTT(60)
    <3>2. Excess(i, a[i]) = 0
      BY <3>1
    <3>3. Excess(i, f[i]) >= 0
      BY <3>1 DEF Prices
    <3>4. /\ Mat(i, a[i]) \in Int /\ colPrice[a[i]] \in Int /\ rowPrice[i] \in Int
          /\ Mat(i, f[i]) \in Int /\ colPrice[f[i]] \in Int
      BY <1>2, <1>4, <3>1
    <3> QED
      BY <3>2, <3>3, <3>4 DEF Excess
  <2>7. \A j \in Columns : v[j] <= 0 /\ (rowOf[j] = 0 => v[j] = 0)
    BY DEF Prices
  <2> HIDE DEF ca, cf, va, vf, v
  <2>8. PICK ta : IsSum(va, Rows, ta)
    BY <1>2, <2>4, SumExists
  <2>9. PICK tf : IsSum(vf, Rows, tf)
    BY <1>2, <2>4, SumExists
  <2>10. PICK t : IsSum(v, Columns, t)
    BY <1>2, <2>4, SumExists
  <2> DEFINE Ia == {a[i] : i \in Rows}
             If == {f[i] : i \in Rows}
  <2>11. ta[Rows] = t[Ia]
    <3>1. a \in [Rows -> Columns]
      BY <1>6
    <3>2. \A x, y \in Rows : a[x] = a[y] => x = y
      BY <1>7
    <3>3. \A x \in Rows : va[x] = v[a[x]]
      BY <2>5
    <3>4. va \in [Rows -> Int]
      BY <2>4
    <3>5. v \in [Columns -> Int]
      BY <2>4
    <3> QED
      BY ONLY <2>0, <2>8, <2>10, <3>1, <3>2, <3>3, <3>4, <3>5, SumRenamed
  <2>12. tf[Rows] = t[If]
    <3>1. f \in [Rows -> Columns]
      BY <2>1
    <3>2. \A x, y \in Rows : f[x] = f[y] => x = y
      BY <2>1
    <3>3. \A x \in Rows : vf[x] = v[f[x]]
      BY <2>5
    <3>4. vf \in [Rows -> Int]
      BY <2>4
    <3>5. v \in [Columns -> Int]
      BY <2>4
    <3> QED
      BY ONLY <2>0, <2>9, <2>10, <3>1, <3>2, <3>3, <3>4, <3>5, SumRenamed
  <2>13. Ia \in SUBSET Columns /\ If \in SUBSET Columns
    BY <1>6, <2>1
  <2>14. \A j \in Columns \ Ia : v[j] = 0
    <3> SUFFICES ASSUME NEW j \in Columns, rowOf[j] # 0 PROVE j \in Ia
      BY <2>7
    <3>1. rowOf[j] \in Rows
      <4>1. rowOf[j] \in 1..r
        BY <1>5
      <4> QED
        BY <1>2, <4>1
    <3> QED
      BY <1>8, <3>1
  <2> HIDE DEF Ia, If
  <2>15. t[Columns] = t[Ia]
    <3>1. \A j \in Columns \ Ia : v[j] <= 0
      BY <2>7
    <3>2. IsFiniteSet(Columns)
      BY <1>2
    <3>3. v \in [Columns -> Int]
      BY <2>4
    <3>4. Ia \in SUBSET Columns
      BY <2>13
    <3> QED
      BY ONLY <2>10, <2>14, <3>1, <3>2, <3>3, <3>4, SumOfFewer
  <2>16. t[Columns] <= t[If]
    <3>1. \A j \in Columns \ If : v[j] <= 0
      BY <2>7
    <3>2. IsFiniteSet(Columns)
      BY <1>2
    <3>3. v \in [Columns -> Int]
      BY <2>4
    <3>4. If \in SUBSET Columns
      BY <2>13
    <3> QED
      BY ONLY <2>10, <3>1, <3>2, <3>3, <3>4, SumOfFewer
  <2>17. sa[Rows] - ta[Rows] <= sf[Rows] - tf[Rows]
    <3>1. ca \in [Rows -> Int]
      BY <2>4
    <3>2. cf \in [Rows -> Int]
      BY <2>4
    <3>3. va \in [Rows -> Int]
      BY <2>4
    <3>4. vf \in [Rows -> Int]
      BY <2>4
    <3>5. IsSum(ca, Rows, sa) /\ IsSum(cf, Rows, sf)
      BY <2>2, <2>3
    <3> QED
      BY ONLY <2>0, <2>6, <2>8, <2>9, <3>1, <3>2, <3>3, <3>4, <3>5, SumsCompare
  <2>18. sa[Rows] \in Int /\ sf[Rows] \in Int /\ ta[Rows] \in Int /\ tf[Rows] \in Int
    BY <2>2, <2>3, <2>8, <2>9 DEF IsSum
  <2> QED
    BY <2>2, <2>3, <2>11, <2>12, <2>15, <2>16, <2>17, <2>18
<1>11. OneToOne(PairsOf(a)) /\ Cardinality(PairsOf(a)) = Cardinality(Rows)
  BY <1>6, <1>7, CostOfInjection
<1> QED
  BY <1>9, <1>10, <1>11

(* When the search has ended, its prices prove the assignment optimal.     *)
LEMMA HungarianIsOptimal == HungarianInv => AssignmentIsOptimal
<1> SUFFICES ASSUME HungarianInv, step = "assigned"
             PROVE  /\ OneToOne(Assignment)
                    /\ Cardinality(Assignment) = Cardinality(Rows)
                    /\ \A f \in Injection(Rows, Columns) : TotalCost(Assignment) <= TotalCost(PairsOf(f))
  BY DEF AssignmentIsOptimal, PairsOf
<1>1. /\ Shape /\ SearchTyped /\ Pairing(Columns) /\ Prices /\ current = Cardinality(Rows)
      /\ \A j \in Columns : rowOf[j] # 0 => Excess(rowOf[j], j) = 0
  BY DEF HungarianInv, Holding, Tight
<1> QED
  BY <1>1, PricesProveOptimal
-----------------------------------------------------------------------------
(***************************************************************************)
(* The greedy matching.                                                    *)
(***************************************************************************)
Pairs == Tracks \X Detected
OverlapOf(pair) == iou[pair[1]][pair[2]]
\* A pair that shares a track or a detection with a match that overlaps as
\* much.
Settled(pair) == \E m \in matches : /\ m[1] = pair[1] \/ m[2] = pair[2]
                                    /\ OverlapOf(m) >= OverlapOf(pair)

\* While it runs: the pairs left are free of every match, and every pair
\* above the threshold is left or settled by a match that overlaps as much.
GreedyInv ==
  /\ step \in {"boxes", "row", "scan", "augment"} => matches = {}
  /\ step \in {"greedy", "taken"} =>
       /\ left \subseteq Pairs /\ matches \subseteq Pairs /\ OneToOne(matches)
       /\ \A m \in matches, pair \in left : Free(m, pair)
       /\ \A pair \in Pairs : OverlapOf(pair) >= Threshold => pair \in left \/ Settled(pair)
  /\ step = "taken" => left = {}

(* Overlaps can be compared.                                               *)
LEMMA OverlapsAreNumbers == Shape => \A pair \in Pairs : OverlapOf(pair) \in Int
<1> SUFFICES ASSUME Shape, NEW pair \in Pairs PROVE OverlapOf(pair) \in Int
  OBVIOUS
<1>1. PICK n \in Nat \ {0}, k \in Nat \ {0} : iou \in [1..n -> [1..k -> 0..MaxIou]]
  BY DEF Shape
<1>2. Tracks = 1..n /\ iou[1] \in [1..k -> 0..MaxIou]
  BY <1>1 DEF Tracks
<1>3. Detected = 1..k
  BY <1>2 DEF Detected
<1>4. pair[1] \in 1..n /\ pair[2] \in 1..k
  BY <1>2, <1>3 DEF Pairs
<1>5. iou[pair[1]] \in [1..k -> 0..MaxIou]
  BY <1>1, <1>4
<1>6. iou[pair[1]][pair[2]] \in 0..MaxIou /\ MaxIou \in Nat
  BY <1>4, <1>5, AssociationAssumption DEF AssociationAssumption
<1> QED
  BY <1>6 DEF OverlapOf

(* Taking the pair that overlaps most settles every pair that goes with it. *)
LEMMA GreedyStep == Shape /\ GreedyInv /\ MatchGreedy => GreedyInv'
<1> SUFFICES ASSUME Shape, GreedyInv, step = "greedy", NEW pair \in left,
                    \A other \in left : OverlapOf(other) <= OverlapOf(pair),
                    left' = {other \in left : Free(pair, other)},
                    matches' = matches \cup {pair},
                    UNCHANGED << step, iou, cost, search >>
             PROVE  GreedyInv'
  BY DEF MatchGreedy, OverlapOf
<1>1. /\ left \subseteq Pairs /\ matches \subseteq Pairs /\ OneToOne(matches)
      /\ \A m \in matches, x \in left : Free(m, x)
      /\ \A x \in Pairs : OverlapOf(x) >= Threshold => x \in left \/ Settled(x)
  BY DEF GreedyInv
<1>2. step' = "greedy" /\ iou' = iou /\ Tracks' = Tracks /\ Detected' = Detected /\ Pairs' = Pairs
  BY DEF Tracks, Detected, Pairs
<1>3. \A x : OverlapOf(x)' = OverlapOf(x)
  BY <1>2 DEF OverlapOf
<1>4. (left \subseteq Pairs)' /\ (matches \subseteq Pairs)'
  BY <1>1, <1>2
<1>5. OneToOne(matches)'
  <2> SUFFICES ASSUME NEW a \in matches', NEW b \in matches', a # b PROVE a[1] # b[1] /\ a[2] # b[2]
    BY DEF OneToOne
  <2>1. CASE a \in matches /\ b \in matches
    BY <1>1, <2>1 DEF OneToOne
  <2>2. CASE a \in matches /\ b = pair
    BY <1>1, <2>2 DEF Free
  <2>3. CASE a = pair /\ b \in matches
    BY <1>1, <2>3 DEF Free
  <2> QED
    BY <2>1, <2>2, <2>3
<1>6. (\A m \in matches, x \in left : Free(m, x))'
  <2> SUFFICES ASSUME NEW m \in matches', NEW x \in left' PROVE Free(m, x)
    BY DEF Free
  <2> QED
    BY <1>1
<1>7. (\A x \in Pairs : OverlapOf(x) >= Threshold => x \in left \/ Settled(x))'
  <2> SUFFICES ASSUME NEW x \in Pairs, OverlapOf(x) >= Threshold, x \notin left' PROVE Settled(x)'
    <3>1. \A x \in Pairs : OverlapOf(x) >= Threshold => x \in left' \/ Settled(x)'
      OBVIOUS
    <3> QED
      BY <1>2, <1>3, <3>1
  <2>1. CASE x \in left
    <3>1. x[1] = pair[1] \/ x[2] = pair[2]
      BY <2>1 DEF Free
    <3>2. OverlapOf(pair) >= OverlapOf(x)
      BY <1>1, <2>1, OverlapsAreNumbers
    <3>3. pair \in matches' /\ (pair[1] = x[1] \/ pair[2] = x[2]) /\ OverlapOf(pair)' >= OverlapOf(x)'
      BY <1>3, <3>1, <3>2
    <3> QED
      BY <3>3 DEF Settled
  <2>2. CASE x \notin left
    <3>1. PICK m \in matches : (m[1] = x[1] \/ m[2] = x[2]) /\ OverlapOf(m) >= OverlapOf(x)
      BY <1>1, <2>2 DEF Settled
    <3>2. m \in matches' /\ OverlapOf(m)' >= OverlapOf(x)'
      BY <1>3, <3>1
    <3> QED
      BY <3>1, <3>2 DEF Settled
  <2> QED
    BY <2>1, <2>2
<1> QED
  BY <1>2, <1>4, <1>5, <1>6, <1>7 DEF GreedyInv

(* Every step keeps the invariant of the greedy matching.                  *)
LEMMA GreedyNext == Shape /\ GreedyInv /\ [AssocNext]_assocVars => GreedyInv'
<1> SUFFICES ASSUME Shape, GreedyInv, [AssocNext]_assocVars PROVE GreedyInv'
  OBVIOUS
<1>1. CASE Prepare
  BY <1>1 DEF Prepare, GreedyInv
<1>2. CASE StartRow
  BY <1>2 DEF StartRow, GreedyInv
<1>3. CASE Scan
  <2>1. step = "scan" /\ step' \in {"augment", "scan"} /\ matches' = matches
    BY <1>3 DEF Scan
  <2> QED
    BY <2>1 DEF GreedyInv
<1>4. CASE Augment
  <2>1. step = "augment" /\ step' \in {"augment", "row"} /\ matches' = matches
    BY <1>4 DEF Augment
  <2> QED
    BY <2>1 DEF GreedyInv
<1>5. CASE Collect
  BY <1>5 DEF Collect, GreedyInv
<1>6. CASE StartGreedy
  <2>1. /\ step = "row" /\ step' = "greedy" /\ matches' = {} /\ iou' = iou
        /\ left' = {pair \in Pairs : OverlapOf(pair) >= Threshold}
    BY <1>6 DEF StartGreedy, GreedyInv, Pairs, OverlapOf
  <2>2. Pairs' = Pairs /\ \A pair : OverlapOf(pair)' = OverlapOf(pair)
    BY <2>1 DEF Pairs, Tracks, Detected, OverlapOf
  <2> QED
    BY <2>1, <2>2 DEF GreedyInv, OneToOne
<1>7. CASE MatchGreedy
  BY <1>7, GreedyStep
<1>8. CASE EndGreedy
  <2>1. step = "greedy" /\ left = {} /\ step' = "taken" /\ UNCHANGED << iou, left, matches >>
    BY <1>8 DEF EndGreedy
  <2> QED
    BY <2>1 DEF GreedyInv, OneToOne, Free, Settled, Pairs, Tracks, Detected, OverlapOf
<1>9. CASE UNCHANGED assocVars
  BY <1>9 DEF assocVars, GreedyInv, OneToOne, Free, Settled, Pairs, Tracks, Detected, OverlapOf
<1> QED
  BY <1>1, <1>2, <1>3, <1>4, <1>5, <1>6, <1>7, <1>8, <1>9 DEF AssocNext

(* With no pair left, every pair above the threshold is settled.           *)
LEMMA GreedyIsStableNow == GreedyInv => GreedyIsStable
  BY DEF GreedyInv, GreedyIsStable, Settled, Pairs, OverlapOf

\* AssociationIsBest (association.cpp, demo_tracker.cpp): the Hungarian
\* assignment is one-to-one and the cheapest there is, whatever the costs,
\* and the greedy one leaves no pair that would be better off together.
THEOREM AssociationIsBestHolds == AssocSpec => []AssociationIsBest
<1>1. AssocInit => HungarianInv /\ GreedyInv
  <2>1. AssocInit => GreedyInv
    BY DEF AssocInit, GreedyInv
  <2> QED
    BY <2>1, HungarianInit
<1>2. HungarianInv /\ GreedyInv /\ [AssocNext]_assocVars => (HungarianInv /\ GreedyInv)'
  <2>1. HungarianInv => Shape
    BY DEF HungarianInv
  <2> QED
    BY <2>1, HungarianNext, GreedyNext
<1>3. HungarianInv /\ GreedyInv => AssociationIsBest
  BY HungarianIsOptimal, GreedyIsStableNow DEF AssociationIsBest
<1> QED
  BY <1>1, <1>2, <1>3, PTL DEF AssocSpec

-----------------------------------------------------------------------------
(***************************************************************************)
(* ByteTracker.                                                            *)
(***************************************************************************)
(* The tracker's own frame number is that of the last frame given to it,   *)
(* except that frame 0 counts as 1.                                        *)
NumbersFollow ==
  /\ given = -1 => frameId = 0
  /\ given = 0 => frameId = 1
  /\ given > 0 => frameId = given

\* The inductive invariant of the tracker.
TrackerIInv == TrackerTypeOK /\ NumbersFollow /\ TracksAreConsistent

(* What the other actions of an update leave Advance: the tracks that are  *)
(* started are new ones, all of them are seen, and so are some old ones.   *)
SeenAndBorn(seen, born) ==
  /\ born \cup seen \subseteq Ids
  /\ \E n \in Nat : /\ born = nextTrackId..(nextTrackId + n - 1)
                    /\ nextTrackId + n - 1 <= MaxTracks
                    /\ nextTrackId' = nextTrackId + n
  /\ born \subseteq seen
  /\ seen \subseteq tracked \cup lost \cup born

(* The detections of an update: all that may start a track are taken, and  *)
(* one that is taken belongs to a track that was seen.                     *)
Taken(seen) ==
  /\ detections' \in [Dets -> Kinds]
  /\ takenBy' \in [Dets -> Ids \cup {0}]
  /\ \A d \in Dets : detections'[d] = "new" => takenBy'[d] # 0
  /\ \A d \in Dets : takenBy'[d] # 0 => takenBy'[d] \in seen
-----------------------------------------------------------------------------
(* A pairing is one-to-one from some of the tracks to the detections.      *)
LEMMA PairingFacts ==
  ASSUME NEW T, NEW D, NEW m \in Pairings(T, D)
  PROVE  DOMAIN m \subseteq T /\ \A t \in DOMAIN m : m[t] \in D
  BY DEF Pairings, Injection

(* A bijection reaches all of its second set and nothing else.             *)
LEMMA BijectionFacts ==
  ASSUME NEW S, NEW T, NEW b \in Bijection(S, T)
  PROVE  Range(b) = T /\ DOMAIN b = S
  BY DEF Bijection, Injection, Surjection, Range

(* Every update is an Advance of that kind.                                *)
LEMMA UpdateAdvances ==
  ASSUME TrackerIInv, NEW f \in Int, Update(f)
  PROVE  \E seen, born : Advance(f, seen, born) /\ SeenAndBorn(seen, born) /\ Taken(seen)
<1> DEFINE Good(dets) == {d \in Dets : dets[d] \in {"high", "new"}}
           Weak(dets) == {d \in Dets : dets[d] = "low"}
           Starting(dets, high) == {d \in Dets : dets[d] = "new"} \ Range(high)
           Rest(dets, high, low, n, born) ==
             /\ nextTrackId + n - 1 <= MaxTracks
             /\ Advance(f, DOMAIN high \cup DOMAIN low \cup Range(born), Range(born))
             /\ nextTrackId' = nextTrackId + n
             /\ detections' = dets
             /\ takenBy' = [d \in Dets |->
                              LET by == Taker(high, low, born, d)
                              IN IF by = {} THEN 0 ELSE CHOOSE t \in by : TRUE]
<1>1. PICK dets \in [Dets -> Kinds] :
        \E high \in Pairings(tracked \cup lost, Good(dets)) :
        \E low \in Pairings(tracked \ DOMAIN high, Weak(dets)) :
        \E n \in 0..MaxDets :
        \E born \in Bijection(Starting(dets, high), nextTrackId..(nextTrackId + n - 1)) :
          Rest(dets, high, low, n, born)
  BY Zenon DEF Update
<1>2. PICK high \in Pairings(tracked \cup lost, Good(dets)) :
        \E low \in Pairings(tracked \ DOMAIN high, Weak(dets)) :
        \E n \in 0..MaxDets :
        \E born \in Bijection(Starting(dets, high), nextTrackId..(nextTrackId + n - 1)) :
          Rest(dets, high, low, n, born)
  BY <1>1, Zenon
<1>3. PICK low \in Pairings(tracked \ DOMAIN high, Weak(dets)), n \in 0..MaxDets :
        \E born \in Bijection(Starting(dets, high), nextTrackId..(nextTrackId + n - 1)) :
          Rest(dets, high, low, n, born)
  BY <1>2, Zenon
<1>4. PICK born \in Bijection(Starting(dets, high), nextTrackId..(nextTrackId + n - 1)) :
        Rest(dets, high, low, n, born)
  BY <1>3, Zenon
<1> DEFINE seen == DOMAIN high \cup DOMAIN low \cup Range(born)
<1>5. DOMAIN high \subseteq tracked \cup lost /\ DOMAIN low \subseteq tracked \cup lost
  <2>1. DOMAIN high \subseteq tracked \cup lost
    BY PairingFacts
  <2>2. DOMAIN low \subseteq tracked \ DOMAIN high
    BY PairingFacts
  <2> QED
    BY <2>1, <2>2
<1>6. Range(born) = nextTrackId..(nextTrackId + n - 1) /\ DOMAIN born = Starting(dets, high)
  BY BijectionFacts
<1>7. n \in Nat
  BY TrackBoundsAssumption
<1>8. seen \subseteq Ids
  <2>1. tracked \cup lost \subseteq Ids /\ nextTrackId \in 1..(MaxTracks + 1)
    BY DEF TrackerIInv, TrackerTypeOK
  <2>2. Range(born) \subseteq Ids
    BY <2>1, <1>4, <1>6, <1>7, TrackBoundsAssumption DEF Ids
  <2> QED
    BY <2>1, <2>2, <1>5
<1>9. SeenAndBorn(seen, Range(born))
  BY <1>4, <1>5, <1>6, <1>7, <1>8 DEF SeenAndBorn
<1>10. Taken(seen)
  <2>1. ASSUME NEW d \in Dets
        PROVE  Taker(high, low, born, d) \subseteq seen
    BY DEF Taker, Range
  <2>2. ASSUME NEW d \in Dets
        PROVE  takenBy'[d] = IF Taker(high, low, born, d) = {} THEN 0
                             ELSE CHOOSE t \in Taker(high, low, born, d) : TRUE
    BY <1>4
  <2>3. ASSUME NEW d \in Dets
        PROVE  \/ takenBy'[d] = 0 /\ Taker(high, low, born, d) = {}
               \/ takenBy'[d] \in seen
    BY <2>1, <2>2
  <2>4. ASSUME NEW d \in Dets, dets[d] = "new"
        PROVE  Taker(high, low, born, d) # {}
    <3>1. CASE d \in Range(high)
      BY <3>1 DEF Taker, Range
    <3>2. CASE d \notin Range(high)
      <4>1. d \in DOMAIN born
        BY <3>2, <2>4, <1>6
      <4> QED
        BY <4>1 DEF Taker
    <3> QED
      BY <3>1, <3>2
  <2>5. 0 \notin Ids
    BY DEF Ids
  <2>6. detections' = dets /\ takenBy' = [d \in Dets |-> takenBy'[d]]
    BY <1>4
  <2> HIDE DEF seen
  <2> QED
    BY <2>3, <2>4, <2>5, <2>6, <1>8 DEF Taken
<1> HIDE DEF seen
<1> QED
  BY <1>4, <1>9, <1>10 DEF seen
-----------------------------------------------------------------------------
(* A frame's number is a frame number, and not below the last one.         *)
LEMMA NumberFacts ==
  ASSUME TrackerIInv, NEW f \in (given + 1)..MaxFrame
  PROVE  /\ FrameNumber(f) \in 0..(MaxFrame + 1)
         /\ frameId <= FrameNumber(f)
         /\ f = 0 => FrameNumber(f) = 1
         /\ f > 0 => FrameNumber(f) = f
  BY TrackBoundsAssumption DEF TrackerIInv, TrackerTypeOK, NumbersFollow, FrameNumber

(* What Advance leaves in the two lists.                                   *)
LEMMA AdvanceLists ==
  ASSUME TrackerIInv, NEW f \in (given + 1)..MaxFrame, NEW seen, NEW born,
         Advance(f, seen, born), SeenAndBorn(seen, born)
  PROVE  /\ tracked' \subseteq seen
         /\ lost' \subseteq (tracked \cup lost) \ seen
         /\ born \cap (tracked \cup lost) = {}
         /\ \A t \in lost \cap lost' : FrameNumber(f) - endFrame[t] <= TrackBuffer
<1>1. tracked' \subseteq seen
  BY DEF Advance
<1>2. born \cap (tracked \cup lost) = {}
  BY DEF TrackerIInv, TracksAreConsistent, TrackerTypeOK, SeenAndBorn
<1> DEFINE end == [t \in Ids |-> IF t \in seen THEN FrameNumber(f) ELSE endFrame[t]]
           expired == {t \in lost : FrameNumber(f) - end[t] > TrackBuffer}
<1>3. lost' \subseteq LostNext(seen, tracked \ seen, expired)
  BY DEF Advance
<1>4. lost' \subseteq (tracked \cup lost) \ seen
  BY <1>3 DEF LostNext
<1>5. ASSUME NEW t \in lost \cap lost'
      PROVE  FrameNumber(f) - endFrame[t] <= TrackBuffer
  <2>1. t \notin seen /\ t \in Ids
    BY <1>4 DEF TrackerIInv, TrackerTypeOK
  <2>2. t \notin expired
    BY <1>3 DEF LostNext
  <2>3. FrameNumber(f) \in Int /\ endFrame[t] \in Int
    BY <2>1, NumberFacts DEF TrackerIInv, TrackerTypeOK
  <2>4. end[t] = endFrame[t]
    BY <2>1
  <2>5. ~(FrameNumber(f) - endFrame[t] > TrackBuffer)
    BY <2>2, <2>4
  <2> HIDE DEF end, expired
  <2> QED
    BY <2>3, <2>5, TrackBufferAssumption
<1> QED
  BY <1>1, <1>2, <1>4, <1>5

(* Every update keeps the invariant.                                       *)
LEMMA UpdateKeeps ==
  ASSUME TrackerIInv, NEW f \in (given + 1)..MaxFrame, Update(f)
  PROVE  TrackerIInv'
<1>1. f \in Int
  BY TrackBoundsAssumption DEF TrackerIInv, TrackerTypeOK
<1>2. PICK seen, born :
        Advance(f, seen, born) /\ SeenAndBorn(seen, born) /\ Taken(seen)
  BY <1>1, UpdateAdvances
<1>3. /\ tracked' \subseteq seen
      /\ lost' \subseteq (tracked \cup lost) \ seen
      /\ born \cap (tracked \cup lost) = {}
  BY <1>2, AdvanceLists
<1>4. /\ FrameNumber(f) \in 0..(MaxFrame + 1)
      /\ frameId <= FrameNumber(f)
      /\ f = 0 => FrameNumber(f) = 1
      /\ f > 0 => FrameNumber(f) = f
  BY NumberFacts
<1>5. /\ given' = f /\ frameId' = FrameNumber(f)
      /\ endFrame' = [t \in Ids |-> IF t \in seen THEN FrameNumber(f) ELSE endFrame[t]]
      /\ startFrame' = [t \in Ids |-> IF t \in born THEN FrameNumber(f) ELSE startFrame[t]]
      /\ overlaps' \subseteq seen \X LostNext(seen, tracked \ seen,
                     {t \in lost : FrameNumber(f) - endFrame'[t] > TrackBuffer})
  BY <1>2 DEF Advance
<1>6. /\ tracked \subseteq Ids /\ lost \subseteq Ids /\ seen \subseteq Ids
      /\ nextTrackId \in 1..(MaxTracks + 1)
      /\ startFrame \in [Ids -> Int] /\ endFrame \in [Ids -> Int]
  BY <1>2 DEF TrackerIInv, TrackerTypeOK, SeenAndBorn
<1>7. nextTrackId' \in 1..(MaxTracks + 1) /\ nextTrackId <= nextTrackId'
  BY <1>2, <1>6, TrackBoundsAssumption DEF SeenAndBorn
<1>8. TrackerTypeOK'
  <2>1. given' \in -1..MaxFrame /\ frameId' \in 0..(MaxFrame + 1)
    BY <1>4, <1>5, TrackBoundsAssumption DEF TrackerIInv, TrackerTypeOK
  <2>2. tracked' \subseteq Ids /\ lost' \subseteq Ids
    BY <1>3, <1>6
  <2>3. startFrame' \in [Ids -> Int] /\ endFrame' \in [Ids -> Int]
    BY <1>4, <1>5, <1>6
  <2>4. overlaps' \subseteq Ids \X Ids
    BY <1>5, <1>6 DEF LostNext
  <2>5. detections' \in [Dets -> Kinds] /\ takenBy' \in [Dets -> Ids \cup {0}]
    BY <1>2 DEF Taken
  <2> QED
    BY <2>1, <2>2, <2>3, <2>4, <2>5, <1>7 DEF TrackerTypeOK
<1>9. NumbersFollow'
  BY <1>4, <1>5 DEF NumbersFollow, TrackerIInv, TrackerTypeOK
<1>10. TracksAreConsistent'
  <2>1. (tracked \cap lost)' = {}
    BY <1>3
  <2>2. (tracked \cup lost \subseteq 1..(nextTrackId - 1))'
    <3>1. tracked \cup lost \subseteq 1..(nextTrackId - 1)
      BY DEF TrackerIInv, TracksAreConsistent
    <3>2. born \subseteq 1..(nextTrackId' - 1)
      BY <1>2, <1>6 DEF SeenAndBorn
    <3>3. tracked \cup lost \subseteq 1..(nextTrackId' - 1)
      BY <3>1, <1>6, <1>7
    <3>4. seen \subseteq tracked \cup lost \cup born
      BY <1>2 DEF SeenAndBorn
    <3> QED
      BY <3>2, <3>3, <3>4, <1>3
  <2>3. (\A t \in tracked : endFrame[t] = frameId)'
    BY <1>3, <1>5, <1>6
  <2>4. (\A t \in lost : endFrame[t] <= frameId)'
    <3>1. \A t \in tracked \cup lost : endFrame[t] <= frameId /\ endFrame[t] \in Int
      BY <1>6 DEF TrackerIInv, TracksAreConsistent, TrackerTypeOK
    <3>2. frameId \in Int /\ FrameNumber(f) \in Int
      BY <1>4 DEF TrackerIInv, TrackerTypeOK
    <3> QED
      BY <3>1, <3>2, <1>3, <1>4, <1>5, <1>6
  <2>5. (\A t \in tracked \cup lost : startFrame[t] <= endFrame[t])'
    <3>1. \A t \in tracked \cup lost : /\ startFrame[t] <= endFrame[t]
                                       /\ endFrame[t] <= frameId
                                       /\ startFrame[t] \in Int /\ endFrame[t] \in Int
      BY <1>6 DEF TrackerIInv, TracksAreConsistent, TrackerTypeOK
    <3>2. frameId \in Int /\ FrameNumber(f) \in Int
      BY <1>4 DEF TrackerIInv, TrackerTypeOK
    <3>3. seen \subseteq tracked \cup lost \cup born /\ born \subseteq seen
      BY <1>2 DEF SeenAndBorn
    <3>4. ASSUME NEW t \in tracked' PROVE startFrame'[t] <= endFrame'[t]
      <4>1. t \in seen /\ t \in Ids /\ endFrame'[t] = FrameNumber(f)
        BY <1>3, <1>5, <1>6
      <4>2. CASE t \in born
        BY <4>1, <4>2, <3>2, <1>5
      <4>3. CASE t \notin born
        BY <4>1, <4>3, <3>1, <3>2, <3>3, <1>4, <1>5
      <4> QED
        BY <4>2, <4>3
    <3>5. ASSUME NEW t \in lost' PROVE startFrame'[t] <= endFrame'[t]
      BY <3>1, <3>3, <1>3, <1>5, <1>6
    <3> QED
      BY <3>4, <3>5
  <2> QED
    BY <2>1, <2>2, <2>3, <2>4, <2>5 DEF TracksAreConsistent
<1> QED
  BY <1>8, <1>9, <1>10 DEF TrackerIInv

(* So does every step.                                                     *)
LEMMA TrackerInvHolds == TrackerSpec => []TrackerIInv
<1>1. TrackerInit => TrackerIInv
  <2>1. TrackerInit => TrackerTypeOK
    BY TrackBoundsAssumption DEF TrackerInit, TrackerTypeOK, Kinds
  <2>2. TrackerInit => NumbersFollow /\ TracksAreConsistent
    BY DEF TrackerInit, NumbersFollow, TracksAreConsistent
  <2> QED
    BY <2>1, <2>2 DEF TrackerIInv
<1>2. TrackerIInv /\ [TrackerNext]_trackVars => TrackerIInv'
  <2> SUFFICES ASSUME TrackerIInv, [TrackerNext]_trackVars PROVE TrackerIInv'
    OBVIOUS
  <2>1. CASE TrackerNext
    BY <2>1, UpdateKeeps DEF TrackerNext
  <2>2. CASE UNCHANGED trackVars
    BY <2>2 DEF TrackerIInv, TrackerTypeOK, NumbersFollow, TracksAreConsistent, trackVars
  <2> QED
    BY <2>1, <2>2
<1> QED
  BY <1>1, <1>2, PTL DEF TrackerSpec

(* Every variable keeps its type.                                          *)
THEOREM TrackerTypeCorrect == TrackerSpec => []TrackerTypeOK
<1>1. TrackerIInv => TrackerTypeOK
  BY DEF TrackerIInv
<1> QED
  BY <1>1, TrackerInvHolds, PTL

(* The two lists of tracks never share one, hold only tracks that were     *)
(* started, and agree with the frames that matched them.                   *)
THEOREM TracksHold == TrackerSpec => []TracksAreConsistent
<1>1. TrackerIInv => TracksAreConsistent
  BY DEF TrackerIInv
<1> QED
  BY <1>1, TrackerInvHolds, PTL

(* A track that left both lists is gone for good, and none stays lost for  *)
(* longer than the buffer.                                                 *)
THEOREM RemovedStay == TrackerSpec => RemovedTracksStayRemoved
<1> DEFINE StaysGone ==
      /\ (tracked' \cup lost') \cap 1..(nextTrackId - 1) \subseteq tracked \cup lost
      /\ \A t \in lost \cap lost' : frameId' - endFrame[t] <= TrackBuffer
<1>1. TrackerIInv /\ [TrackerNext]_trackVars => [StaysGone]_trackVars
  <2> SUFFICES ASSUME TrackerIInv, TrackerNext PROVE StaysGone
    OBVIOUS
  <2>1. PICK f \in (given + 1)..MaxFrame : Update(f)
    BY DEF TrackerNext
  <2>2. f \in Int
    BY <2>1, TrackBoundsAssumption DEF TrackerIInv, TrackerTypeOK
  <2>3. PICK seen, born : Advance(f, seen, born) /\ SeenAndBorn(seen, born)
    BY <2>1, <2>2, UpdateAdvances
  <2>4. /\ tracked' \subseteq seen
        /\ lost' \subseteq (tracked \cup lost) \ seen
        /\ \A t \in lost \cap lost' : FrameNumber(f) - endFrame[t] <= TrackBuffer
    BY <2>1, <2>3, AdvanceLists
  <2>5. frameId' = FrameNumber(f)
    BY <2>3 DEF Advance
  <2>6. born \cap 1..(nextTrackId - 1) = {} /\ seen \subseteq tracked \cup lost \cup born
    BY <2>3 DEF SeenAndBorn, TrackerIInv, TrackerTypeOK
  <2> QED
    BY <2>4, <2>5, <2>6
<1> QED
  BY <1>1, TrackerInvHolds, PTL DEF TrackerSpec, RemovedTracksStayRemoved

(* No detection strong enough for a track is lost on the way: its track is *)
(* returned, or gave way to one at least as old that overlaps it.          *)
THEOREM DetectionsReach == TrackerSpec => []DetectionsAreReported
<1>1. TrackerInit => DetectionsAreReported
  BY DEF TrackerInit, DetectionsAreReported
<1>2. TrackerIInv /\ DetectionsAreReported /\ [TrackerNext]_trackVars => DetectionsAreReported'
  <2> SUFFICES ASSUME TrackerIInv, DetectionsAreReported, [TrackerNext]_trackVars
               PROVE  DetectionsAreReported'
    OBVIOUS
  <2>1. CASE TrackerNext
    <3>1. PICK f \in (given + 1)..MaxFrame : Update(f)
      BY <2>1 DEF TrackerNext
    <3>2. f \in Int
      BY <3>1, TrackBoundsAssumption DEF TrackerIInv, TrackerTypeOK
    <3>3. PICK seen, born :
            Advance(f, seen, born) /\ SeenAndBorn(seen, born) /\ Taken(seen)
      BY <3>1, <3>2, UpdateAdvances
    <3> SUFFICES ASSUME NEW d \in Dets, NEW t, t = takenBy'[d]
                 PROVE  /\ detections'[d] = "new" => t # 0
                        /\ t # 0 =>
                             \/ t \in tracked'
                             \/ \E l \in Ids :
                                  /\ << t, l >> \in overlaps'
                                  /\ endFrame'[t] - startFrame'[t]
                                       <= endFrame'[l] - startFrame'[l]
      BY DEF DetectionsAreReported
    <3>4. detections'[d] = "new" => t # 0
      BY <3>3 DEF Taken
    <3>5. ASSUME t # 0, t \notin tracked'
          PROVE  \E l \in Ids : /\ << t, l >> \in overlaps'
                                /\ endFrame'[t] - startFrame'[t]
                                     <= endFrame'[l] - startFrame'[l]
      <4>1. t \in seen /\ t \in Ids
        BY <3>3, <3>5 DEF Taken, SeenAndBorn
      <4> DEFINE age == [i \in Ids |-> endFrame'[i] - startFrame'[i]]
                 held == LostNext(seen, tracked \ seen,
                           {i \in lost : FrameNumber(f) - endFrame'[i] > TrackBuffer})
      <4>2. \E l \in held : << t, l >> \in overlaps' /\ DropsTracked(age, t, l)
        BY <4>1, <3>3, <3>5 DEF Advance
      <4>3. held \subseteq Ids
        BY DEF LostNext, TrackerIInv, TrackerTypeOK
      <4> QED
        BY <4>1, <4>2, <4>3 DEF DropsTracked
    <3> QED
      BY <3>4, <3>5
  <2>2. CASE UNCHANGED trackVars
    BY <2>2 DEF DetectionsAreReported, trackVars
  <2> QED
    BY <2>1, <2>2
<1> QED
  BY <1>1, <1>2, TrackerInvHolds, PTL DEF TrackerSpec

-----------------------------------------------------------------------------
(***************************************************************************)
(* FramePrivacy: matching faces, deciding and covering.                    *)
(***************************************************************************)
Passes == {"configure", "plan", "assign", "recognize", "decide", "anonymize", "done", "mapped"}

(* The types, and those of the variables PrivacyTypeOK leaves out.         *)
Typed ==
  /\ PrivacyTypeOK
  /\ pass \in Passes
  /\ nextFace \in Nat
  /\ scene.size \in [AllBoxes -> Sizes]

(* What plausible_face_for_track demands of a pair.                        *)
PlausibleIsBig ==
  \A p \in scene.plausible :
    p[1] \in Faces /\ p[2] \in Persons /\ scene.size[p[2]] # "flat"

(* Once the faces are assigned, all of them have been.                     *)
AllFacesTaken ==
  /\ pass \in {"configure", "plan"} => nextFace = 1
  /\ pass \in {"recognize", "decide", "anonymize", "done"} /\ setting.faces = "independent"
       => nextFace > MaxFaces

(* A face that was assigned stays with a box it is plausible for, or with  *)
(* the box that is itself; the other faces belong to no box yet.           *)
FacesHaveBoxes ==
  setting.faces = "independent" =>
    /\ \A f \in Faces : f >= nextFace => faceOf[f] = NoFace
    /\ \A f \in Faces : f < nextFace =>
         \E b \in boxes : faceOf[b] = f /\ (b = f \/ << f, b >> \in scene.plausible)

(* Before the pixels are touched, who is not known is to be covered.       *)
UnknownAnonymized ==
  pass \in {"anonymize", "done"} => \A b \in boxes \ known : action[b] = "anonymize"

(* The regions are those planned for the boxes.                            *)
RegionsArePlanned ==
  pass = "done" => regions = {r \in boxes \X {"face", "body"} : r[2] = Region(r[1])}

(* Before the frame is planned no box has a face.                          *)
Unassigned == pass \in {"configure", "plan"} => \A b \in AllBoxes : faceOf[b] = NoFace

FirstFace == nextFace >= 1

(* The tracks of the frame are boxes of it from the start.                *)
PersonsAreBoxes == pass \notin {"configure", "plan", "mapped"} => Persons \subseteq boxes

PrivacyIInv ==
  /\ Typed /\ Unassigned /\ FirstFace /\ PersonsAreBoxes
  /\ PlausibleIsBig /\ AllFacesTaken /\ FacesHaveBoxes
  /\ UnknownAnonymized /\ RegionsArePlanned /\ RegionCoversBox /\ FacesStickOutLittle

-----------------------------------------------------------------------------
(* map_box_to_ui_, one scale at a time: the region meets the frame where   *)
(* the box does.                                                           *)
CoversAxis(s) ==
  LET p     == 2 * s.den
      low   == s.x * s.num
      high  == (s.x + s.w) * s.num
      room  == IF s.w * s.num >= 7 * p THEN 0 ELSE p
      pixel == 80 * s.den
      begin == InflatedFrom(s.x, s.w, s.occluded) * s.num
      end   == begin + InflatedLength(s.w, s.occluded) * s.num
  IN /\ Greatest(low, 0) < Least(high, UiLength * p) =>
          /\ s.from * p <= Greatest(low, 0) + room
          /\ Least(high, UiLength * p) <= s.to * p + room
     /\ s.from * pixel <= Greatest(begin, 0) + pixel
     /\ Least(end, UiLength * pixel) <= s.to * pixel + pixel

(* A box is inflated by 15 percent on either side at least.               *)
LEMMA InflatedBox ==
  ASSUME NEW x \in Int, NEW w \in Int, w >= 3, NEW o \in BOOLEAN
  PROVE  LET ew == InflatedLength(w, o)
             ex == InflatedFrom(x, w, o)
         IN /\ ew \in Int /\ ew >= 52 * w /\ ew <= 62 * w
            /\ ex \in Int /\ 2 * ex <= 80 * x + 40 * w - ew /\ 80 * x + 40 * w - ew <= 2 * ex + 1
<1> DEFINE ew == InflatedLength(w, o)
<1>1. ew \in Int /\ ew >= 52 * w /\ ew <= 62 * w
  BY DEF InflatedLength, Margin, Greatest
<1>2. InflatedFrom(x, w, o) = (80 * x + 40 * w - ew) \div 2
  BY DEF InflatedFrom
<1> HIDE DEF ew
<1>3. LET ex == InflatedFrom(x, w, o)
      IN ex \in Int /\ 2 * ex <= 80 * x + 40 * w - ew /\ 80 * x + 40 * w - ew <= 2 * ex + 1
  BY <1>1, <1>2
<1> QED
  BY <1>1, <1>3 DEF ew

(* A plausible face sticks out of the inflated body by little.             *)
LEMMA FaceSticksOut ==
  ASSUME NEW x \in Int, NEW w \in Int, w >= 3, NEW o \in BOOLEAN,
         NEW fx \in Int, NEW fw \in Int, fw >= 4, LiesIn(fx, fw, x, w)
  PROVE  LET from == InflatedFrom(x, w, o)
             to   == from + InflatedLength(w, o)
             out  == Greatest(from - 40 * fx, 40 * (fx + fw) - to)
         IN /\ PlausibleWidth(fw, w) => 20 * out <= 7 * (40 * fw)
            /\ PlausibleHeight(fw, w) =>
                 IF 5 * fw <= 3 * w THEN 4 * out <= 40 * fw ELSE 2 * out <= 40 * fw
<1> DEFINE ew == InflatedLength(w, o)
           from == InflatedFrom(x, w, o)
           to == from + ew
<1>1. /\ ew \in Int /\ ew >= 52 * w /\ to = from + ew /\ from \in Int
      /\ 2 * from <= 80 * x + 40 * w - ew /\ 80 * x + 40 * w - ew <= 2 * from + 1
  BY InflatedBox
<1> HIDE DEF ew, from, to
<1>2. 2 * x <= 2 * fx + fw /\ 2 * fx + fw <= 2 * (x + w)
  BY DEF LiesIn
<1>3. /\ from - 40 * fx <= 20 * fw - 6 * w
      /\ 2 * (40 * (fx + fw) - to) <= 40 * fw - 12 * w + 1
  BY <1>1, <1>2
<1>4. 40 * (fx + fw) - to <= 20 * fw - 6 * w
  BY <1>1, <1>3
<1> DEFINE out == Greatest(from - 40 * fx, 40 * (fx + fw) - to)
<1>5. out \in Int /\ out <= 20 * fw - 6 * w
  BY <1>1, <1>3, <1>4 DEF Greatest
<1> HIDE DEF out
<1>6. PlausibleWidth(fw, w) => 20 * out <= 7 * (40 * fw)
  BY <1>5 DEF PlausibleWidth
<1>7. 5 * fw <= 3 * w => 4 * out <= 40 * fw
  BY <1>5
<1>8. 2 * out <= 40 * fw
  BY <1>5
<1> QED
  BY <1>6, <1>7, <1>8 DEF out, to, from, ew

(* A display frame as large as the inference frame.                        *)
LEMMA AxisFullScale ==
  ASSUME NEW x \in Int, NEW w \in Int, w >= 3, NEW o \in BOOLEAN
  PROVE  CoversAxis(MapAxis(x, w, o, 1, 1))
<1> DEFINE ew == InflatedLength(w, o)
           ex == InflatedFrom(x, w, o)
           from == LRound(ex * 1, 80)
           length == LRound(ew * 1, 80)
<1>1. ew \in Int /\ ew >= 52 * w /\ ew <= 62 * w
  BY InflatedBox
<1>2. ex \in Int /\ 2 * ex <= 80 * x + 40 * w - ew /\ 80 * x + 40 * w - ew <= 2 * ex + 1
  BY InflatedBox
<1>3. MapAxis(x, w, o, 1, 1) =
        [x |-> x, w |-> w, occluded |-> o, num |-> 1, den |-> 1,
         from |-> Greatest(0, from), to |-> Least(UiLength, from + length)]
  BY DEF MapAxis, Greatest
<1> HIDE DEF ew, ex
<1>4. /\ from \in Int
      /\ 2 * 1 * ex - 80 <= 160 * from /\ 160 * from <= 2 * 1 * ex + 80
  BY <1>2 DEF LRound
<1>5. /\ length \in Int
      /\ 2 * 1 * ew - 80 <= 160 * length /\ 160 * length <= 2 * 1 * ew + 80
  BY <1>1 DEF LRound
<1> HIDE DEF from, length
<1>6. ASSUME NEW r, r = [x |-> x, w |-> w, occluded |-> o, num |-> 1, den |-> 1,
             from |-> Greatest(0, from), to |-> Least(UiLength, from + length)]
      PROVE  CoversAxis(r)
  <2>1. /\ r.x = x /\ r.w = w /\ r.num = 1 /\ r.den = 1
        /\ InflatedFrom(r.x, r.w, r.occluded) = ex /\ InflatedLength(r.w, r.occluded) = ew
        /\ r.from = Greatest(0, from) /\ r.to = Least(UiLength, from + length)
    BY <1>6 DEF ew, ex
  <2> QED
    BY <2>1, <1>1, <1>2, <1>4, <1>5, SMTT(60) DEF CoversAxis, Least, Greatest, UiLength
<1> QED
  BY <1>3, <1>6

(* One and a half times as large.                                          *)
LEMMA AxisLarger ==
  ASSUME NEW x \in Int, NEW w \in Int, w >= 3, NEW o \in BOOLEAN
  PROVE  CoversAxis(MapAxis(x, w, o, 3, 2))
<1> DEFINE ew == InflatedLength(w, o)
           ex == InflatedFrom(x, w, o)
           from == LRound(ex * 3, 160)
           length == LRound(ew * 3, 160)
<1>1. ew \in Int /\ ew >= 52 * w /\ ew <= 62 * w
  BY InflatedBox
<1>2. ex \in Int /\ 2 * ex <= 80 * x + 40 * w - ew /\ 80 * x + 40 * w - ew <= 2 * ex + 1
  BY InflatedBox
<1>3. MapAxis(x, w, o, 3, 2) =
        [x |-> x, w |-> w, occluded |-> o, num |-> 3, den |-> 2,
         from |-> Greatest(0, from), to |-> Least(UiLength, from + length)]
  BY DEF MapAxis, Greatest
<1> HIDE DEF ew, ex
<1>4. /\ from \in Int
      /\ 2 * 3 * ex - 160 <= 320 * from /\ 320 * from <= 2 * 3 * ex + 160
  BY <1>2 DEF LRound
<1>5. /\ length \in Int
      /\ 2 * 3 * ew - 160 <= 320 * length /\ 320 * length <= 2 * 3 * ew + 160
  BY <1>1 DEF LRound
<1> HIDE DEF from, length
<1>6. ASSUME NEW r, r = [x |-> x, w |-> w, occluded |-> o, num |-> 3, den |-> 2,
             from |-> Greatest(0, from), to |-> Least(UiLength, from + length)]
      PROVE  CoversAxis(r)
  <2>1. /\ r.x = x /\ r.w = w /\ r.num = 3 /\ r.den = 2
        /\ InflatedFrom(r.x, r.w, r.occluded) = ex /\ InflatedLength(r.w, r.occluded) = ew
        /\ r.from = Greatest(0, from) /\ r.to = Least(UiLength, from + length)
    BY <1>6 DEF ew, ex
  <2> QED
    BY <2>1, <1>1, <1>2, <1>4, <1>5, SMTT(60) DEF CoversAxis, Least, Greatest, UiLength
<1> QED
  BY <1>3, <1>6

(* Half as large.                                                          *)
LEMMA AxisSmaller ==
  ASSUME NEW x \in Int, NEW w \in Int, w >= 3, NEW o \in BOOLEAN
  PROVE  CoversAxis(MapAxis(x, w, o, 1, 2))
<1> DEFINE ew == InflatedLength(w, o)
           ex == InflatedFrom(x, w, o)
           from == LRound(ex * 1, 160)
           length == LRound(ew * 1, 160)
<1>1. ew \in Int /\ ew >= 52 * w /\ ew <= 62 * w
  BY InflatedBox
<1>2. ex \in Int /\ 2 * ex <= 80 * x + 40 * w - ew /\ 80 * x + 40 * w - ew <= 2 * ex + 1
  BY InflatedBox
<1>3. MapAxis(x, w, o, 1, 2) =
        [x |-> x, w |-> w, occluded |-> o, num |-> 1, den |-> 2,
         from |-> Greatest(0, from), to |-> Least(UiLength, from + length)]
  BY DEF MapAxis, Greatest
<1> HIDE DEF ew, ex
<1>4. /\ from \in Int
      /\ 2 * 1 * ex - 160 <= 320 * from /\ 320 * from <= 2 * 1 * ex + 160
  BY <1>2 DEF LRound
<1>5. /\ length \in Int
      /\ 2 * 1 * ew - 160 <= 320 * length /\ 320 * length <= 2 * 1 * ew + 160
  BY <1>1 DEF LRound
<1> HIDE DEF from, length
<1>6. ASSUME NEW r, r = [x |-> x, w |-> w, occluded |-> o, num |-> 1, den |-> 2,
             from |-> Greatest(0, from), to |-> Least(UiLength, from + length)]
      PROVE  CoversAxis(r)
  <2>1. /\ r.x = x /\ r.w = w /\ r.num = 1 /\ r.den = 2
        /\ InflatedFrom(r.x, r.w, r.occluded) = ex /\ InflatedLength(r.w, r.occluded) = ew
        /\ r.from = Greatest(0, from) /\ r.to = Least(UiLength, from + length)
    BY <1>6 DEF ew, ex
  <2> QED
    BY <2>1, <1>1, <1>2, <1>4, <1>5, SMTT(60) DEF CoversAxis, Least, Greatest, UiLength
<1> QED
  BY <1>3, <1>6

-----------------------------------------------------------------------------
(* The faces are numbers from 1 to MaxFaces.                               *)
LEMMA FaceFacts ==
  /\ NoFace \notin Faces /\ Faces \subseteq Nat
  /\ \A n \in Nat : n >= 1 => (n \in Faces <=> n <= MaxFaces)
  BY MaxFacesAssumption DEF NoFace, Faces

\* No frame, no face and no region yet.
LEMMA PrivacyInitHolds == PrivacyInit => PrivacyIInv
<1> SUFFICES ASSUME PrivacyInit PROVE PrivacyIInv
  OBVIOUS
<1>1. PrivacyTypeOK
  BY DEF PrivacyInit, PrivacyTypeOK, Settings
<1>2. Typed
  BY <1>1 DEF PrivacyInit, Typed, Passes, Sizes
<1>3. FacesHaveBoxes
  BY FaceFacts DEF PrivacyInit, FacesHaveBoxes
<1> QED
  BY <1>2, <1>3 DEF PrivacyInit, PrivacyIInv, Unassigned, FirstFace, PersonsAreBoxes,
     PlausibleIsBig, AllFacesTaken,
     UnknownAnonymized, RegionsArePlanned, RegionCoversBox, FacesStickOutLittle

(* Assigning a face gives it one box, and takes none from another.         *)
LEMMA AssignKeeps ==
  ASSUME PrivacyIInv, AssignFace
  PROVE  PrivacyIInv'
<1>1. /\ PrivacyTypeOK /\ nextFace \in Nat /\ nextFace \in Faces /\ pass = "assign"
      /\ nextFace' = nextFace + 1
      /\ UNCHANGED << pass, setting, scene, known, action, regions, span >>
  BY DEF PrivacyIInv, Typed, AssignFace
<1>2. PrivacyTypeOK'
  BY <1>1 DEF AssignFace, PrivacyTypeOK, Candidates, AllBoxes
<1>3. Typed'
  BY <1>1, <1>2 DEF PrivacyIInv, Typed
<1>4. FacesHaveBoxes'
  <2> SUFFICES ASSUME setting.faces = "independent" PROVE FacesHaveBoxes'
    BY <1>1 DEF FacesHaveBoxes
  <2>1. /\ \A f \in Faces : f >= nextFace => faceOf[f] = NoFace
        /\ \A f \in Faces : f < nextFace =>
             \E b \in boxes : faceOf[b] = f /\ (b = f \/ << f, b >> \in scene.plausible)
    BY DEF PrivacyIInv, FacesHaveBoxes
  <2>2. boxes \subseteq AllBoxes /\ faceOf \in [AllBoxes -> Faces \cup {NoFace}]
    BY <1>1 DEF PrivacyTypeOK
  <2>3. PICK b \in AllBoxes :
          /\ faceOf[b] = NoFace
          /\ faceOf' = [faceOf EXCEPT ![b] = nextFace]
          /\ b \in boxes' /\ boxes \subseteq boxes'
          /\ \/ b \in Persons /\ << nextFace, b >> \in scene.plausible
             \/ b = nextFace
    <3>1. CASE \E t \in Candidates(nextFace) :
                 /\ faceOf' = [faceOf EXCEPT ![t] = nextFace]
                 /\ UNCHANGED boxes
      <4>1. Persons \subseteq boxes
        BY <1>1 DEF PrivacyIInv, PersonsAreBoxes
      <4> QED
        BY <3>1, <4>1 DEF Candidates, AllBoxes
    <3>2. CASE Candidates(nextFace) = {}
      BY <3>2, <1>1, <2>1 DEF AssignFace, AllBoxes
    <3> QED
      BY <3>1, <3>2 DEF AssignFace
  <2>4. ASSUME NEW f \in Faces, f >= nextFace' PROVE faceOf'[f] = NoFace
    BY <2>1, <2>2, <2>3, <2>4, <1>1, FaceFacts, PersonsAssumption DEF AllBoxes
  <2>5. ASSUME NEW f \in Faces, f < nextFace'
        PROVE  \E c \in boxes' : faceOf'[c] = f /\ (c = f \/ << f, c >> \in scene.plausible)
    <3>1. CASE f = nextFace
      BY <3>1, <2>2, <2>3
    <3>2. CASE f < nextFace
      <4>1. PICK c \in boxes : faceOf[c] = f /\ (c = f \/ << f, c >> \in scene.plausible)
        BY <3>2, <2>1
      <4>2. c # b
        BY <4>1, <2>3, FaceFacts
      <4> QED
        BY <4>1, <4>2, <2>2, <2>3
    <3> QED
      BY <3>1, <3>2, <2>5, <1>1, FaceFacts
  <2> QED
    BY <2>4, <2>5, <1>1 DEF FacesHaveBoxes
<1>5. (AllFacesTaken /\ UnknownAnonymized /\ RegionsArePlanned /\ RegionCoversBox /\ FacesStickOutLittle)'
  BY <1>1 DEF AllFacesTaken, UnknownAnonymized, RegionsArePlanned,
  RegionCoversBox, FacesStickOutLittle
<1>6. PlausibleIsBig'
  BY <1>1 DEF PrivacyIInv, PlausibleIsBig
<1>7. (PersonsAreBoxes /\ Unassigned /\ FirstFace)'
  BY <1>1 DEF AssignFace, PrivacyIInv, PersonsAreBoxes, Unassigned, FirstFace
<1> QED
  BY <1>3, <1>4, <1>5, <1>6, <1>7 DEF PrivacyIInv
(* The steps before and after the assignment of the faces.                 *)
LEMMA OtherStepsKeep ==
  ASSUME PrivacyIInv,
         \/ Configure \/ Plan \/ FacesAssigned \/ Recognize \/ Decide
         \/ Anonymize \/ MapBox
  PROVE  PrivacyIInv'
<1> USE DEF PrivacyIInv
<1>0. /\ PrivacyTypeOK /\ pass \in Passes /\ nextFace \in Nat
      /\ scene.size \in [AllBoxes -> Sizes]
  BY DEF Typed
<1>1. CASE Configure
  <2>1. Typed'
    BY <1>0, <1>1 DEF Configure, Typed, PrivacyTypeOK, Passes
  <2>2. PlausibleIsBig'
    BY <1>1 DEF Configure, PlausibleIsBig
  <2>3. FacesHaveBoxes'
    <3>1. faceOf' = faceOf /\ nextFace' = 1 /\ nextFace = 1
      BY <1>1 DEF Configure, AllFacesTaken
    <3>2. \A f \in Faces : faceOf[f] = NoFace
      BY <1>1 DEF Configure, Unassigned, AllBoxes
    <3> QED
      BY <3>1, <3>2 DEF FacesHaveBoxes, Faces
  <2> QED
    BY <2>1, <2>2, <2>3, <1>1 DEF Configure, Unassigned, FirstFace, PersonsAreBoxes, AllFacesTaken,
       UnknownAnonymized, RegionsArePlanned, RegionCoversBox, FacesStickOutLittle
<1>2. CASE Plan
  <2>1. Typed'
    BY <1>0, <1>2 DEF Plan, Typed, PrivacyTypeOK, Passes, AllBoxes
  <2>2. FacesHaveBoxes'
    <3>1. faceOf' = [b \in AllBoxes |-> NoFace] /\ nextFace' = 1
      BY <1>2 DEF Plan, AllFacesTaken
    <3> QED
      BY <3>1 DEF FacesHaveBoxes, AllBoxes, Faces
  <2> QED
    BY <2>1, <2>2, <1>2 DEF Plan, Unassigned, FirstFace, PersonsAreBoxes, AllFacesTaken,
       PlausibleIsBig, UnknownAnonymized, RegionsArePlanned, RegionCoversBox, FacesStickOutLittle
<1>3. CASE FacesAssigned
  <2>1. nextFace > MaxFaces
    <3>1. nextFace >= 1
      BY <1>0 DEF FirstFace
    <3> QED
      BY <1>0, <1>3, <3>1, FaceFacts, MaxFacesAssumption DEF FacesAssigned
  <2> QED
    BY <2>1, <1>0, <1>3 DEF FacesAssigned, FirstFace, Typed, PrivacyTypeOK, Passes, Unassigned,
       PersonsAreBoxes, AllFacesTaken, PlausibleIsBig, FacesHaveBoxes,
       UnknownAnonymized, RegionsArePlanned, RegionCoversBox, FacesStickOutLittle
<1>4. CASE Recognize
  <2>1. Typed'
    BY <1>0, <1>4 DEF Recognize, Typed, PrivacyTypeOK, Passes
  <2> QED
    BY <2>1, <1>4 DEF Recognize, FirstFace, Unassigned, PersonsAreBoxes, AllFacesTaken,
       PlausibleIsBig, FacesHaveBoxes, UnknownAnonymized, RegionsArePlanned,
       RegionCoversBox, FacesStickOutLittle
<1>5. CASE Decide
  <2>1. PICK noop \in BOOLEAN :
          action' = Decided(noop) /\ known' = IF noop THEN {} ELSE known
    BY <1>5 DEF Decide
  <2>2. Typed'
    BY <1>0, <1>5, <2>1 DEF Decide, Decided, Typed, PrivacyTypeOK, Passes
  <2>3. UnknownAnonymized'
    BY <1>0, <1>5, <2>1 DEF Decide, Decided, UnknownAnonymized, PrivacyTypeOK
  <2> QED
    BY <2>2, <2>3, <1>5 DEF Decide, FirstFace, Unassigned, PersonsAreBoxes, AllFacesTaken,
       PlausibleIsBig, FacesHaveBoxes, RegionsArePlanned, RegionCoversBox, FacesStickOutLittle
<1>6. CASE Anonymize
  <2>1. Typed'
    BY <1>0, <1>6 DEF Anonymize, Typed, PrivacyTypeOK, Passes
  <2>2. RegionsArePlanned'
    BY <1>6 DEF Anonymize, RegionsArePlanned, Region, WantsFace, BigEnough
  <2> QED
    BY <2>1, <2>2, <1>6 DEF Anonymize, FirstFace, Unassigned, PersonsAreBoxes, AllFacesTaken,
       PlausibleIsBig, FacesHaveBoxes, UnknownAnonymized, RegionCoversBox, FacesStickOutLittle
<1>7. CASE MapBox
  <2>1. Typed'
    BY <1>0, <1>7 DEF MapBox, Typed, PrivacyTypeOK, Passes
  <2>2. CoversAxis(span')
    <3>1. PICK x \in -8..40, w \in 3..MaxLength, o \in BOOLEAN,
               s \in {<< 1, 1 >>, << 3, 2 >>, << 1, 2 >>} :
            span' = MapAxis(x, w, o, s[1], s[2])
      BY <1>7 DEF MapBox
    <3>2. x \in Int /\ w \in Int /\ w >= 3
      BY MaxLengthAssumption
    <3>3. CoversAxis(MapAxis(x, w, o, 1, 1))
      BY <3>2, AxisFullScale
    <3>4. CoversAxis(MapAxis(x, w, o, 3, 2))
      BY <3>2, AxisLarger
    <3>5. CoversAxis(MapAxis(x, w, o, 1, 2))
      BY <3>2, AxisSmaller
    <3>6. \/ span' = MapAxis(x, w, o, 1, 1)
          \/ span' = MapAxis(x, w, o, 3, 2)
          \/ span' = MapAxis(x, w, o, 1, 2)
      BY <3>1
    <3> HIDE DEF PrivacyIInv
    <3> QED
      BY <3>3, <3>4, <3>5, <3>6, Zenon
  <2>3. RegionCoversBox'
    BY <2>2 DEF RegionCoversBox, CoversAxis
  <2>4. FacesStickOutLittle'
    <3>1. PICK x \in -8..40, w \in 3..MaxLength, o \in BOOLEAN,
               s \in {<< 1, 1 >>, << 3, 2 >>, << 1, 2 >>} :
            span' = MapAxis(x, w, o, s[1], s[2])
      BY <1>7 DEF MapBox
    <3>2. x \in Int /\ w \in Int /\ w >= 3 /\ span'.x = x /\ span'.w = w /\ span'.occluded = o
      BY <3>1, MaxLengthAssumption DEF MapAxis
    <3> HIDE DEF PrivacyIInv
    <3>3. ASSUME NEW fw \in 4..(w + 8), NEW fx \in (x - fw)..(x + w), LiesIn(fx, fw, x, w)
          PROVE  LET from == InflatedFrom(x, w, o)
                     to   == from + InflatedLength(w, o)
                     out  == Greatest(from - 40 * fx, 40 * (fx + fw) - to)
                 IN /\ PlausibleWidth(fw, w) => 20 * out <= 7 * (40 * fw)
                    /\ PlausibleHeight(fw, w) =>
                         IF 5 * fw <= 3 * w THEN 4 * out <= 40 * fw ELSE 2 * out <= 40 * fw
      <4>1. fw \in Int /\ fw >= 4 /\ fx \in Int
        BY <3>2
      <4> QED
        BY <3>2, <3>3, <4>1, FaceSticksOut
    <3> QED
      BY <3>2, <3>3 DEF FacesStickOutLittle
  <2> QED
    BY <2>1, <2>3, <2>4, <1>7 DEF MapBox, FirstFace, Unassigned, PersonsAreBoxes, AllFacesTaken,
       PlausibleIsBig, FacesHaveBoxes, UnknownAnonymized, RegionsArePlanned
<1> HIDE DEF PrivacyIInv
<1> QED
  BY <1>1, <1>2, <1>3, <1>4, <1>5, <1>6, <1>7

\* The inductive invariant of one frame on its way to the anonymizer.
LEMMA PrivacyInvHolds == PrivacySpec => []PrivacyIInv
<1>1. PrivacyIInv /\ [PrivacyNext]_privacyVars => PrivacyIInv'
  <2> SUFFICES ASSUME PrivacyIInv, [PrivacyNext]_privacyVars PROVE PrivacyIInv'
    OBVIOUS
  <2>1. CASE AssignFace
    BY <2>1, AssignKeeps
  <2>2. CASE \/ Configure \/ Plan \/ FacesAssigned \/ Recognize \/ Decide
             \/ Anonymize \/ MapBox
    BY <2>2, OtherStepsKeep
  <2>3. CASE UNCHANGED privacyVars
    <3> USE <2>3 DEF PrivacyIInv, privacyVars
    <3>1. (Typed /\ Unassigned /\ FirstFace /\ PersonsAreBoxes)'
      BY DEF Typed, PrivacyTypeOK, Unassigned, FirstFace, PersonsAreBoxes
    <3>2. (PlausibleIsBig /\ AllFacesTaken /\ UnknownAnonymized /\ RegionCoversBox /\ FacesStickOutLittle)'
      BY DEF PlausibleIsBig, AllFacesTaken, UnknownAnonymized, RegionCoversBox, FacesStickOutLittle
    <3>3. FacesHaveBoxes'
      BY DEF FacesHaveBoxes
    <3>4. RegionsArePlanned'
      BY DEF RegionsArePlanned, Region, WantsFace, BigEnough
    <3> QED
      BY <3>1, <3>2, <3>3, <3>4
  <2> QED
    BY <2>1, <2>2, <2>3 DEF PrivacyNext
<1> QED
  BY <1>1, PrivacyInitHolds, PTL DEF PrivacySpec

(* In a finished frame the region of a box that can be seen is missing     *)
(* only when the box is allowed or strict_face_only leaves it out.         *)
LEMMA VisibleIsMasked ==
  ASSUME PrivacyIInv, pass = "done", NEW b \in boxes, b \notin known,
         scene.size[b] = "visible",
         ~(setting.strict /\ setting.faceOnly /\ ~BigEnough(faceOf[b]))
  PROVE  Masked(b)
<1>1. action[b] = "anonymize"
  BY DEF PrivacyIInv, UnknownAnonymized
<1>2. Region(b) \in {"face", "body"}
  BY <1>1 DEF Region
<1>3. << b, Region(b) >> \in regions
  BY <1>2 DEF PrivacyIInv, RegionsArePlanned
<1> QED
  BY <1>3 DEF Masked

\* What the invariant says of boxes without an identity at the end.
LEMMA UnknownHolds == PrivacyIInv => UnknownIsCovered
  BY VisibleIsMasked DEF UnknownIsCovered

(* Likewise the region planned for a box with a face that can be seen is   *)
(* the one the configuration asks for.                                     *)
LEMMA FaceIsMasked ==
  ASSUME PrivacyIInv, pass = "done", NEW b \in boxes, b \notin known,
         NEW f \in Faces, faceOf[b] = f, scene.size[f] = "visible",
         scene.size[b] # "flat", setting.faceOnly \in BOOLEAN,
         setting.faceOnly \/ scene.size[b] = "visible"
  PROVE  << b, IF setting.faceOnly THEN "face" ELSE "body" >> \in regions
<1>1. action[b] = "anonymize"
  BY DEF PrivacyIInv, UnknownAnonymized
<1>2. BigEnough(faceOf[b])
  BY FaceFacts DEF BigEnough
<1>3. Region(b) = IF setting.faceOnly THEN "face" ELSE "body"
  BY <1>1, <1>2 DEF Region, WantsFace
<1>4. Region(b) \in {"face", "body"}
  BY <1>3
<1>5. << b, Region(b) >> \in regions
  BY <1>4 DEF PrivacyIInv, RegionsArePlanned
<1> QED
  BY <1>3, <1>5

\* What it says of the detected faces in independent mode at the end.
LEMMA FacesHold == PrivacyIInv => FacesAreCovered
<1> SUFFICES ASSUME PrivacyIInv, pass = "done", setting.faces = "independent",
                    NEW f \in Faces, scene.size[f] = "visible"
             PROVE  \E b \in boxes :
                      /\ faceOf[b] = f /\ (b = f \/ << f, b >> \in scene.plausible)
                      /\ \/ << b, IF setting.faceOnly THEN "face" ELSE "body" >> \in regions
                         \/ b \in known
                         \/ ~setting.faceOnly /\ b \in Persons /\ scene.size[b] = "hidden"
  BY DEF FacesAreCovered
<1>1. f < nextFace
  BY FaceFacts, MaxFacesAssumption DEF PrivacyIInv, AllFacesTaken, Typed, Faces
<1>2. PICK b \in boxes : faceOf[b] = f /\ (b = f \/ << f, b >> \in scene.plausible)
  BY <1>1 DEF PrivacyIInv, FacesHaveBoxes
<1>3. /\ setting.faceOnly \in BOOLEAN /\ scene.size[b] \in Sizes
  BY DEF PrivacyIInv, Typed, PrivacyTypeOK, Settings
<1>4. scene.size[b] = "visible" \/ (b \in Persons /\ scene.size[b] = "hidden")
  <2>1. CASE b = f
    BY <2>1
  <2>2. CASE << f, b >> \in scene.plausible
    <3>1. b \in Persons /\ scene.size[b] # "flat"
      BY <2>2 DEF PrivacyIInv, PlausibleIsBig
    <3> QED
      BY <3>1, <1>3 DEF Sizes
  <2> QED
    BY <1>2, <2>1, <2>2
<1>5. scene.size[b] # "flat"
  BY <1>4
<1>6. CASE b \in known
  BY <1>2, <1>6
<1>7. CASE b \notin known /\ (setting.faceOnly \/ scene.size[b] = "visible")
  BY <1>2, <1>3, <1>5, <1>7, FaceIsMasked
<1>8. CASE ~setting.faceOnly /\ scene.size[b] # "visible"
  BY <1>2, <1>4, <1>8
<1> QED
  BY <1>3, <1>6, <1>7, <1>8

(* Whatever the frame shows and however the modules are set, nobody is     *)
(* lost between the detected faces and the covered regions.                *)
THEOREM NobodyGetsLost == PrivacySpec => []PeopleAreCovered
<1>1. PrivacyIInv => PeopleAreCovered
  BY UnknownHolds, FacesHold DEF PeopleAreCovered, PrivacyIInv, Typed
<1> QED
  BY <1>1, PrivacyInvHolds, PTL

-----------------------------------------------------------------------------
(***************************************************************************)
(* RenderVideo: the frames written, and the events of a rule.              *)
(***************************************************************************)
Stages == {"args", "frame", "boxes", "rules", "write", "preview", "read", "finish", "exited"}
\* What is written of a frame.
Frames == [frame : Nat, masked : BOOLEAN]

(* The stages before a frame is written, and after. *)
Unwritten == {"args", "frame", "boxes", "rules", "write"}
Written == {"preview", "read"}

(* What the output holds of the video at each stage. *)
OutputIsVideo ==
  /\ stage \in Unwritten \cup {"finish"} =>
       /\ {output[i].frame : i \in 1..Len(output)} = 0..(frame - 1)
       /\ Len(output) <= frame + failures
  /\ stage \in Written =>
       /\ {output[i].frame : i \in 1..Len(output)} = 0..frame
       /\ Len(output) <= frame + 1 + failures
       /\ output # << >> /\ output[Len(output)].frame = frame

\* The loop runs only while frames are left, and a frame is past the boxes
\* only masked, unless the mode has no detector.
StagesInOrder ==
  /\ stage \in Stages /\ failures \in Nat /\ pts \in Nat
  /\ output \in Seq(Frames)
  /\ stage \in {"frame", "boxes", "rules", "write", "preview", "read"} => frame < MaxVideo
  /\ stage = "args" => frame = 0 /\ output = << >> /\ ~manifest
  /\ exitCode = -1 <=> stage # "exited"
  /\ stage \in {"rules", "write", "preview"} => masked \/ job.mode = "no_detector"

\* The inductive invariant of the output.
OutputInv ==
  /\ OutputFollowsInput /\ StagesInOrder /\ OutputIsVideo

(* What appending a frame does to the video written so far.                *)
LEMMA AppendedFrame ==
  ASSUME NEW q \in Seq(Frames), NEW f \in Frames
  PROVE  LET r == Append(q, f)
         IN /\ r \in Seq(Frames) /\ Len(r) = Len(q) + 1 /\ Len(q) \in Nat
            /\ \A i \in 1..Len(q) : r[i] = q[i]
            /\ r[Len(r)] = f /\ r # << >>
            /\ {r[i].frame : i \in 1..Len(r)} = {q[i].frame : i \in 1..Len(q)} \cup {f.frame}
<1> DEFINE r == Append(q, f)
<1>1. Len(q) \in Nat
  BY LenProperties
<1>2. /\ r \in Seq(Frames) /\ Len(r) = Len(q) + 1
      /\ \A i \in 1..Len(q) : r[i] = q[i]
      /\ r[Len(q) + 1] = f
  BY AppendProperties
<1>3. r # << >>
  BY <1>1, <1>2, EmptySeq
<1> HIDE DEF r
<1>4. 1..Len(r) = 1..Len(q) \cup {Len(q) + 1}
  BY <1>1, <1>2
<1>5. {r[i].frame : i \in 1..Len(r)} = {q[i].frame : i \in 1..Len(q)} \cup {f.frame}
  BY <1>1, <1>2, <1>4
<1> QED
  BY <1>1, <1>2, <1>3, <1>5 DEF r

(* A frame that is written or caught is the one of this turn of the loop.  *)
LEMMA WritesFrame ==
  ASSUME OutputInv,
         stage \in {"boxes", "rules", "write", "preview"},
         output' = Append(output, [frame |-> frame, masked |-> masked]),
         frame' = frame, job' = job, unmasked' \in SUBSET (0..MaxVideo),
         unmasked \subseteq unmasked',
         masked \/ frame \in unmasked' \/ job.mode = "no_detector",
         stage' \in Written, failures' \in Nat, failures' >= failures,
         stage # "preview" \/ failures' = failures + 1
  PROVE  /\ output' \in Seq(Frames) /\ Range(output') # {} /\ Last(output').frame = frame
         /\ \A i, j \in 1..Len(output') : i < j => output'[i].frame <= output'[j].frame
         /\ \A i \in 1..Len(output') : \/ output'[i].masked
                                       \/ output'[i].frame \in unmasked'
                                       \/ job.mode = "no_detector"
         /\ OutputIsVideo'
<1> USE DEF OutputInv
<1> DEFINE f == [frame |-> frame, masked |-> masked]
<1>1. frame \in Nat /\ f \in Frames /\ output \in Seq(Frames) /\ failures \in Nat
  BY RenderAssumption DEF OutputFollowsInput, RenderTypeOK, StagesInOrder, Frames
<1>2. /\ output' \in Seq(Frames) /\ Len(output') = Len(output) + 1 /\ Len(output) \in Nat
      /\ \A i \in 1..Len(output) : output'[i] = output[i]
      /\ output'[Len(output')] = f /\ output' # << >>
      /\ {output'[i].frame : i \in 1..Len(output')} = {output[i].frame : i \in 1..Len(output)} \cup {f.frame}
  BY <1>1, AppendedFrame
<1>3. f.frame = frame /\ f.masked = masked
  OBVIOUS
<1> HIDE DEF f
<1>4. \A i \in 1..Len(output) : output[i].frame \in {output[k].frame : k \in 1..Len(output)}
  OBVIOUS
<1>5. {output[i].frame : i \in 1..Len(output)} \subseteq 0..frame
      /\ {output[i].frame : i \in 1..Len(output)} \cup {frame} = 0..frame
  <2>1. CASE stage = "preview"
    BY <1>1, <2>1 DEF OutputIsVideo, Written
  <2>2. CASE stage # "preview"
    <3>1. {output[i].frame : i \in 1..Len(output)} = 0..(frame - 1)
      BY <2>2 DEF OutputIsVideo, Unwritten
    <3>2. 0..(frame - 1) \subseteq 0..frame /\ 0..(frame - 1) \cup {frame} = 0..frame
      BY <1>1
    <3> QED
      BY <3>1, <3>2
  <2> QED
    BY <2>1, <2>2
<1>6. \A i, j \in 1..Len(output') : i < j => output'[i].frame <= output'[j].frame
  <2> SUFFICES ASSUME NEW i \in 1..Len(output'), NEW j \in 1..Len(output'), i < j
               PROVE  output'[i].frame <= output'[j].frame
    OBVIOUS
  <2>1. CASE j \in 1..Len(output)
    BY <1>2, <2>1 DEF OutputFollowsInput
  <2>2. CASE j = Len(output')
    <3>1. i \in 1..Len(output)
      BY <1>2, <2>2
    <3>2. output[i].frame \in 0..frame
      BY <1>4, <1>5, <3>1
    <3> QED
      BY <1>1, <1>2, <1>3, <2>2, <3>1, <3>2
  <2> QED
    BY <1>2, <2>1, <2>2, SMTT(60)
<1>7. \A i \in 1..Len(output') : \/ output'[i].masked
                                 \/ output'[i].frame \in unmasked'
                                 \/ job.mode = "no_detector"
  <2> SUFFICES ASSUME NEW i \in 1..Len(output')
               PROVE  \/ output'[i].masked
                      \/ output'[i].frame \in unmasked'
                      \/ job.mode = "no_detector"
    OBVIOUS
  <2>1. CASE i \in 1..Len(output)
    BY <1>2, <2>1 DEF OutputFollowsInput
  <2>2. CASE i = Len(output')
    BY <1>2, <1>3, <2>2
  <2> QED
    BY <1>2, <2>1, <2>2
<1>8. Len(output') <= frame + 1 + failures'
  <2>1. CASE stage = "preview"
    BY <1>1, <1>2, <2>1 DEF OutputIsVideo, Written
  <2>2. CASE stage # "preview"
    BY <1>1, <1>2, <2>2 DEF OutputIsVideo, Unwritten
  <2> QED
    BY <2>1, <2>2
<1>9. OutputIsVideo'
  <2>1. stage' \notin Unwritten \cup {"finish"}
    BY DEF Written, Unwritten
  <2> QED
    BY <1>2, <1>3, <1>5, <1>8, <2>1 DEF OutputIsVideo
<1>10. Range(output') # {} /\ Last(output').frame = frame
  <2>1. DOMAIN output' = 1..Len(output') /\ Len(output') \in DOMAIN output'
    BY <1>2, LenProperties
  <2> QED
    BY <1>2, <1>3, <2>1, SMTT(60) DEF Range, Last
<1> QED
  BY <1>2, <1>6, <1>7, <1>9, <1>10

(* Nothing is written at the start.                                        *)
LEMMA OutputInit == RenderInit => OutputInv
<1> SUFFICES ASSUME RenderInit PROVE OutputInv
  OBVIOUS
<1>1. output = << >> /\ Len(output) = 0 /\ 1..Len(output) = {} /\ output \in Seq(Frames) /\ 0..(frame - 1) = {}
  BY EmptySeq DEF RenderInit
<1>2. RenderTypeOK
  <2>1. job \in Jobs
    BY DEF RenderInit, Jobs
  <2>2. frame \in 0..MaxVideo /\ preview \in -1..MaxVideo
    BY RenderAssumption DEF RenderInit
  <2> QED
    BY <2>1, <2>2 DEF RenderInit, RenderTypeOK
<1>3. OutputFollowsInput
  BY <1>1, <1>2 DEF RenderInit, OutputFollowsInput
<1>4. StagesInOrder
  BY <1>1 DEF RenderInit, StagesInOrder, Stages
<1>5. OutputIsVideo
  BY <1>1 DEF RenderInit, OutputIsVideo, Written
<1> QED
  BY <1>3, <1>4, <1>5 DEF OutputInv

(* A step that writes nothing and stays in the frame, or ends the run.     *)
LEMMA WritesNothing ==
  ASSUME OutputInv, UNCHANGED << frame, output, manifest, unmasked >>,
         RenderTypeOK', StagesInOrder', failures' = failures,
         output = << >> \/ job' = job,
         \/ stage' \in Unwritten \cup {"finish"} /\ stage \in Unwritten \cup {"finish"}
         \/ stage' \in Written /\ stage \in Written
         \/ stage' = "exited" /\ (exitCode' = 0 => ~manifest)
  PROVE  OutputInv'
<1> USE DEF OutputInv
<1>1. OutputIsVideo'
  BY DEF OutputIsVideo, Unwritten, Written
<1>2. \A i \in 1..Len(output) : \/ output[i].masked
                                \/ output[i].frame \in unmasked
                                \/ job'.mode = "no_detector"
  BY EmptySeq DEF OutputFollowsInput
<1>3. stage' = "read" => Range(output) # {} /\ Last(output).frame = frame
  <2> SUFFICES ASSUME stage' = "read" PROVE Range(output) # {} /\ Last(output).frame = frame
    OBVIOUS
  <2>1. output # << >> /\ output[Len(output)].frame = frame
    BY DEF OutputIsVideo, Unwritten, Written
  <2>2. DOMAIN output = 1..Len(output) /\ Len(output) \in 1..Len(output)
    BY <2>1, LenProperties, EmptySeq DEF StagesInOrder
  <2> QED
    BY <2>1, <2>2 DEF Range, Last
<1>4. ~(exitCode' = 0 /\ manifest)
  BY DEF StagesInOrder, Unwritten, Written
<1> QED
  BY <1>1, <1>2, <1>3, <1>4 DEF OutputFollowsInput

(* Every step of the renderer keeps what is said of the output.            *)
LEMMA OutputInvIsInductive == OutputInv /\ [RenderNext]_renderVars => OutputInv'
<1> SUFFICES ASSUME OutputInv, [RenderNext]_renderVars PROVE OutputInv'
  OBVIOUS
<1> USE RenderAssumption DEF OutputInv
<1>0. RenderTypeOK /\ StagesInOrder
  BY DEF OutputFollowsInput
<1>1. CASE OpenAll
  <2>1. RenderTypeOK' /\ StagesInOrder'
    BY <1>0, <1>1 DEF OpenAll, RenderTypeOK, StagesInOrder, Exit, progress, Stages
  <2> QED
    BY <1>0, <1>1, <2>1, WritesNothing DEF OpenAll, Exit, progress, StagesInOrder, Unwritten
<1>2. CASE PreviewFrame
  <2>1. RenderTypeOK' /\ StagesInOrder'
    BY <1>0, <1>2 DEF PreviewFrame, RenderTypeOK, StagesInOrder, Exit, Stages
  <2> QED
    BY <1>0, <1>2, <2>1, WritesNothing DEF PreviewFrame, Exit, StagesInOrder, Unwritten
<1>3. CASE StartFrame
  <2>1. Time \in Nat
    BY <1>0 DEF Time, RenderTypeOK
  <2>2. RenderTypeOK' /\ StagesInOrder'
    BY <1>0, <1>3, <2>1 DEF StartFrame, RenderTypeOK, StagesInOrder, Stages
  <2> QED
    BY <1>3, <2>2, WritesNothing DEF StartFrame, Unwritten
<1>4. CASE Mask
  <2>1. RenderTypeOK' /\ StagesInOrder'
    BY <1>0, <1>4 DEF Mask, RenderTypeOK, StagesInOrder, Stages
  <2> QED
    BY <1>4, <2>1, WritesNothing DEF Mask, Unwritten
<1>5. CASE ProcessFrame
  <2>1. RenderTypeOK' /\ StagesInOrder'
    BY <1>0, <1>5 DEF ProcessFrame, RenderTypeOK, StagesInOrder, Stages
  <2> QED
    BY <1>5, <2>1, WritesNothing DEF ProcessFrame, Unwritten
<1>6. CASE WriteFrame
  <2>1. /\ output' \in Seq(Frames) /\ Range(output') # {} /\ Last(output').frame = frame
        /\ \A i, j \in 1..Len(output') : i < j => output'[i].frame <= output'[j].frame
        /\ \A i \in 1..Len(output') : \/ output'[i].masked
                                      \/ output'[i].frame \in unmasked'
                                      \/ job.mode = "no_detector"
        /\ OutputIsVideo'
    BY <1>0, <1>6, WritesFrame DEF WriteFrame, StagesInOrder, RenderTypeOK, Written
  <2>2. RenderTypeOK' /\ StagesInOrder'
    BY <1>0, <1>6, <2>1 DEF WriteFrame, RenderTypeOK, StagesInOrder, Stages
  <2>3. exitCode' # 0
    BY <1>0, <1>6 DEF WriteFrame, StagesInOrder
  <2> QED
    BY <1>6, <2>1, <2>2, <2>3 DEF WriteFrame, OutputFollowsInput
<1>7. CASE WritePreview
  <2>1. RenderTypeOK' /\ StagesInOrder'
    BY <1>0, <1>7 DEF WritePreview, RenderTypeOK, StagesInOrder, Stages
  <2> QED
    BY <1>7, <2>1, WritesNothing DEF WritePreview, Written
<1>8. CASE CatchError
  <2>0. /\ stage \in {"boxes", "rules", "write", "preview"} /\ stage' = "read"
        /\ output' = Append(output, [frame |-> frame, masked |-> masked])
        /\ failures' = failures + 1 /\ failures \in Nat
        /\ unmasked' = IF stage = "boxes" THEN unmasked \cup {frame} ELSE unmasked
        /\ UNCHANGED << job, frame, pts, masked, events, preview, rule, manifest, exitCode >>
    BY <1>0, <1>8 DEF CatchError, Caught, MayThrow, StagesInOrder
  <2>1. unmasked' \in SUBSET (0..MaxVideo) /\ unmasked \subseteq unmasked'
    BY <1>0, <2>0 DEF RenderTypeOK
  <2>2. masked \/ frame \in unmasked' \/ job.mode = "no_detector"
    BY <1>0, <2>0 DEF StagesInOrder
  <2>3. /\ output' \in Seq(Frames) /\ Range(output') # {} /\ Last(output').frame = frame
        /\ \A i, j \in 1..Len(output') : i < j => output'[i].frame <= output'[j].frame
        /\ \A i \in 1..Len(output') : \/ output'[i].masked
                                      \/ output'[i].frame \in unmasked'
                                      \/ job.mode = "no_detector"
        /\ OutputIsVideo'
    BY <2>0, <2>1, <2>2, WritesFrame DEF Written
  <2>4. RenderTypeOK' /\ StagesInOrder'
    BY <1>0, <2>0, <2>1, <2>3 DEF RenderTypeOK, StagesInOrder, Stages
  <2>5. exitCode' # 0
    BY <1>0, <2>0 DEF StagesInOrder
  <2> QED
    BY <2>0, <2>3, <2>4, <2>5 DEF OutputFollowsInput
<1>9. CASE ReadNext
  <2>1. stage = "read" /\ stage' \in {"frame", "finish"} /\ frame' = frame + 1 /\ frame < MaxVideo
        /\ UNCHANGED << job, output, preview, manifest, exitCode, failures, unmasked >>
        /\ (stage' = "frame" => frame + 1 < MaxVideo) /\ frame \in Nat
    BY <1>0, <1>9 DEF ReadNext, StagesInOrder, RenderTypeOK
  <2>2. RenderTypeOK' /\ StagesInOrder'
    BY <1>0, <1>9, <2>1 DEF ReadNext, RenderTypeOK, StagesInOrder, Stages
  <2>3. OutputIsVideo'
    BY <2>1 DEF OutputIsVideo, Written, Unwritten
  <2>4. exitCode' # 0
    BY <1>0, <2>1 DEF StagesInOrder
  <2> QED
    BY <2>1, <2>2, <2>3, <2>4 DEF OutputFollowsInput
<1>10. CASE WriteManifest
  <2>1. stage = "finish" /\ stage' = "exited" /\ failures' \in {failures, failures + 1}
        /\ exitCode' \in {0, 1} /\ manifest' \in {TRUE, manifest}
        /\ UNCHANGED << job, frame, pts, masked, output, events, preview, rule, unmasked >>
    BY <1>10 DEF WriteManifest, Exit
  <2>2. RenderTypeOK' /\ StagesInOrder'
    <3>1. RenderTypeOK'
      BY <1>0, <2>1, ZenonT(30) DEF RenderTypeOK
    <3>2. exitCode' # -1 /\ failures' \in Nat
      BY <1>0, <2>1 DEF StagesInOrder
    <3> QED
      BY <1>0, <2>1, <3>1, <3>2 DEF StagesInOrder, Stages
  <2>3. OutputIsVideo'
    BY <2>1 DEF OutputIsVideo, Written, Unwritten
  <2>4. /\ {output[i].frame : i \in 1..Len(output)} = 0..(frame - 1)
        /\ Len(output) <= frame + failures
    BY <2>1 DEF OutputIsVideo
  <2>5. Len(output) \in Nat /\ frame \in Nat /\ failures \in Nat
    BY <1>0, LenProperties DEF StagesInOrder, RenderTypeOK
  <2>6. Len(output) <= frame + failures'
    BY <2>1, <2>4, <2>5
  <2> QED
    BY <2>1, <2>2, <2>3, <2>4, <2>6 DEF OutputFollowsInput
<1>11. CASE UNCHANGED renderVars
  BY <1>11 DEF renderVars, OutputFollowsInput, RenderTypeOK, StagesInOrder, OutputIsVideo
<1> QED
  BY <1>1, <1>2, <1>3, <1>4, <1>5, <1>6, <1>7, <1>8, <1>9, <1>10, <1>11 DEF RenderNext

(* OutputFollowsInput (render_video): the frames of the output are those   *)
(* of the input, in order and masked as the job asked, and a job that ends *)
(* well has written all of them.                                           *)
THEOREM OutputFollowsInputHolds == RenderSpec => []OutputFollowsInput
<1>1. RenderInit => OutputInv
  BY OutputInit
<1>2. OutputInv /\ [RenderNext]_renderVars => OutputInv'
  BY OutputInvIsInductive
<1>3. OutputInv => OutputFollowsInput
  BY DEF OutputInv
<1> QED
  BY <1>1, <1>2, <1>3, PTL DEF RenderSpec

-----------------------------------------------------------------------------
EventKinds == {"enter", "exit", "dwell", "to_negative", "to_positive"}
\* What is written of an event, and what a rule keeps of a track.
EventSet == [frame : Nat, pts : Nat, kind : EventKinds]

RuleStates == [previous : Int, lastEvent : Int, inside : BOOLEAN, entered : Int, dwelt : BOOLEAN]

Newest == events[Len(events)]

(* What the engine knows of the track is what its last event says.         *)
RuleFollowsEvents ==
  /\ events = << >> => rule.lastEvent = -1 /\ ~rule.inside /\ ~rule.dwelt
  /\ events # << >> /\ job.rule = "line" => rule.lastEvent = Newest.pts
  /\ events # << >> /\ job.rule = "area" =>
       /\ Newest.kind \in {"enter", "exit", "dwell"}
       /\ rule.inside <=> Newest.kind # "exit"
       /\ rule.dwelt <=> Newest.kind = "dwell"
       /\ Newest.kind = "enter" => rule.entered = Newest.pts

(* The events are of frames that were looked at. *)
EventsOfThePast ==
  events # << >> =>
    /\ Newest.frame <= frame
    /\ stage \in {"frame", "boxes", "rules"} => Newest.frame < frame

EngineTypeOK ==
  /\ events \in Seq(EventSet) /\ rule \in RuleStates /\ frame \in Nat /\ pts \in Nat
  /\ job \in Jobs /\ stage \in Stages
  /\ stage = "args" => events = << >>

\* The inductive invariant of the rules.
EngineInv ==
  /\ EngineTypeOK /\ RuleFollowsEvents /\ EventsOfThePast /\ EventsAreStays

(* The newest event is one of those written.                               *)
LEMMA NewestIsEvent ==
  ASSUME events \in Seq(EventSet), events # << >>
  PROVE  /\ Len(events) \in Nat \ {0} /\ Newest \in EventSet
         /\ Head(events) = events[1]
<1>1. Len(events) \in Nat \ {0}
  BY EmptySeq
<1>2. Newest \in EventSet
  BY <1>1, ElementOfSeq DEF Newest
<1> QED
  BY <1>1, <1>2

(* What appending an event does to the list.                               *)
LEMMA OneMoreEvent ==
  ASSUME NEW q \in Seq(EventSet), NEW e \in EventSet
  PROVE  LET r == q \o << e >>
         IN /\ r \in Seq(EventSet) /\ Len(r) = Len(q) + 1 /\ Len(q) \in Nat
            /\ \A i \in 1..Len(q) : r[i] = q[i]
            /\ r[Len(r)] = e /\ r # << >> /\ Head(r) = r[1]
<1> DEFINE r == q \o << e >>
           t == << e >>
<1>1. t \in Seq(EventSet) /\ Len(t) = 1 /\ t[1] = e /\ Len(q) \in Nat
  BY LenProperties
<1> HIDE DEF t
<1>2. r = q \o t
  BY DEF t
<1>3. /\ r \in Seq(EventSet) /\ Len(r) = Len(q) + 1
      /\ \A i \in 1..(Len(q) + 1) : r[i] = IF i <= Len(q) THEN q[i] ELSE t[i - Len(q)]
  BY <1>1, <1>2, ConcatProperties
<1> HIDE DEF r
<1>4. \A i \in 1..Len(q) : r[i] = q[i]
  BY <1>1, <1>3
<1>5. r[Len(r)] = e
  BY <1>1, <1>3
<1>6. r # << >>
  BY <1>1, <1>3, EmptySeq
<1> QED
  BY <1>1, <1>3, <1>4, <1>5, <1>6 DEF r

(* No rule has fired at the start.                                         *)
LEMMA EngineInit == RenderInit => EngineInv
<1> SUFFICES ASSUME RenderInit PROVE EngineInv
  OBVIOUS
<1>1. events = << >> /\ Len(events) = 0 /\ events \in Seq(EventSet) /\ stage = "args" /\ frame = 0 /\ pts = 0
  BY EmptySeq DEF RenderInit
<1>2. rule \in RuleStates /\ rule.lastEvent = -1 /\ ~rule.inside /\ ~rule.dwelt
  BY DEF RenderInit, NoTrack, RuleStates
<1>3. job \in Jobs
  BY DEF RenderInit, Jobs
<1>4. EventsAreStays
  BY <1>1 DEF EventsAreStays
<1> QED
  BY <1>1, <1>2, <1>3, <1>4 DEF EngineInv, EngineTypeOK, RuleFollowsEvents, EventsOfThePast, Stages

(* A step without an event, of the same track. *)
LEMMA NoEvent ==
  ASSUME EngineInv, EngineTypeOK', events' = events,
         rule' = rule \/ (/\ rule'.lastEvent = rule.lastEvent /\ rule'.inside = rule.inside
                          /\ rule'.dwelt = rule.dwelt /\ rule'.entered = rule.entered),
         frame' >= frame, events = << >> \/ job' = job,
         stage' \in {"frame", "boxes", "rules"} =>
           \/ stage \in {"frame", "boxes", "rules"} \/ frame' > frame \/ events = << >>
  PROVE  EngineInv'
<1> USE DEF EngineInv
<1>1. Newest' = Newest
  BY DEF Newest
<1>2. events # << >> => Newest.frame \in Nat
  BY NewestIsEvent DEF EngineTypeOK, EventSet
<1>3. EventsOfThePast'
  <2> SUFFICES ASSUME events # << >>
               PROVE  /\ Newest.frame <= frame'
                      /\ stage' \in {"frame", "boxes", "rules"} => Newest.frame < frame'
    BY <1>1 DEF EventsOfThePast
  <2> QED
    BY <1>2 DEF EventsOfThePast, EngineTypeOK
<1>4. RuleFollowsEvents'
  BY <1>1 DEF RuleFollowsEvents
<1>5. EventsAreStays'
  <2>1. CASE events = << >>
    BY <2>1, EmptySeq DEF EventsAreStays
  <2>2. CASE job' = job
    BY <2>2 DEF EventsAreStays
  <2> QED
    BY <2>1, <2>2
<1> QED
  BY <1>3, <1>4, <1>5

(* An event of this frame, and the rule's state after it. *)
LEMMA OneEvent ==
  ASSUME EngineInv, EngineTypeOK', stage = "rules", NEW kind \in EventKinds,
         events' = events \o << Event(kind) >>,
         frame' = frame, job' = job, pts' = pts, stage' = "write",
         job.rule = "line" =>
           rule'.lastEvent = pts /\ (events # << >> => pts - rule.lastEvent >= MinGap),
         job.rule = "area" =>
           /\ kind \in {"enter", "exit", "dwell"}
           /\ kind = "enter" => ~rule.inside /\ rule'.inside /\ ~rule'.dwelt /\ rule'.entered = pts
           /\ kind = "exit" => rule.inside /\ ~rule'.inside /\ ~rule'.dwelt
           /\ kind = "dwell" =>
                /\ rule.inside /\ ~rule.dwelt /\ pts - rule.entered >= Dwell
                /\ rule'.inside /\ rule'.dwelt
  PROVE  EngineInv'
<1> USE DEF EngineInv
<1> DEFINE e == Event(kind)
<1>1. e \in EventSet /\ e.frame = frame /\ e.pts = pts /\ e.kind = kind
  BY DEF Event, EventSet, EngineTypeOK
<1> HIDE DEF e
<1>2. /\ Len(events') = Len(events) + 1 /\ Len(events) \in Nat
      /\ \A i \in 1..Len(events) : events'[i] = events[i]
      /\ events'[Len(events')] = e /\ events' # << >> /\ Head(events') = events'[1]
  BY <1>1, OneMoreEvent DEF EngineTypeOK, e
<1>3. Newest' = e
  BY <1>2 DEF Newest
<1>4. job.rule \in {"line", "area"} /\ frame \in Nat
  BY DEF EngineTypeOK, Jobs
<1>5. RuleFollowsEvents'
  BY <1>1, <1>2, <1>3, <1>4 DEF RuleFollowsEvents
<1>6. EventsOfThePast'
  BY <1>1, <1>3, <1>4 DEF EventsOfThePast
<1>7. events # << >> => /\ Len(events) >= 1 /\ Newest = events[Len(events)] /\ Newest \in EventSet
                        /\ Newest.frame < frame /\ Head(events) = events[1]
  BY NewestIsEvent DEF EngineTypeOK, EventsOfThePast, Newest
<1>8. job.rule = "area" => Head(events').kind = "enter"
  <2> SUFFICES ASSUME job.rule = "area" PROVE events'[1].kind = "enter"
    BY <1>2
  <2>1. CASE events = << >>
    <3>1. Len(events) = 0
      BY <2>1
    <3> QED
      BY <1>1, <1>2, <2>1, <3>1 DEF RuleFollowsEvents
  <2>2. CASE events # << >>
    BY <1>2, <1>7, <2>2 DEF EventsAreStays
  <2> QED
    BY <2>1, <2>2
<1>9. ASSUME NEW i \in 1..(Len(events') - 1)
      PROVE  LET a == events'[i]
                 b == events'[i + 1]
             IN IF job.rule = "line" THEN b.pts - a.pts >= MinGap
                ELSE /\ << a.kind, b.kind >> \in
                            {<< "enter", "dwell" >>, << "enter", "exit" >>,
                             << "dwell", "exit" >>, << "exit", "enter" >>}
                     /\ b.kind = "dwell" => b.pts - a.pts >= Dwell
                     /\ a.frame < b.frame
  <2>1. CASE i < Len(events)
    <3>1. i \in 1..(Len(events) - 1) /\ i \in 1..Len(events) /\ i + 1 \in 1..Len(events)
      BY <1>2, <2>1
    <3>2. events'[i] = events[i] /\ events'[i + 1] = events[i + 1]
      BY <1>2, <3>1
    <3> QED
      BY <3>1, <3>2 DEF EventsAreStays
  <2>2. CASE i = Len(events)
    <3>1. events # << >> /\ events'[i] = Newest /\ events'[i + 1] = e
      BY <1>2, <1>7, <2>2, EmptySeq DEF Newest
    <3>2. CASE job.rule = "line"
      <4>1. Newest.pts = rule.lastEvent
        BY <3>1, <3>2 DEF RuleFollowsEvents
      <4> QED
        BY <1>1, <3>1, <3>2, <4>1
    <3>3. CASE job.rule = "area"
      <4>1. /\ Newest.kind \in {"enter", "exit", "dwell"}
            /\ rule.inside <=> Newest.kind # "exit"
            /\ rule.dwelt <=> Newest.kind = "dwell"
            /\ Newest.kind = "enter" => rule.entered = Newest.pts
        BY <3>1, <3>3 DEF RuleFollowsEvents
      <4>2. << Newest.kind, kind >> \in
                            {<< "enter", "dwell" >>, << "enter", "exit" >>,
                             << "dwell", "exit" >>, << "exit", "enter" >>}
        BY <3>3, <4>1
      <4>3. kind = "dwell" => pts - Newest.pts >= Dwell
        BY <3>3, <4>1
      <4> QED
        BY <1>1, <1>7, <3>1, <3>3, <4>2, <4>3
    <3> QED
      BY <1>4, <3>2, <3>3
  <2> QED
    BY <1>2, <2>1, <2>2
<1>10. EventsAreStays'
  BY <1>8, <1>9 DEF EventsAreStays
<1> QED
  BY <1>5, <1>6, <1>10

(* A frame in the analytics engine: the event it may write follows the     *)
(* ones before it.                                                         *)
LEMMA ProcessFrameKeeps ==
  ASSUME EngineInv, ProcessFrame
  PROVE  EngineInv'
<1> USE RenderAssumption DEF EngineInv
<1>1. /\ stage = "rules" /\ stage' = "write"
      /\ UNCHANGED << job, frame, pts >>
  BY DEF ProcessFrame
<1>2. rule \in RuleStates /\ events \in Seq(EventSet) /\ pts \in Nat /\ frame \in Nat /\ job \in Jobs
  BY DEF EngineTypeOK
<1>3. ASSUME NEW kind \in EventKinds PROVE events \o << Event(kind) >> \in Seq(EventSet)
  BY <1>2, OneMoreEvent DEF Event, EventSet
<1>4. events \o << >> = events
  BY <1>2, ConcatEmptySeq
<1>5. ASSUME NEW side \in -1..1, job.rule = "line",
             events' = events \o LineEvents(side), rule' = LineState(side)
      PROVE  EngineInv'
  <2>1. LineState(side) \in RuleStates
    <3>1. PICK a \in Int, b \in Int : LineState(side) = [rule EXCEPT !.previous = a, !.lastEvent = b]
      <4>1. (IF side = 0 THEN rule.previous ELSE side) \in Int
        BY <1>2 DEF RuleStates
      <4>2. (IF Crosses(side) /\ GapPassed(pts) THEN pts ELSE rule.lastEvent) \in Int
        BY <1>2 DEF RuleStates
      <4> QED
        BY <4>1, <4>2 DEF LineState
    <3> QED
      BY <1>2, <3>1 DEF RuleStates
  <2>2. CASE Crosses(side) /\ GapPassed(pts)
    <3>1. PICK kind \in EventKinds : LineEvents(side) = << Event(kind) >>
      BY <2>2 DEF LineEvents, EventKinds
    <3>2. EngineTypeOK'
      BY <1>1, <1>2, <1>3, <1>5, <2>1, <3>1 DEF EngineTypeOK, Stages
    <3>3. rule'.lastEvent = pts
      BY <1>2, <1>5, <2>2 DEF LineState, RuleStates
    <3>4. events # << >> => pts - rule.lastEvent >= MinGap
      <4> SUFFICES ASSUME events # << >> PROVE rule.lastEvent # -1
        BY <2>2 DEF GapPassed
      <4>1. Newest.pts \in Nat
        BY <1>2, NewestIsEvent DEF EventSet
      <4> QED
        BY <1>5, <4>1 DEF RuleFollowsEvents
    <3> QED
      BY <1>1, <1>5, <3>1, <3>2, <3>3, <3>4, OneEvent
  <2>3. CASE ~(Crosses(side) /\ GapPassed(pts))
    <3>1. events' = events
      BY <1>4, <1>5, <2>3 DEF LineEvents
    <3>2. /\ rule'.lastEvent = rule.lastEvent /\ rule'.inside = rule.inside
          /\ rule'.dwelt = rule.dwelt /\ rule'.entered = rule.entered
      BY <1>2, <1>5, <2>3 DEF LineState, RuleStates
    <3>3. EngineTypeOK'
      BY <1>1, <1>2, <1>5, <2>1, <3>1 DEF EngineTypeOK, Stages
    <3> QED
      BY <1>1, <1>2, <3>1, <3>2, <3>3, NoEvent
  <2> QED
    BY <2>2, <2>3
<1>6. ASSUME NEW inside \in BOOLEAN, job.rule = "area",
             events' = events \o AreaEvents(inside), rule' = AreaState(inside)
      PROVE  EngineInv'
  <2>0. rule.inside \in BOOLEAN /\ rule.dwelt \in BOOLEAN
    BY <1>2 DEF RuleStates
  <2>1. CASE inside /\ ~rule.inside
    <3>1. AreaEvents(inside) = << Event("enter") >>
      BY <2>1 DEF AreaEvents
    <3>2. rule' = [rule EXCEPT !.inside = TRUE, !.entered = pts, !.dwelt = FALSE]
      BY <1>6, <2>1 DEF AreaState
    <3>a. pts \in Int
      BY <1>2
    <3>b. rule' \in RuleStates
      BY <1>2, <3>a, <3>2 DEF RuleStates
    <3>c. rule'.inside /\ ~rule'.dwelt
      BY <1>2, <3>2 DEF RuleStates
    <3>d. rule'.entered = pts
      BY <1>2, <3>2 DEF RuleStates
    <3>3. rule' \in RuleStates /\ rule'.inside /\ ~rule'.dwelt /\ rule'.entered = pts
      BY <3>b, <3>c, <3>d
    <3>4. EngineTypeOK'
      BY <1>1, <1>2, <1>3, <1>6, <3>1, <3>3 DEF EngineTypeOK, Stages, EventKinds
    <3> QED
      BY <1>1, <1>6, <2>1, <3>1, <3>3, <3>4, OneEvent DEF EventKinds
  <2>2. CASE ~inside /\ rule.inside
    <3>1. AreaEvents(inside) = << Event("exit") >>
      BY <2>2 DEF AreaEvents
    <3>2. rule' = [rule EXCEPT !.inside = FALSE, !.dwelt = FALSE]
      BY <1>6, <2>2 DEF AreaState
    <3>3. rule' \in RuleStates /\ ~rule'.inside /\ ~rule'.dwelt
      BY <1>2, <3>2 DEF RuleStates
    <3>4. EngineTypeOK'
      BY <1>1, <1>2, <1>3, <1>6, <3>1, <3>3 DEF EngineTypeOK, Stages, EventKinds
    <3> QED
      BY <1>1, <1>6, <2>2, <3>1, <3>3, <3>4, OneEvent DEF EventKinds
  <2>3. CASE inside /\ rule.inside /\ HasDwelt
    <3>1. AreaEvents(inside) = << Event("dwell") >>
      BY <2>3 DEF AreaEvents
    <3>2. rule' = [rule EXCEPT !.dwelt = TRUE]
      BY <1>6, <2>3 DEF AreaState
    <3>3. rule' \in RuleStates /\ rule'.inside /\ rule'.dwelt
      BY <1>2, <2>3, <3>2 DEF RuleStates
    <3>4. EngineTypeOK'
      BY <1>1, <1>2, <1>3, <1>6, <3>1, <3>3 DEF EngineTypeOK, Stages, EventKinds
    <3> QED
      BY <1>1, <1>6, <2>3, <3>1, <3>3, <3>4, OneEvent DEF EventKinds, HasDwelt
  <2>4. CASE ~(inside /\ ~rule.inside) /\ ~(~inside /\ rule.inside) /\ ~(inside /\ rule.inside /\ HasDwelt)
    <3>1. AreaEvents(inside) = << >>
      BY <2>4 DEF AreaEvents
    <3>2. rule' = [rule EXCEPT !.dwelt = @ \/ (inside /\ HasDwelt)] /\ ~(inside /\ HasDwelt)
      BY <1>6, <2>0, <2>4 DEF AreaState
    <3>3. rule' = rule
      BY <1>2, <2>0, <3>2 DEF RuleStates
    <3>4. EngineTypeOK'
      BY <1>1, <1>2, <1>4, <1>6, <3>1, <3>3 DEF EngineTypeOK, Stages
    <3> QED
      BY <1>1, <1>2, <1>4, <1>6, <3>1, <3>3, <3>4, NoEvent
  <2> QED
    BY <2>1, <2>2, <2>3, <2>4
<1>7. ASSUME UNCHANGED << events, rule >> PROVE EngineInv'
  <2>1. EngineTypeOK'
    BY <1>1, <1>2, <1>7 DEF EngineTypeOK, Stages
  <2> QED
    BY <1>1, <1>2, <1>7, <2>1, NoEvent
<1> QED
  BY <1>5, <1>6, <1>7 DEF ProcessFrame

(* Every step of the renderer keeps what is said of the events.            *)
LEMMA EngineInvIsInductive == EngineInv /\ [RenderNext]_renderVars => EngineInv'
<1> SUFFICES ASSUME EngineInv, [RenderNext]_renderVars PROVE EngineInv'
  OBVIOUS
<1> USE RenderAssumption DEF EngineInv
<1>1. CASE ProcessFrame
  BY <1>1, ProcessFrameKeeps
<1>2. ASSUME UNCHANGED << events, rule >>, EngineTypeOK', frame' >= frame,
             events = << >> \/ job' = job,
             stage' \in {"frame", "boxes", "rules"} =>
               \/ stage \in {"frame", "boxes", "rules"} \/ frame' > frame \/ events = << >>
      PROVE  EngineInv'
  BY <1>2, NoEvent
<1>3. frame \in Nat
  BY DEF EngineTypeOK
<1>4. CASE OpenAll \/ PreviewFrame
  <2>1. EngineTypeOK'
    BY <1>4 DEF OpenAll, PreviewFrame, Exit, progress, EngineTypeOK, Stages
  <2> QED
    BY <1>2, <1>3, <1>4, <2>1 DEF OpenAll, PreviewFrame, progress, EngineTypeOK
<1>5. CASE StartFrame
  <2>1. Time \in Nat
    BY <1>3 DEF Time
  <2>2. EngineTypeOK'
    BY <1>5, <2>1 DEF StartFrame, EngineTypeOK, Stages
  <2> QED
    BY <1>2, <1>3, <1>5, <2>2 DEF StartFrame
<1>6. CASE Mask \/ WriteFrame \/ WritePreview \/ CatchError \/ WriteManifest
  <2>1. EngineTypeOK'
    BY <1>6 DEF Mask, WriteFrame, WritePreview, CatchError, WriteManifest, Exit, EngineTypeOK, Stages
  <2> QED
    BY <1>2, <1>3, <1>6, <2>1 DEF Mask, WriteFrame, WritePreview, CatchError, WriteManifest, Exit
<1>7. CASE ReadNext
  <2>1. EngineTypeOK'
    BY <1>7 DEF ReadNext, EngineTypeOK, Stages
  <2> QED
    BY <1>2, <1>3, <1>7, <2>1 DEF ReadNext
<1>8. CASE UNCHANGED renderVars
  <2>1. EngineTypeOK'
    BY <1>8 DEF renderVars, EngineTypeOK
  <2> QED
    BY <1>2, <1>3, <1>8, <2>1 DEF renderVars
<1> QED
  BY <1>1, <1>4, <1>5, <1>6, <1>7, <1>8 DEF RenderNext

(* EventsAreStays (analytics engine): the events of a zone alternate as a  *)
(* stay does, and no cooldown is cut short.                                *)
THEOREM EventsAreStaysHolds == RenderSpec => []EventsAreStays
<1>1. RenderInit => EngineInv
  BY EngineInit
<1>2. EngineInv /\ [RenderNext]_renderVars => EngineInv'
  BY EngineInvIsInductive
<1>3. EngineInv => EventsAreStays
  BY DEF EngineInv
<1> QED
  BY <1>1, <1>2, <1>3, PTL DEF RenderSpec

-----------------------------------------------------------------------------
(***************************************************************************)
(* The run's own specification: each behaviour is one of one component.    *)
(***************************************************************************)
(* A step of SequentialParts is a step of one component, and the others    *)
(* stay as they are.                                                       *)
LEMMA PartSteps ==
  [Next]_partsVars =>
    /\ [ConfigNext]_configVars
    /\ [SourceNext]_sourceVars /\ [DetectNext]_detectVars /\ [AssocNext]_assocVars
    /\ [TrackerNext]_trackVars /\ [PrivacyNext]_privacyVars /\ [RenderNext]_renderVars
<1> SUFFICES ASSUME [Next]_partsVars
             PROVE  /\ [ConfigNext]_configVars
                    /\ [SourceNext]_sourceVars /\ [DetectNext]_detectVars /\ [AssocNext]_assocVars
                    /\ [TrackerNext]_trackVars /\ [PrivacyNext]_privacyVars /\ [RenderNext]_renderVars
  OBVIOUS
<1>1. CASE Next
  BY <1>1 DEF Next
<1>2. CASE UNCHANGED partsVars
  BY <1>2 DEF partsVars
<1> QED
  BY <1>1, <1>2

(* So a behaviour of SequentialParts is one of each component.             *)
LEMMA PartsAreComponents ==
  Spec => /\ ConfigSpec /\ SourceSpec /\ DetectSpec /\ AssocSpec /\ TrackerSpec /\ PrivacySpec
          /\ RenderSpec
<1>1. Init => /\ ConfigInit /\ SourceInit /\ DetectInit /\ AssocInit /\ TrackerInit
              /\ PrivacyInit /\ RenderInit
  BY DEF Init
<1> QED
  BY <1>1, PartSteps, PTL
     DEF Spec, ConfigSpec, SourceSpec, DetectSpec, AssocSpec, TrackerSpec, PrivacySpec,
         RenderSpec

(* What the run checks of all components together, for every value of      *)
(* their constants.                                                        *)
THEOREM PartsHold ==
  Spec => /\ []AcceptedIsUsable /\ PairsAreRight /\ []DetectionsAreTrue /\ []AssociationIsBest
          /\ []TracksAreConsistent /\ []DetectionsAreReported /\ RemovedTracksStayRemoved
          /\ []PeopleAreCovered /\ []OutputFollowsInput /\ []EventsAreStays
  BY PartsAreComponents, AcceptedIsUsableHolds, PairsAreRightHolds, DetectionsAreTrueHolds,
     AssociationIsBestHolds, TracksHold, DetectionsReach, RemovedStay, NobodyGetsLost,
     OutputFollowsInputHolds, EventsAreStaysHolds
===============================================================================
