-------------------------- MODULE RecognitionProofs ---------------------------
(***************************************************************************)
(* Proofs about face recognition: the Runner's cache, for every set of     *)
(* workers and tracks, any cache lifetime and any number of frames and     *)
(* reloads; and the Controller's enrollment, which fills the gallery that  *)
(* the cache is checked against, for every set of candidates and requests. *)
(***************************************************************************)
EXTENDS RecognizerCache, GalleryEnrollment, FiniteSetTheorems, SequenceTheorems, NaturalsInduction,
        WellFoundedInduction, TLAPS

-----------------------------------------------------------------------------
(***************************************************************************)
(* RecognizerCache.                                                        *)
(***************************************************************************)
(* Type correctness of the shared cache and of its workers.                *)
THEOREM TypeCorrect == Spec => []TypeOK
<1> USE TtlAssumption, MaxFramesAssumption, MaxReloadsAssumption
<1>1. ASSUME Init PROVE TypeOK
  <2>1. 0 \in 0 .. MaxFrames /\ 0 \in 0 .. MaxReloads
    OBVIOUS
  <2>2. track \in [Workers -> Tracks]
    BY <1>1 DEF Init
  <2>3. reloading \in BOOLEAN
    BY <1>1 DEF Init
  <2> QED
    BY <1>1, <2>1, <2>2, <2>3 DEF Init, TypeOK, Decided, At
<1>2. TypeOK /\ [Next]_vars => TypeOK'
  <2> SUFFICES ASSUME TypeOK, [Next]_vars PROVE TypeOK'
    OBVIOUS
  <2> USE DEF TypeOK, Decided, At, Goto, shared, reload, history
  <2>1. ASSUME NEW w \in Workers, TakeTask(w) PROVE TypeOK'
    BY <2>1 DEF TakeTask
  <2>2. ASSUME NEW w \in Workers, Cleanup(w) PROVE TypeOK'
    BY <2>2 DEF Cleanup, Erase, Expired
  <2>3. ASSUME NEW w \in Workers, NEW t \in Tracks, Lookup(w, t) PROVE TypeOK'
    BY <2>3 DEF Lookup, Apply
  <2>4. ASSUME NEW w \in Workers, MarkInProgress(w) PROVE TypeOK'
    BY <2>4 DEF MarkInProgress, Unmarked, Apply
  <2>5. ASSUME NEW w \in Workers, Extract(w) PROVE TypeOK'
    BY <2>5 DEF Extract, AfterThrow
  <2>6. ASSUME NEW w \in Workers, FinishDecision(w) PROVE TypeOK'
    BY <2>6 DEF FinishDecision, Decision, Apply
  <2>7. ASSUME NEW w \in Workers, ClearInProgress(w) PROVE TypeOK'
    BY <2>7 DEF ClearInProgress, Erase
  <2>8. ASSUME NEW w \in Workers, EndTask(w) PROVE TypeOK'
    BY <2>8 DEF EndTask
  <2>9. CASE SwapGallery
    BY <2>9 DEF SwapGallery, task
  <2>10. CASE ClearCache
    BY <2>10 DEF ClearCache, Outdated, Erase, task
  <2>11. CASE UNCHANGED vars
    BY <2>11 DEF vars, task
  <2> QED
    BY <2>1, <2>2, <2>3, <2>4, <2>5, <2>6, <2>7, <2>8, <2>9, <2>10, <2>11
    DEF Next, Recognize
<1> QED
  BY <1>1, <1>2, PTL DEF Spec

-----------------------------------------------------------------------------
(* Marks and the workers at them: a mark has a worker, and as long as no   *)
(* mark of a track was erased under a worker, each worker at the track     *)
(* finds its mark in the cache and is alone.                               *)
OwnersAreMarked ==
  \A t \in Tracks \ disowned : \A w \in Owners(t) : cache[t] = "in_progress"

Marks == NoOrphanMark /\ OwnersAreMarked /\ OneExtraction

\* Every step keeps the marks and the workers at them together.
LEMMA MarksStep == TypeOK /\ Marks /\ [Next]_vars => Marks'
<1> SUFFICES ASSUME TypeOK, Marks, [Next]_vars PROVE Marks'
  OBVIOUS
<1> USE DEF TypeOK, Decided, At, Goto, shared, reload, history,
            Marks, NoOrphanMark, OwnersAreMarked, OneExtraction, Owners
<1>1. ASSUME NEW w \in Workers, TakeTask(w) PROVE Marks'
  BY <1>1 DEF TakeTask
<1>2. ASSUME NEW w \in Workers, Cleanup(w) PROVE Marks'
  BY <1>2 DEF Cleanup, Erase
<1>3. ASSUME NEW w \in Workers, NEW t \in Tracks, Lookup(w, t) PROVE Marks'
  BY <1>3 DEF Lookup
<1>4. ASSUME NEW w \in Workers, MarkInProgress(w) PROVE Marks'
  BY <1>4 DEF MarkInProgress, Unmarked
<1>5. ASSUME NEW w \in Workers, Extract(w) PROVE Marks'
  BY <1>5 DEF Extract, AfterThrow
<1>6. ASSUME NEW w \in Workers, FinishDecision(w) PROVE Marks'
  BY <1>6 DEF FinishDecision, Decision
<1>7. ASSUME NEW w \in Workers, ClearInProgress(w) PROVE Marks'
  BY <1>7 DEF ClearInProgress, Erase
<1>8. ASSUME NEW w \in Workers, EndTask(w) PROVE Marks'
  BY <1>8 DEF EndTask
<1>9. CASE SwapGallery
  BY <1>9 DEF SwapGallery, task
<1>10. CASE ClearCache
  BY <1>10 DEF ClearCache, Outdated, Erase, task
<1>11. CASE UNCHANGED vars
  BY <1>11 DEF vars, task
<1> QED
  BY <1>1, <1>2, <1>3, <1>4, <1>5, <1>6, <1>7, <1>8, <1>9, <1>10, <1>11
  DEF Next, Recognize

\* So the marks and the workers at them always fit.
LEMMA MarksAlways == Spec => []Marks
<1>1. Init => Marks
  BY DEF Init, Marks, NoOrphanMark, OwnersAreMarked, OneExtraction, Owners
<1> QED
  BY <1>1, MarksStep, TypeCorrect, PTL DEF Spec

(* A track is marked in progress only while a worker is at it.             *)
THEOREM MarksAreOwned == Spec => []NoOrphanMark
<1>1. Marks => NoOrphanMark
  BY DEF Marks
<1> QED
  BY <1>1, MarksAlways, PTL

(* One worker at a time is at a track none of whose marks was erased.      *)
THEOREM ExtractionIsExclusive == Spec => []OneExtraction
<1>1. Marks => OneExtraction
  BY DEF Marks
<1> QED
  BY <1>1, MarksAlways, PTL

-----------------------------------------------------------------------------
(* A finished reload reaches every cached decision but the late ones.      *)
THEOREM ReloadsReach == Spec => []ReloadReaches
<1>1. Init => ReloadReaches
  BY DEF Init, ReloadReaches, Decided
<1>2. TypeOK /\ ReloadReaches /\ [Next]_vars => ReloadReaches'
  <2> SUFFICES ASSUME TypeOK, ReloadReaches, [Next]_vars PROVE ReloadReaches'
    OBVIOUS
  <2> USE DEF TypeOK, Decided, shared, reload, history, ReloadReaches
  <2>1. ASSUME NEW w \in Workers, TakeTask(w) PROVE ReloadReaches'
    BY <2>1 DEF TakeTask
  <2>2. ASSUME NEW w \in Workers, Cleanup(w) PROVE ReloadReaches'
    BY <2>2 DEF Cleanup, Erase
  <2>3. ASSUME NEW w \in Workers, NEW t \in Tracks, Lookup(w, t) PROVE ReloadReaches'
    BY <2>3 DEF Lookup
  <2>4. ASSUME NEW w \in Workers, MarkInProgress(w) PROVE ReloadReaches'
    BY <2>4 DEF MarkInProgress, Unmarked
  <2>5. ASSUME NEW w \in Workers, Extract(w) PROVE ReloadReaches'
    BY <2>5 DEF Extract, AfterThrow
  <2>6. ASSUME NEW w \in Workers, FinishDecision(w) PROVE ReloadReaches'
    BY <2>6 DEF FinishDecision, Decision
  <2>7. ASSUME NEW w \in Workers, ClearInProgress(w) PROVE ReloadReaches'
    BY <2>7 DEF ClearInProgress, Erase
  <2>8. ASSUME NEW w \in Workers, EndTask(w) PROVE ReloadReaches'
    BY <2>8 DEF EndTask
  <2>9. CASE SwapGallery
    BY <2>9 DEF SwapGallery, task
  <2>10. CASE ClearCache
    BY <2>10 DEF ClearCache, Outdated, Erase, task
  <2>11. CASE UNCHANGED vars
    BY <2>11 DEF vars, task
  <2> QED
    BY <2>1, <2>2, <2>3, <2>4, <2>5, <2>6, <2>7, <2>8, <2>9, <2>10, <2>11
    DEF Next, Recognize
<1> QED
  BY <1>1, <1>2, TypeCorrect, PTL DEF Spec

-----------------------------------------------------------------------------
(* Whoever is allowed, cached as known or held by a worker's gallery was   *)
(* enrolled before.                                                        *)
Enrolled ==
  /\ OnlyEnrolledAllowed
  /\ gallery \subseteq enrolled
  /\ \A w \in Workers : snapshot[w] \subseteq enrolled
  /\ \A t \in Tracks : cache[t] = "known" => t \in enrolled

(* Nobody who was in no gallery is ever allowed.                           *)
THEOREM FailsClosed == Spec => []OnlyEnrolledAllowed
<1>1. Init => Enrolled
  BY DEF Init, Enrolled, OnlyEnrolledAllowed
<1>2. TypeOK /\ Enrolled /\ [Next]_vars => Enrolled'
  <2> SUFFICES ASSUME TypeOK, Enrolled, [Next]_vars PROVE Enrolled'
    OBVIOUS
  <2> USE DEF TypeOK, Decided, shared, reload, history, Enrolled, OnlyEnrolledAllowed
  <2>1. ASSUME NEW w \in Workers, TakeTask(w) PROVE Enrolled'
    BY <2>1 DEF TakeTask
  <2>2. ASSUME NEW w \in Workers, Cleanup(w) PROVE Enrolled'
    BY <2>2 DEF Cleanup, Erase
  <2>3. ASSUME NEW w \in Workers, NEW t \in Tracks, Lookup(w, t) PROVE Enrolled'
    BY <2>3 DEF Lookup, Apply
  <2>4. ASSUME NEW w \in Workers, MarkInProgress(w) PROVE Enrolled'
    BY <2>4 DEF MarkInProgress, Unmarked, Apply
  <2>5. ASSUME NEW w \in Workers, Extract(w) PROVE Enrolled'
    BY <2>5 DEF Extract, AfterThrow
  <2>6. ASSUME NEW w \in Workers, FinishDecision(w) PROVE Enrolled'
    BY <2>6 DEF FinishDecision, Decision, Apply
  <2>7. ASSUME NEW w \in Workers, ClearInProgress(w) PROVE Enrolled'
    BY <2>7 DEF ClearInProgress, Erase
  <2>8. ASSUME NEW w \in Workers, EndTask(w) PROVE Enrolled'
    BY <2>8 DEF EndTask
  <2>9. CASE SwapGallery
    BY <2>9 DEF SwapGallery, task
  <2>10. CASE ClearCache
    BY <2>10 DEF ClearCache, Outdated, Erase, task
  <2>11. CASE UNCHANGED vars
    BY <2>11 DEF vars, task
  <2> QED
    BY <2>1, <2>2, <2>3, <2>4, <2>5, <2>6, <2>7, <2>8, <2>9, <2>10, <2>11
    DEF Next, Recognize
<1>3. Enrolled => OnlyEnrolledAllowed
  BY DEF Enrolled
<1> QED
  BY <1>1, <1>2, <1>3, TypeCorrect, PTL DEF Spec

-----------------------------------------------------------------------------
(***************************************************************************)
(* GalleryEnrollment: what is stored, and what the Runner has loaded of    *)
(* it.                                                                     *)
(***************************************************************************)
GalleryTypeOK ==
  /\ autoRefresh \in BOOLEAN /\ identity \in {"none", "inactive", "active"}
  /\ stored \in [Candidates -> Nat] /\ runner \in [Candidates -> Nat]
  /\ cached \in {"none", "cached", "gone"} /\ usable \in SUBSET Candidates
  /\ request \in [Requests -> {"idle", "reloading"}]
  /\ unsynced \in BOOLEAN /\ repeated \in SUBSET Candidates

(* Nothing is stored of an identity that does not exist. *)
NothingWithoutIdentity == identity = "none" => stored = None

(* Before the image is analysed nothing of it is stored; while its         *)
(* enrollment is cached, only what a commit that ended half-way left.      *)
OpenMeansUnstored ==
  /\ cached = "none" => stored = None
  /\ cached = "cached" => \A c \in Candidates : stored[c] > 0 => c \in repeated

GalleryInv ==
  /\ GalleryTypeOK /\ NothingWithoutIdentity /\ OpenMeansUnstored /\ EnrolledOnceAndLoaded

(* A set of numbers that is not empty has a least one.                     *)
LEMMA LeastExists ==
  ASSUME NEW S \in SUBSET Nat, S # {}
  PROVE  \E m \in S : \A x \in S : m <= x
<1>1. PICK m \in S : \A y \in S : <<y, m>> \notin OpToRel(<, Nat)
  BY NatLessThanWellFounded, WFMin
<1>2. ASSUME NEW x \in S PROVE m <= x
  <2>1. <<x, m>> \notin OpToRel(<, Nat)
    BY <1>1
  <2>2. ~(x < m)
    BY <2>1 DEF OpToRel
  <2> QED
    BY <2>2
<1> QED
  BY <1>2

(* What is stored of a pick is a sequence of candidates. *)
LEMMA StoredOfFacts ==
  ASSUME NEW ids \in Seq(Candidates)
  PROVE  StoredOf(ids) \in Seq(Candidates)
<1> DEFINE bad == {i \in DOMAIN ids : ids[i] \notin usable}
           least == CHOOSE i \in bad : \A j \in bad : i <= j
           n == IF bad = {} THEN Len(ids) ELSE least - 1
<1>1. StoredOf(ids) = SubSeq(ids, 1, n)
  BY DEF StoredOf
<1>2. Len(ids) \in Nat /\ DOMAIN ids = 1..Len(ids)
  BY LenProperties
<1>3. bad \in SUBSET (1..Len(ids)) /\ bad \in SUBSET Nat
  BY <1>2
<1>4. CASE bad # {}
  <2> HIDE DEF bad
  <2>1. \E i \in bad : \A j \in bad : i <= j
    BY <1>3, <1>4, LeastExists
  <2>2. least \in bad
    BY <2>1
  <2> HIDE DEF least
  <2>3. least \in 1..Len(ids) /\ n = least - 1
    BY <1>3, <1>4, <2>2
  <2> HIDE DEF n
  <2>4. n \in 0..Len(ids)
    BY <1>2, <2>3
  <2>5. SubSeq(ids, 1, n) \in Seq(Candidates)
    <3>1. \A i \in 1..n : ids[i] \in Candidates
      BY <1>2, <2>4, ElementOfSeq
    <3> QED
      BY <1>2, <2>4, <3>1, SubSeqProperties
  <2> QED
    BY <1>1, <2>5
<1>5. CASE bad = {}
  <2>1. \A i \in 1..Len(ids) : ids[i] \in Candidates
    BY ElementOfSeq
  <2> QED
    BY <1>1, <1>2, <1>5, <2>1, SubSeqProperties
<1> QED
  BY <1>4, <1>5

(* Storing a sequence adds one embedding per place a candidate has in it. *)
LEMMA CopiesFacts ==
  ASSUME GalleryTypeOK, NEW ids \in Seq(Candidates)
  PROVE  /\ Copies(ids) \in [Candidates -> Nat]
         /\ \A c \in Candidates :
              /\ Copies(ids)[c] >= stored[c]
              /\ c \notin Range(ids) => Copies(ids)[c] = stored[c]
<1>1. Len(ids) \in Nat /\ DOMAIN ids = 1..Len(ids)
  BY LenProperties
<1>2. IsFiniteSet(DOMAIN ids)
  BY <1>1, FS_Interval
<1>3. ASSUME NEW c \in Candidates
      PROVE  Cardinality({i \in DOMAIN ids : ids[i] = c}) \in Nat
  BY <1>2, FS_Subset, FS_CardinalityType
<1>4. ASSUME NEW c \in Candidates, c \notin Range(ids)
      PROVE  Cardinality({i \in DOMAIN ids : ids[i] = c}) = 0
  <2>1. {i \in DOMAIN ids : ids[i] = c} = {}
    BY <1>4 DEF Range
  <2> QED
    BY <2>1, FS_EmptySet
<1>5. \A c \in Candidates : stored[c] \in Nat
  BY DEF GalleryTypeOK
<1>6. \A c \in Candidates :
        Copies(ids)[c] = stored[c] + Cardinality({i \in DOMAIN ids : ids[i] = c})
  BY DEF Copies
<1>7. Copies(ids) \in [Candidates -> Nat]
  BY <1>3, <1>5 DEF Copies
<1>8. ASSUME NEW c \in Candidates
      PROVE  /\ Copies(ids)[c] >= stored[c]
             /\ c \notin Range(ids) => Copies(ids)[c] = stored[c]
  <2> DEFINE k == Cardinality({i \in DOMAIN ids : ids[i] = c})
  <2>1. k \in Nat /\ (c \notin Range(ids) => k = 0)
    BY <1>3, <1>4
  <2>2. Copies(ids)[c] = stored[c] + k
    BY <1>6
  <2> HIDE DEF k
  <2> QED
    BY <1>5, <2>1, <2>2
<1> QED
  BY <1>7, <1>8

(* Nothing is enrolled and nothing cached.                                 *)
LEMMA GalleryInitHolds == GalleryInit => GalleryInv
<1> SUFFICES ASSUME GalleryInit PROVE GalleryInv
  OBVIOUS
<1>1. \A c \in Candidates : stored[c] = 0
  BY DEF GalleryInit, None
<1>2. GalleryTypeOK
  BY DEF GalleryInit, GalleryTypeOK, None
<1> QED
  BY <1>1, <1>2 DEF GalleryInit, GalleryInv, NothingWithoutIdentity, OpenMeansUnstored,
         EnrolledOnceAndLoaded, Loadable

(* The transaction of an enrollment: every candidate it stores is stored   *)
(* once more, and marked unsynced until the Runner has it.                 *)
LEMMA CommitKeeps ==
  ASSUME GalleryInv, NEW r \in Requests, NEW ids \in Picks, Commit(r, ids), UNCHANGED autoRefresh
  PROVE  GalleryInv'
<1> USE DEF GalleryInv
<1> DEFINE added == StoredOf(ids)
           done == added = ids
<1>1. ids \in Seq(Candidates)
  <2>1. \A c \in Candidates : << c >> \in Seq(Candidates)
    OBVIOUS
  <2>2. ASSUME NEW k \in Candidates \X Candidates PROVE k \in Seq(Candidates)
    <3>1. PICK a \in Candidates, b \in Candidates : k = << a, b >>
      OBVIOUS
    <3> QED
      BY <3>1
  <2> QED
    BY <2>1, <2>2 DEF Picks
<1>2. added \in Seq(Candidates)
  BY <1>1, StoredOfFacts
<1>3. /\ cached = "cached" /\ identity # "none" /\ identity' = "active"
      /\ stored' = Copies(added) /\ cached' = StillCached(done)
      /\ repeated' = repeated \cup (IF done THEN {} ELSE Range(added))
                              \cup {c \in Candidates : stored'[c] > stored[c] + 1}
      /\ usable' = usable /\ request[r] = "idle"
  BY DEF Commit, AsksReload
<1>4. Range(added) \in SUBSET Candidates
  BY <1>2, LenProperties DEF Range
<1>5. /\ stored' \in [Candidates -> Nat]
      /\ \A c \in Candidates : stored'[c] >= stored[c]
      /\ \A c \in Candidates : c \notin Range(added) => stored'[c] = stored[c]
  BY <1>2, <1>3, CopiesFacts
<1>6. \/ /\ request' = [request EXCEPT ![r] = "reloading"]
         /\ UNCHANGED << runner, unsynced >>
      \/ /\ UNCHANGED << request, runner >>
         /\ unsynced' = (unsynced \/ runner # Loadable')
  BY DEF Commit, AsksReload, LeavesRunner
<1> HIDE DEF done, added
<1>7. GalleryTypeOK'
  <2>1. repeated' \in SUBSET Candidates
    BY <1>3, <1>4 DEF GalleryTypeOK
  <2>2. unsynced' \in BOOLEAN
    BY <1>6 DEF GalleryTypeOK
  <2>3. cached' \in {"none", "cached", "gone"}
    BY <1>3 DEF StillCached
  <2> QED
    BY <1>3, <1>5, <1>6, <2>1, <2>2, <2>3 DEF GalleryTypeOK
<1>8. NothingWithoutIdentity'
  BY <1>3 DEF NothingWithoutIdentity
<1>9. \A c \in Candidates : stored[c] \in Nat /\ (stored[c] > 0 => c \in repeated)
  BY <1>3 DEF OpenMeansUnstored, GalleryTypeOK
<1>10. OpenMeansUnstored'
  <2>1. CASE done
    BY <1>3, <2>1 DEF OpenMeansUnstored, StillCached
  <2>2. CASE ~done
    BY <1>3, <1>5, <1>9, <2>2 DEF OpenMeansUnstored, StillCached
  <2> QED
    BY <2>1, <2>2
<1>11. \A c \in Candidates : stored'[c] > 1 => c \in repeated'
  <2> SUFFICES ASSUME NEW c \in Candidates, stored'[c] > 1, c \notin repeated' PROVE FALSE
    OBVIOUS
  <2>1. stored[c] = 0 /\ ~(stored'[c] > stored[c] + 1)
    BY <1>3, <1>9
  <2> QED
    BY <1>5, <2>1
<1>12. (\A q \in Requests : request'[q] = "idle") => unsynced' \/ runner' = Loadable'
  <2>1. CASE request' = [request EXCEPT ![r] = "reloading"]
    BY <2>1 DEF GalleryTypeOK
  <2>2. CASE UNCHANGED runner /\ unsynced' = (unsynced \/ runner # Loadable')
    BY <2>2
  <2> QED
    BY <1>6, <2>1, <2>2
<1> QED
  BY <1>7, <1>8, <1>10, <1>11, <1>12 DEF EnrolledOnceAndLoaded

(* A change of the store after which the Runner is asked to reload, or is  *)
(* left as it is: it differs from what is stored only where that is noted. *)
LEMMA AskingKeeps ==
  ASSUME GalleryInv, NEW r \in Requests, AsksReload(r)
  PROVE  /\ request' \in [Requests -> {"idle", "reloading"}]
         /\ unsynced' \in BOOLEAN /\ runner' = runner
         /\ (\A q \in Requests : request'[q] = "idle") => unsynced' \/ runner' = Loadable'
<1>1. GalleryTypeOK
  BY DEF GalleryInv
<1>2. CASE request' = [request EXCEPT ![r] = "reloading"] /\ UNCHANGED << runner, unsynced >>
  <2>1. request'[r] # "idle"
    BY <1>1, <1>2 DEF GalleryTypeOK
  <2> QED
    BY <1>1, <1>2, <2>1 DEF GalleryTypeOK
<1>3. CASE LeavesRunner /\ UNCHANGED request
  BY <1>1, <1>3 DEF LeavesRunner, GalleryTypeOK
<1> QED
  BY <1>2, <1>3 DEF AsksReload

(* Every step of the Controller, of the database and of the Runner keeps   *)
(* the invariant.                                                          *)
LEMMA GalleryInvIsInductive == GalleryInv /\ [GalleryNext]_galleryVars => GalleryInv'
<1> SUFFICES ASSUME GalleryInv, [GalleryNext]_galleryVars PROVE GalleryInv'
  OBVIOUS
<1> USE DEF GalleryInv, storeVars, enrollmentVars
<1>0. autoRefresh' = autoRefresh
  BY DEF GalleryNext, galleryVars
<1>1. CASE CreateIdentity
  BY <1>0, <1>1 DEF CreateIdentity, GalleryTypeOK, NothingWithoutIdentity, OpenMeansUnstored,
              EnrolledOnceAndLoaded, Loadable
<1>2. CASE AnalyzeImage
  <2>1. \A c \in Candidates : stored[c] = 0
    BY <1>2 DEF AnalyzeImage, OpenMeansUnstored, None
  <2> QED
    BY <1>0, <1>2, <2>1 DEF AnalyzeImage, GalleryTypeOK, NothingWithoutIdentity, OpenMeansUnstored,
                      EnrolledOnceAndLoaded, Loadable
<1>3. CASE Expire
  BY <1>0, <1>3 DEF Expire, GalleryTypeOK, NothingWithoutIdentity, OpenMeansUnstored,
              EnrolledOnceAndLoaded, Loadable
<1>4. CASE RunnerLoads
  BY <1>0, <1>4 DEF RunnerLoads, GalleryTypeOK, NothingWithoutIdentity, OpenMeansUnstored,
              EnrolledOnceAndLoaded, Loadable, None
<1>5. ASSUME NEW r \in Requests, SetActive(r) PROVE GalleryInv'
  <2>1. /\ request' \in [Requests -> {"idle", "reloading"}] /\ unsynced' \in BOOLEAN
        /\ runner' = runner
        /\ (\A q \in Requests : request'[q] = "idle") => unsynced' \/ runner' = Loadable'
    BY <1>5, AskingKeeps DEF SetActive
  <2>2. UNCHANGED << stored, cached, usable, repeated >> /\ identity # "none"
        /\ identity' \in {"active", "inactive"}
    BY <1>5 DEF SetActive
  <2> QED
    BY <1>0, <2>1, <2>2 DEF GalleryTypeOK, NothingWithoutIdentity, OpenMeansUnstored,
       EnrolledOnceAndLoaded, None
<1>6. ASSUME NEW r \in Requests, DeleteIdentity(r) PROVE GalleryInv'
  <2>1. /\ request' \in [Requests -> {"idle", "reloading"}] /\ unsynced' \in BOOLEAN
        /\ runner' = runner
        /\ (\A q \in Requests : request'[q] = "idle") => unsynced' \/ runner' = Loadable'
    BY <1>6, AskingKeeps DEF DeleteIdentity
  <2>2. UNCHANGED << cached, usable, repeated >> /\ identity' = "none" /\ stored' = None
    BY <1>6 DEF DeleteIdentity
  <2> QED
    BY <1>0, <2>1, <2>2 DEF GalleryTypeOK, NothingWithoutIdentity, OpenMeansUnstored,
       EnrolledOnceAndLoaded, None
<1>7. ASSUME NEW r \in Requests, ReloadAnswers(r) PROVE GalleryInv'
  <2>1. UNCHANGED << identity, stored, cached, usable, repeated >> /\ Loadable' = Loadable
    BY <1>7 DEF ReloadAnswers, Loadable
  <2>2. (runner' = Loadable /\ unsynced' = FALSE) \/ (unsynced' = TRUE /\ runner' = runner)
    BY <1>7 DEF ReloadAnswers
  <2>3. Loadable \in [Candidates -> Nat]
    BY DEF Loadable, GalleryTypeOK, None
  <2>4. GalleryTypeOK'
    BY <1>0, <1>7, <2>1, <2>2, <2>3 DEF ReloadAnswers, GalleryTypeOK
  <2> QED
    BY <2>1, <2>2, <2>4 DEF NothingWithoutIdentity, OpenMeansUnstored, EnrolledOnceAndLoaded
<1>8. ASSUME NEW r \in Requests, NEW c \in Candidates, DeactivateEmbedding(r, c) PROVE GalleryInv'
  <2>1. /\ request' \in [Requests -> {"idle", "reloading"}] /\ unsynced' \in BOOLEAN
        /\ runner' = runner
        /\ (\A q \in Requests : request'[q] = "idle") => unsynced' \/ runner' = Loadable'
    BY <1>8, AskingKeeps DEF DeactivateEmbedding
  <2>2. stored' \in [Candidates -> Nat] /\ \A d \in Candidates : stored'[d] <= stored[d]
    BY <1>8 DEF DeactivateEmbedding, GalleryTypeOK
  <2>3. stored # None
    BY <1>8 DEF DeactivateEmbedding, None
  <2>4. GalleryTypeOK' /\ NothingWithoutIdentity'
    BY <1>0, <1>8, <2>1, <2>2, <2>3 DEF DeactivateEmbedding, GalleryTypeOK, NothingWithoutIdentity
  <2>5. \A d \in Candidates : /\ stored'[d] > 0 => stored[d] > 0
                              /\ stored'[d] > 1 => stored[d] > 1
    BY <2>2 DEF GalleryTypeOK
  <2>6. cached' = cached /\ repeated' = repeated
    BY <1>8 DEF DeactivateEmbedding
  <2>7. OpenMeansUnstored'
    BY <2>3, <2>5, <2>6 DEF OpenMeansUnstored
  <2>8. EnrolledOnceAndLoaded'
    BY <2>1, <2>5, <2>6 DEF EnrolledOnceAndLoaded
  <2> QED
    BY <2>4, <2>7, <2>8
<1>9. ASSUME NEW r \in Requests, NEW ids \in Picks, Commit(r, ids) PROVE GalleryInv'
  BY <1>0, <1>9, CommitKeeps
<1>10. CASE UNCHANGED galleryVars
  BY <1>10 DEF galleryVars, GalleryTypeOK, NothingWithoutIdentity, OpenMeansUnstored,
              EnrolledOnceAndLoaded, Loadable
<1> QED
  BY <1>1, <1>2, <1>3, <1>4, <1>5, <1>6, <1>7, <1>8, <1>9, <1>10 DEF GalleryNext

(* EnrolledOnceAndLoaded (runner enrollment and reload): what is stored    *)
(* twice was asked for twice, and a Runner that is in step with the        *)
(* database has what it holds.                                             *)
THEOREM EnrolledOnceAndLoadedHolds == GallerySpec => []EnrolledOnceAndLoaded
<1>1. GalleryInit => GalleryInv
  BY GalleryInitHolds
<1>2. GalleryInv /\ [GalleryNext]_galleryVars => GalleryInv'
  BY GalleryInvIsInductive
<1>3. GalleryInv => EnrolledOnceAndLoaded
  BY DEF GalleryInv
<1> QED
  BY <1>1, <1>2, <1>3, PTL DEF GallerySpec
===============================================================================
