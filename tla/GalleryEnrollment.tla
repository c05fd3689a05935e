--------------------------- MODULE GalleryEnrollment ---------------------------
(***************************************************************************)
(* Enrolment in the Controller: an image's face candidates are cached for  *)
(* a while, the ones the operator picks are stored one by one, and the     *)
(* Runner is told to load the gallery anew, unless auto_refresh is off.    *)
(* Everything but that call is done without an await, so only reloads      *)
(* interleave.  RunnerManager loads under its lock (RunnerManager), and    *)
(* the pipeline loads when it starts.                                      *)
(*                                                                         *)
(* One identity and one image: what is stored of a candidate is how often. *)
(***************************************************************************)
EXTENDS Naturals, Sequences, SequencesExt, FiniteSets

CONSTANTS
  Candidates,   \* faces the Runner found in the image
  Requests,     \* requests under way at a time
  MaxCopies     \* bound: embeddings stored of one candidate

VARIABLES
  autoRefresh, \* settings.auto_refresh, read when the Controller starts
  identity,    \* "none", "inactive" or "active"
  stored,      \* active embeddings of each candidate
  cached,      \* the image's entry in _enrollments: "none", "cached", "gone"
  usable,      \* its candidates of good quality
  request,     \* requests that wait for reload_gallery
  runner,      \* the embeddings the Runner compares faces with
  unsynced,    \* history: a change whose reload failed or was never asked for
  repeated     \* history: a candidate was named twice or tried again

storeVars == << identity, stored >>
enrollmentVars == << cached, usable >>
galleryVars ==
  << autoRefresh, storeVars, enrollmentVars, request, runner, unsynced, repeated >>

None == [c \in Candidates |-> 0]

GalleryInit ==
  /\ autoRefresh \in BOOLEAN
  /\ identity = "none" /\ stored = None
  /\ cached = "none" /\ usable = {}
  /\ request = [r \in Requests |-> "idle"]
  /\ runner = None
  /\ unsynced = FALSE /\ repeated = {}

\* What the Runner's query of the database finds.
Loadable == IF identity = "active" THEN stored ELSE None

\* A change of the store that leaves the Runner as it is.
LeavesRunner == unsynced' = (unsynced \/ runner # Loadable') /\ UNCHANGED runner

\* The store has changed: the request asks the Runner to reload and waits, or
\* ends at once when auto_refresh is off.
AsksReload(r) ==
  /\ request[r] = "idle"
  /\ \/ /\ autoRefresh
        /\ request' = [request EXCEPT ![r] = "reloading"]
        /\ UNCHANGED << runner, unsynced >>
     \/ ~autoRefresh /\ LeavesRunner /\ UNCHANGED request

CreateIdentity ==
  /\ identity = "none"
  /\ identity' = "active"
  /\ UNCHANGED << stored, enrollmentVars, request, runner, unsynced, repeated >>

SetActive(r) ==
  /\ identity # "none"
  /\ identity' \in {"active", "inactive"}
  /\ UNCHANGED << stored, enrollmentVars, repeated >>
  /\ AsksReload(r)

DeleteIdentity(r) ==
  /\ identity # "none"
  /\ identity' = "none" /\ stored' = None
  /\ UNCHANGED << enrollmentVars, repeated >>
  /\ AsksReload(r)

DeactivateEmbedding(r, c) ==
  /\ stored[c] > 0
  /\ stored' = [stored EXCEPT ![c] = @ - 1]
  /\ UNCHANGED << identity, enrollmentVars, repeated >>
  /\ AsksReload(r)

\* analyze_image answers: _cache_runner_candidates.
AnalyzeImage ==
  /\ cached = "none"
  /\ cached' = "cached"
  /\ usable' \in SUBSET Candidates
  /\ UNCHANGED << storeVars, request, runner, unsynced, repeated >>

\* Any later request prunes an enrollment that has expired.
Expire ==
  /\ cached = "cached"
  /\ cached' = "gone"
  /\ UNCHANGED << storeVars, usable, request, runner, unsynced, repeated >>

\* The candidates stored before the first that cannot be.
StoredOf(ids) ==
  LET bad == {i \in DOMAIN ids : ids[i] \notin usable} IN
  SubSeq(ids, 1, IF bad = {} THEN Len(ids) ELSE (CHOOSE i \in bad : \A j \in bad : i <= j) - 1)

Copies(ids) == [c \in Candidates |-> stored[c] + Cardinality({i \in DOMAIN ids : ids[i] = c})]

\* What commit_candidates leaves in _enrollments, and a mutant that keeps it.
StillCached_Always(done) == "cached"
StillCached(done) == IF done THEN "gone" ELSE "cached"

\* commit_candidates.  A candidate that cannot be stored ends the request:
\* those before it stay stored, and the Runner is not told.
Commit(r, ids) ==
  LET added == StoredOf(ids)
      done == added = ids
  IN
  /\ cached = "cached" /\ identity # "none"
  /\ identity' = "active"
  /\ stored' = Copies(added)
  /\ \A c \in Candidates : stored'[c] <= MaxCopies
  /\ cached' = StillCached(done)
  /\ repeated' = repeated \cup (IF done THEN {} ELSE Range(added))
                          \cup {c \in Candidates : stored'[c] > stored[c] + 1}
  /\ IF done THEN AsksReload(r)
     ELSE /\ request[r] = "idle"
          /\ LeavesRunner /\ UNCHANGED request
  /\ UNCHANGED << usable >>

\* The Runner reloads, or it answers that it cannot, or there is no answer:
\* the request ends either way.
ReloadAnswers(r) ==
  /\ request[r] = "reloading"
  /\ request' = [request EXCEPT ![r] = "idle"]
  /\ \/ runner' = Loadable /\ unsynced' = FALSE
     \/ unsynced' = TRUE /\ UNCHANGED runner
  /\ UNCHANGED << storeVars, enrollmentVars, repeated >>

\* Refresh in the user interface, and a pipeline that starts.
RunnerLoads ==
  /\ runner' = Loadable /\ unsynced' = FALSE
  /\ UNCHANGED << storeVars, enrollmentVars, request, repeated >>

Picks == {<< c >> : c \in Candidates} \cup (Candidates \X Candidates)

GalleryNext ==
  /\ \/ CreateIdentity \/ AnalyzeImage \/ Expire \/ RunnerLoads
     \/ \E r \in Requests :
          \/ SetActive(r) \/ DeleteIdentity(r) \/ ReloadAnswers(r)
          \/ \E c \in Candidates : DeactivateEmbedding(r, c)
          \/ \E ids \in Picks : Commit(r, ids)
  /\ UNCHANGED autoRefresh

GallerySpec == GalleryInit /\ [][GalleryNext]_galleryVars

-----------------------------------------------------------------------------
\* With no request under way the Runner compares with what is stored, unless
\* since it last loaded the gallery a reload failed, or a change asked for
\* none: a commit that ended half-way, or any change when auto_refresh is off
\* (the operator's refresh then brings the Runner up to date).  And a
\* candidate is stored twice only if it was named twice, or tried again
\* after a commit that ended half-way (gallery_service.py:99-141).
EnrolledOnceAndLoaded ==
  /\ (\A r \in Requests : request[r] = "idle") => unsynced \/ runner = Loadable
  /\ \A c \in Candidates : stored[c] > 1 => c \in repeated
===============================================================================
