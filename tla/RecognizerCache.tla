--------------------------- MODULE RecognizerCache ---------------------------
(***************************************************************************)
(* The decisions the MobileFaceNet recognizers of one stream share: which  *)
(* tracks are known, unknown or being looked at, and the gallery they are  *)
(* compared with, which an operator can reload while workers are at work.  *)
(* Each critical section of the code is one step.  A track stands for the  *)
(* person it follows: it matches a gallery that holds this person.  Tracks *)
(* without an id (face-only boxes) are decided without the cache and left  *)
(* out.                                                                    *)
(***************************************************************************)
EXTENDS Integers

CONSTANTS
  Workers,     \* the recognizers, one per thread
  Tracks,      \* the tracks with an id
  Ttl,         \* cfg_.cache_ttl_frames
  MaxFrames,   \* bound: tasks for the frames 0 .. MaxFrames - 1
  MaxReloads   \* bound: the number of gallery reloads

ASSUME TtlAssumption == Ttl \in Nat
ASSUME MaxFramesAssumption == MaxFrames \in Nat
ASSUME MaxReloadsAssumption == MaxReloads \in Nat

VARIABLES
  \* shared
  gallery,     \* the persons of gallery_->gallery
  cache,       \* the state of each track's TrackDecision, or "absent"
  last_seen,   \* its last_seen_frame
  \* reload_gallery
  reloading,   \* between its two critical sections
  reloads,
  \* each worker, in recognize
  next_frame,  \* the task to be popped next
  pc, frame, todo, track,
  snapshot,    \* what current_gallery returned
  allowed,     \* the tracks whose result has privacy_action "allow"
  \* history
  enrolled,    \* the persons any gallery held so far
  late,        \* tracks last decided with a gallery replaced in the meantime
  disowned     \* tracks whose in-progress mark was erased under its worker

shared == <<gallery, cache, last_seen>>
reload == <<reloading, reloads>>
task == <<next_frame, pc, frame, todo, track, snapshot, allowed>>
history == <<enrolled, late, disowned>>
vars == <<shared, reload, task, history>>

Decided == {"known", "unknown"}
At == {"idle", "cleanup", "lookup", "mark", "extract", "match", "clear"}

TypeOK ==
  /\ gallery \in SUBSET Tracks
  /\ cache \in [Tracks -> Decided \cup {"absent", "in_progress"}]
  /\ last_seen \in [Tracks -> 0 .. MaxFrames]
  /\ reloading \in BOOLEAN
  /\ reloads \in 0 .. MaxReloads
  /\ next_frame \in 0 .. MaxFrames
  /\ pc \in [Workers -> At]
  /\ frame \in [Workers -> 0 .. MaxFrames]
  /\ todo \in [Workers -> SUBSET Tracks]
  /\ track \in [Workers -> Tracks]
  /\ snapshot \in [Workers -> SUBSET Tracks]
  /\ allowed \in [Workers -> SUBSET Tracks]
  /\ enrolled \in SUBSET Tracks /\ late \in SUBSET Tracks /\ disowned \in SUBSET Tracks

Init ==
  /\ gallery \in SUBSET Tracks
  /\ cache = [t \in Tracks |-> "absent"]
  /\ last_seen = [t \in Tracks |-> 0]
  /\ reloading = FALSE
  /\ reloads = 0
  /\ next_frame = 0
  /\ pc = [w \in Workers |-> "idle"]
  /\ frame = [w \in Workers |-> 0]
  /\ todo = [w \in Workers |-> {}]
  /\ track \in {[w \in Workers |-> t] : t \in Tracks}
  /\ snapshot = [w \in Workers |-> {}]
  /\ allowed = [w \in Workers |-> {}]
  /\ enrolled = gallery
  /\ late = {} /\ disowned = {}

Goto(w, label) == pc' = [pc EXCEPT ![w] = label]

(* The workers that marked track t and are at its embedding.               *)
Owners(t) == {w \in Workers : track[w] = t /\ pc[w] \in {"extract", "match", "clear"}}

(* The tracks of E leave the cache. *)
Erase(E) ==
  /\ cache' = [t \in Tracks |-> IF t \in E THEN "absent" ELSE cache[t]]
  /\ late' = late \ E

(* Wrong variants of some definitions, which the properties are to tell    *)
(* from the right ones, have the definition's name and what is wrong with  *)
(* it.  This one anonymizes only what is decided unknown.                  *)
Apply_FailsOpen(w, t, d) ==
  allowed' = IF d # "unknown" THEN [allowed EXCEPT ![w] = @ \cup {t}] ELSE allowed

(* The result of worker w for track t follows decision d. *)
Apply(w, t, d) ==
  allowed' = IF d = "known" THEN [allowed EXCEPT ![w] = @ \cup {t}] ELSE allowed

-----------------------------------------------------------------------------
(* A worker pops the next task; it lists some tracks. *)
TakeTask(w) ==
  /\ pc[w] = "idle"
  /\ next_frame < MaxFrames
  /\ next_frame' = next_frame + 1
  /\ frame' = [frame EXCEPT ![w] = next_frame]
  /\ \E T \in SUBSET Tracks : todo' = [todo EXCEPT ![w] = T]
  /\ allowed' = [allowed EXCEPT ![w] = {}]
  /\ Goto(w, "cleanup")
  /\ UNCHANGED <<shared, reload, track, snapshot, history>>

(* cleanup_cache *)
Expired(f) == {t \in Tracks : cache[t] # "absent" /\ f - last_seen[t] > Ttl}

Cleanup(w) ==
  /\ pc[w] = "cleanup"
  /\ Erase(Expired(frame[w]))
  /\ disowned' = disowned \cup {t \in Expired(frame[w]) : cache[t] = "in_progress"}
  /\ Goto(w, "lookup")
  /\ UNCHANGED <<gallery, last_seen, reload, next_frame, frame, todo, track, snapshot,
                 allowed, enrolled>>

(* apply_cached_decision for the next track, then passes_quality_gates,    *)
(* which looks at the track's face and may go either way.                  *)
Lookup(w, t) ==
  /\ pc[w] = "lookup"
  /\ t \in todo[w]
  /\ todo' = [todo EXCEPT ![w] = @ \ {t}]
  /\ track' = [track EXCEPT ![w] = t]
  /\ Apply(w, t, cache[t])
  /\ last_seen' = IF cache[t] \in Decided THEN [last_seen EXCEPT ![t] = frame[w]]
                                          ELSE last_seen
  /\ \/ pc' = pc
     \/ cache[t] = "absent" /\ Goto(w, "mark")
  /\ UNCHANGED <<gallery, cache, reload, next_frame, frame, snapshot, history>>

(* Wrong: the mark is set without looking again at the cache. *)
Unmarked_Unchecked(t) == TRUE

Unmarked(t) == cache[t] = "absent"

(* mark_in_progress *)
MarkInProgress(w) ==
  LET t == track[w] IN
  /\ pc[w] = "mark"
  /\ Goto(w, IF Unmarked(t) THEN "extract" ELSE "lookup")
  /\ cache' = IF Unmarked(t) THEN [cache EXCEPT ![t] = "in_progress"] ELSE cache
  /\ last_seen' = IF cache[t] # "in_progress" THEN [last_seen EXCEPT ![t] = frame[w]]
                                              ELSE last_seen
  /\ Apply(w, t, cache[t])
  /\ UNCHANGED <<gallery, reload, next_frame, frame, todo, track, snapshot, history>>

(* Wrong: a failure leaves the mark in the cache. *)
AfterThrow_KeepsMark == "lookup"

AfterThrow == "clear"

(* extract_embedding, which may throw, and current_gallery *)
Extract(w) ==
  /\ pc[w] = "extract"
  /\ \/ Goto(w, "match") /\ snapshot' = [snapshot EXCEPT ![w] = gallery]
     \/ Goto(w, AfterThrow) /\ UNCHANGED snapshot
  /\ UNCHANGED <<shared, reload, next_frame, frame, todo, track, allowed, history>>

(* best_gallery_match with the threshold, and finish_decision *)
Decision(w) == IF track[w] \in snapshot[w] THEN "known" ELSE "unknown"

FinishDecision(w) ==
  LET t == track[w] IN
  /\ pc[w] = "match"
  /\ cache' = [cache EXCEPT ![t] = Decision(w)]
  /\ last_seen' = [last_seen EXCEPT ![t] = frame[w]]
  /\ Apply(w, t, Decision(w))
  /\ late' = IF snapshot[w] = gallery THEN late \ {t} ELSE late \cup {t}
  /\ Goto(w, "lookup")
  /\ UNCHANGED <<gallery, reload, next_frame, frame, todo, track, snapshot, enrolled, disowned>>

(* clear_in_progress.  The mark erased may be another worker's. *)
ClearInProgress(w) ==
  LET mine == {t \in {track[w]} : cache[t] = "in_progress"} IN
  /\ pc[w] = "clear"
  /\ Erase(mine)
  /\ disowned' = disowned \cup {t \in mine : Owners(t) # {w}}
  /\ Goto(w, "lookup")
  /\ UNCHANGED <<gallery, last_seen, reload, next_frame, frame, todo, track, snapshot,
                 allowed, enrolled>>

EndTask(w) ==
  /\ pc[w] = "lookup"
  /\ todo[w] = {}
  /\ Goto(w, "idle")
  /\ UNCHANGED <<shared, reload, next_frame, frame, todo, track, snapshot, allowed, history>>

(* reload_gallery: the new gallery, then, under another lock, an empty     *)
(* cache.  RunnerManager's lock admits one reload at a time.               *)
SwapGallery ==
  /\ ~reloading
  /\ reloads < MaxReloads
  /\ gallery' \in SUBSET Tracks
  /\ enrolled' = enrolled \cup gallery'
  /\ reloading' = TRUE
  /\ reloads' = reloads + 1
  /\ UNCHANGED <<cache, last_seen, task, late, disowned>>

(* Wrong: only the unknown get a new decision. *)
Outdated_Unknown == {t \in Tracks : cache[t] = "unknown"}

(* What a reload erases from the cache. *)
Outdated == Tracks

ClearCache ==
  /\ reloading
  /\ Erase(Outdated)
  /\ disowned' = disowned \cup {t \in Outdated : cache[t] = "in_progress"}
  /\ reloading' = FALSE
  /\ UNCHANGED <<gallery, last_seen, reloads, task, enrolled>>

Recognize(w) ==
  \/ Cleanup(w) \/ MarkInProgress(w) \/ Extract(w) \/ FinishDecision(w)
  \/ ClearInProgress(w) \/ EndTask(w)
  \/ \E t \in Tracks : Lookup(w, t)

Next ==
  \/ \E w \in Workers : TakeTask(w) \/ Recognize(w)
  \/ SwapGallery \/ ClearCache

Spec == Init /\ [][Next]_vars

(* A worker that took a task works on it. *)
FairSpec == Spec /\ \A w \in Workers : WF_vars(Recognize(w))

-----------------------------------------------------------------------------
(* A track is marked in progress only while some worker is at it: a mark   *)
(* without one would keep the track undecided for as long as it is seen.   *)
(* Marks are erased by expiry, by a reload, and by workers that fail.      *)
NoOrphanMark == \A t \in Tracks : cache[t] = "in_progress" => Owners(t) # {}

(* One worker at a time computes the embedding of a track, as long as no   *)
(* mark of this track was erased while its worker was at it.               *)
OneExtraction == \A t \in Tracks \ disowned : \A v, w \in Owners(t) : v = w

(* Once a reload is over, cached decisions are those of the new gallery,   *)
(* save the ones a worker that had taken the old gallery stored after the  *)
(* cache was cleared.  The order of the two critical sections matters.     *)
ReloadReaches ==
  ~reloading =>
    \A t \in Tracks \ late :
      cache[t] \in Decided => (cache[t] = "known" <=> t \in gallery)

(* Fail-closed: a person no gallery ever held is not shown, whatever is    *)
(* cached, pending, failed or reloaded.                                    *)
OnlyEnrolledAllowed == \A w \in Workers : allowed[w] \subseteq enrolled

(* Every track seen is decided in the end or forgotten: no mark stays.     *)
MarksResolve == \A t \in Tracks : (cache[t] = "in_progress") ~> (cache[t] # "in_progress")

(* README.md:141-143: known matches of the gallery's active identities are *)
(* allowed, unknown tracks remain anonymized.  After a reload nobody the   *)
(* gallery does not hold is cached as known.                               *)
ReloadIsFinal ==
  ~reloading => \A t \in Tracks : cache[t] = "known" => t \in gallery
=============================================================================
