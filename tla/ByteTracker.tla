----------------------------- MODULE ByteTracker -----------------------------
(***************************************************************************)
(* ByteTracker: the tracks of one stream, from the detections of one frame *)
(* to those of the next.  update() is one action; it is called with the    *)
(* frames of the stream in order, with gaps (the coordinator gives up      *)
(* frames, see StreamCoordinator).                                         *)
(*                                                                         *)
(* Geometry is abstracted: Association may pair tracks and detections in   *)
(* any one-to-one way, and any tracked and lost track may overlap.  Of a   *)
(* detection's score only the threshold it reaches is kept.  A track is    *)
(* its id; its state is Tracked or Lost by the list that holds it.  A new  *)
(* track is activated at once, so the code's third stage, over tracks that *)
(* are not, never has any.                                                 *)
(***************************************************************************)
EXTENDS Integers, Functions

CONSTANTS
  TrackBuffer,  \* track_buffer, at least 1: frames a lost track is kept
  MaxDets,      \* bound: detections of a frame
  MaxTracks,    \* bound: tracks ever started
  MaxFrame      \* bound: frame ids

ASSUME TrackBufferAssumption == TrackBuffer \in Nat \ {0}
ASSUME TrackBoundsAssumption ==
  /\ MaxDets \in Nat /\ MaxTracks \in Nat /\ MaxFrame \in Nat

VARIABLES
  given,        \* the id of the last frame, -1 before the first
  frameId,      \* frame_id_
  nextTrackId,  \* next_track_id_
  tracked,      \* tracked_tracks_, by id; also what update() returned
  lost,         \* lost_tracks_, by id
  startFrame,   \* Track::start_frame, by id
  endFrame,     \* Track::frame_id, the last frame that matched it, by id
  detections,   \* history: the detections of the last frame
  takenBy,      \* history: the track each of them was matched to, or 0
  overlaps      \* history: pairs of a tracked and a lost track that overlapped

trackVars == << given, frameId, nextTrackId, tracked, lost, startFrame,
                endFrame, detections, takenBy, overlaps >>

Ids == 1..MaxTracks
Dets == 1..MaxDets

\* What the filter and the thresholds make of a detection: too small or too
\* weak, below high_thresh, below new_track_thresh, or good for a new track.
Kinds == {"skipped", "low", "high", "new"}

TrackerTypeOK ==
  /\ given \in -1..MaxFrame
  /\ frameId \in 0..(MaxFrame + 1)
  /\ nextTrackId \in 1..(MaxTracks + 1)
  /\ tracked \subseteq Ids /\ lost \subseteq Ids
  /\ startFrame \in [Ids -> Int] /\ endFrame \in [Ids -> Int]
  /\ detections \in [Dets -> Kinds]
  /\ takenBy \in [Dets -> Ids \cup {0}]
  /\ overlaps \subseteq Ids \X Ids

TrackerInit ==
  /\ given = -1
  /\ frameId = 0
  /\ nextTrackId = 1
  /\ tracked = {} /\ lost = {}
  /\ startFrame = [t \in Ids |-> 0] /\ endFrame = [t \in Ids |-> 0]
  /\ detections = [d \in Dets |-> "skipped"]
  /\ takenBy = [d \in Dets |-> 0]
  /\ overlaps = {}

\* The outcomes of associate_detections: one-to-one, for some of the tracks.
Pairings(tracks, dets) == UNION {Injection(S, dets) : S \in SUBSET tracks}

\* A frame id that is not positive counts as the next one.
FrameNumber(f) == IF f > 0 THEN f ELSE frameId + 1

\* Lost tracks kept by this frame: those that were not found again and have
\* not expired, and those lost now.  Mutants: the found ones stay in the
\* list; a track is kept although it has expired.
LostNext_KeepFound(found, lostNow, expired) == (lost \cup lostNow) \ expired
LostNext_NoExpiry(found, lostNow, expired) == (lost \ found) \cup lostNow
LostNext(found, lostNow, expired) == ((lost \ found) \cup lostNow) \ expired

\* Whether the tracked track of an overlapping pair is dropped; otherwise
\* the lost one is.  The mutant drops the older one.
DropsTracked_Older(age, t, l) == age[t] > age[l]
DropsTracked(age, t, l) == age[t] <= age[l]

\* The tracks after a frame in which those of `seen` were matched or born:
\* the other tracked ones are lost, lost ones expire, and of two that overlap
\* the younger goes.
Advance(f, seen, born) ==
  LET now     == FrameNumber(f)
      end     == [t \in Ids |-> IF t \in seen THEN now ELSE endFrame[t]]
      start   == [t \in Ids |-> IF t \in born THEN now ELSE startFrame[t]]
      expired == {t \in lost : now - end[t] > TrackBuffer}
      kept    == LostNext(seen, tracked \ seen, expired)
      age     == [t \in Ids |-> end[t] - start[t]]
  IN /\ \E pairs \in SUBSET (seen \X kept) :
          /\ tracked' = {t \in seen :
               ~\E l \in kept : << t, l >> \in pairs /\ DropsTracked(age, t, l)}
          /\ lost' = {l \in kept :
               ~\E t \in seen : << t, l >> \in pairs /\ ~DropsTracked(age, t, l)}
          /\ overlaps' = pairs
     /\ given' = f /\ frameId' = now
     /\ startFrame' = start /\ endFrame' = end

\* The track a detection went to, by the three maps of an update.
Taker(high, low, born, d) ==
  {t \in DOMAIN high : high[t] = d} \cup {t \in DOMAIN low : low[t] = d}
    \cup {born[e] : e \in DOMAIN born \cap {d}}

Update(f) ==
  \E dets \in [Dets -> Kinds] :
  \E high \in Pairings(tracked \cup lost, {d \in Dets : dets[d] \in {"high", "new"}}) :
  \E low \in Pairings(tracked \ DOMAIN high, {d \in Dets : dets[d] = "low"}) :
  \E n \in 0..MaxDets :
  \E born \in Bijection({d \in Dets : dets[d] = "new"} \ Range(high),
                        nextTrackId..(nextTrackId + n - 1)) :
    /\ nextTrackId + n - 1 <= MaxTracks
    /\ Advance(f, DOMAIN high \cup DOMAIN low \cup Range(born), Range(born))
    /\ nextTrackId' = nextTrackId + n
    /\ detections' = dets
    /\ takenBy' = [d \in Dets |->
                     LET by == Taker(high, low, born, d)
                     IN IF by = {} THEN 0 ELSE CHOOSE t \in by : TRUE]

TrackerNext == \E f \in (given + 1)..MaxFrame : Update(f)

TrackerSpec == TrackerInit /\ [][TrackerNext]_trackVars

-----------------------------------------------------------------------------
\* After every frame the two lists have no track in common and only tracks
\* that were started; the ones returned were matched in this very frame,
\* the lost ones were not, unless a frame number came twice (frame 0 counts
\* as 1); no track ends before it starts (update, lines 494-522).
TracksAreConsistent ==
  /\ tracked \cap lost = {}
  /\ tracked \cup lost \subseteq 1..(nextTrackId - 1)
  /\ \A t \in tracked : endFrame[t] = frameId
  /\ \A t \in lost : endFrame[t] <= frameId
  /\ \A t \in tracked \cup lost : startFrame[t] <= endFrame[t]

\* A track that left both lists never comes back, and one that stays lost
\* was matched at most track_buffer frames ago: the recognizer may forget
\* an id that is gone (lines 494-501 and 512-514).
RemovedTracksStayRemoved ==
  [][ /\ (tracked' \cup lost') \cap 1..(nextTrackId - 1) \subseteq tracked \cup lost
      /\ \A t \in lost \cap lost' : frameId' - endFrame[t] <= TrackBuffer ]_trackVars

\* Every detection strong enough to start a track, and every other one that
\* was matched, is in the boxes update() returns, or its track was dropped
\* for a lost track at least as old that overlaps it: then nothing is
\* returned for the person in this frame (lines 272-273).
DetectionsAreReported ==
  \A d \in Dets :
    LET t == takenBy[d] IN
    /\ detections[d] = "new" => t # 0
    /\ t # 0 =>
         \/ t \in tracked
         \/ \E l \in Ids :
              /\ << t, l >> \in overlaps
              /\ endFrame[t] - startFrame[t] <= endFrame[l] - startFrame[l]
===============================================================================
