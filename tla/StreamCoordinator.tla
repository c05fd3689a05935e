-------------------------- MODULE StreamCoordinator --------------------------
(***************************************************************************)
(* One stream's coordinator thread (StreamCoordinator, driven by           *)
(* PipelineRuntime::coordinator_loop_) and the worker pools it talks to.   *)
(*                                                                         *)
(* The coordinator alone touches its maps and cursors.  A pass of its loop *)
(* is: take what the input queues hold (pc = "receive"), then drain_ready, *)
(* whose phases follow one another as pc says; every iteration of a loop   *)
(* of the code is one step.  Tasks handed to a pool stay in a set until    *)
(* some worker's answer is received: workers answer in any order, and an   *)
(* answer that is never received is a task or a result that a full queue   *)
(* dropped.  Frames are known by their ids; a map from frame ids is the    *)
(* set of its keys, and what a frame's tracked_boxes hold is known by the  *)
(* stage that wrote them last.                                             *)
(***************************************************************************)
EXTENDS Integers, Sequences, FiniteSets

CONSTANTS
  MaxFrames,      \* bound: the source produces the frames 0 .. MaxFrames - 1
  ReorderWindow,  \* reorder_window_
  PendingLimit,   \* pending_limit_
  FaceMode        \* face detection off, or its association_mode

ASSUME MaxFramesAssumption == MaxFrames \in Nat
ASSUME ReorderWindowAssumption == ReorderWindow \in Nat
ASSUME PendingLimitAssumption == PendingLimit \in Nat \ {0}
ASSUME FaceModeAssumption == FaceMode \in {"off", "person_bbox", "independent"}

VARIABLES
  pc,
  \* the source and the queue frames_in
  ingested, frames_in,
  \* tasks in the hands of the worker pools
  person_tasks,        \* PersonDetectionTask
  early_probes,        \* face probes planned before tracking (independent mode)
  tracked_probes,      \* face probes planned by process_tracked_frame_
  recognition_tasks, identity_tasks,
  \* the coordinator's maps
  pending_frames, pending_person_detections,
  queued_independent_face_probe_ids, early_face_results,
  pending_face_frames,
  pending_probe_ids,   \* the keys of pending_face_frames whose probe is unanswered
  recognition_queued,  \* the keys of pending_face_frames with recognition_queued set
  pending_recognitions, pending_identities,
  \* the coordinator's cursors, -1 before they are set
  next_tracker, next_recognition, next_commit,
  latest_face, latest_recognition, latest_identity,
  \* the frames themselves
  boxes,               \* the stage that wrote the frame's tracked_boxes last
  commits              \* the frames handed to on_frame_committed, in order

source == <<ingested, frames_in>>
tasks == <<person_tasks, early_probes, tracked_probes, recognition_tasks, identity_tasks>>
arrivals == <<pending_frames, pending_person_detections>>
faces == <<queued_independent_face_probe_ids, early_face_results, pending_face_frames,
           pending_probe_ids, recognition_queued>>
results == <<pending_recognitions, pending_identities>>
nexts == <<next_tracker, next_recognition, next_commit>>
latests == <<latest_face, latest_recognition, latest_identity>>
output == <<boxes, commits>>
environment == <<source, tasks>>
maps == <<arrivals, faces, results>>
vars == <<pc, environment, maps, nexts, latests, output>>

Frame == 0 .. MaxFrames - 1
Phase == {"receive", "probes", "tracking", "face", "recognition", "commit", "trim"}
Stage == {"none", "tracked", "faced", "recognized", "decided"}
Cursor == -1 .. MaxFrames
Seen == 0 .. ingested - 1

TypeOK ==
  /\ pc \in Phase
  /\ ingested \in 0 .. MaxFrames
  /\ frames_in \in SUBSET Seen
  /\ person_tasks \in SUBSET Seen
  /\ early_probes \in SUBSET Seen
  /\ tracked_probes \in SUBSET Seen
  /\ recognition_tasks \in SUBSET Seen
  /\ identity_tasks \in SUBSET Seen
  /\ pending_frames \in SUBSET Seen
  /\ pending_person_detections \in SUBSET Seen
  /\ queued_independent_face_probe_ids \in SUBSET Seen
  /\ early_face_results \in SUBSET Seen
  /\ pending_face_frames \in SUBSET Seen
  /\ pending_recognitions \in SUBSET Seen
  /\ pending_identities \in SUBSET Seen
  /\ pending_probe_ids \in SUBSET pending_face_frames
  /\ recognition_queued \in SUBSET pending_face_frames
  /\ next_tracker \in Cursor /\ next_recognition \in Cursor /\ next_commit \in Cursor
  /\ latest_face \in Cursor /\ latest_recognition \in Cursor /\ latest_identity \in Cursor
  /\ boxes \in [Frame -> Stage]
  /\ commits \in Seq(Frame)

Init ==
  /\ pc = "receive"
  /\ ingested = 0
  /\ frames_in = {}
  /\ person_tasks = {} /\ early_probes = {} /\ tracked_probes = {}
  /\ recognition_tasks = {} /\ identity_tasks = {}
  /\ pending_frames = {} /\ pending_person_detections = {}
  /\ queued_independent_face_probe_ids = {} /\ early_face_results = {}
  /\ pending_face_frames = {} /\ pending_probe_ids = {} /\ recognition_queued = {}
  /\ pending_recognitions = {} /\ pending_identities = {}
  /\ next_tracker = -1 /\ next_recognition = -1 /\ next_commit = -1
  /\ latest_face = -1 /\ latest_recognition = -1 /\ latest_identity = -1
  /\ boxes = [f \in Frame |-> "none"]
  /\ commits = <<>>

-----------------------------------------------------------------------------
(* The ingest thread: number the next frame, hand it to the person         *)
(* detectors, then queue it for the coordinator.                           *)
Ingest ==
  /\ ingested < MaxFrames
  /\ ingested' = ingested + 1
  /\ person_tasks' = person_tasks \cup {ingested}
  /\ frames_in' = frames_in \cup {ingested}
  /\ UNCHANGED <<pc, early_probes, tracked_probes, recognition_tasks, identity_tasks, maps,
                 nexts, latests, output>>

(* A recognizer or an identity decider at work on a task writes the        *)
(* frame's tracked_boxes on its own thread, whatever the coordinator is    *)
(* doing.  A worker whose model throws answers without having written.     *)
Recognize(f) ==
  /\ f \in recognition_tasks
  /\ boxes' = [boxes EXCEPT ![f] = "recognized"]
  /\ UNCHANGED <<pc, environment, maps, nexts, latests, commits>>

Decide(f) ==
  /\ f \in identity_tasks
  /\ boxes' = [boxes EXCEPT ![f] = "decided"]
  /\ UNCHANGED <<pc, environment, maps, nexts, latests, commits>>

Work == \E f \in Frame : Recognize(f) \/ Decide(f)

(* The first half of coordinator_loop_: results are taken from the queues  *)
(* in any number before drain_ready runs.                                  *)

(* push_frame.  frames_in is first in, first out and drops its oldest      *)
(* frame when it is full, so the frames before f will not come any more.   *)
ReceiveFrame(f) ==
  /\ pc = "receive"
  /\ f \in frames_in
  /\ frames_in' = {g \in frames_in : g > f}
  /\ pending_frames' = IF f < next_tracker THEN pending_frames ELSE pending_frames \cup {f}
  /\ UNCHANGED <<pc, ingested, tasks, pending_person_detections, faces, results, nexts,
                 latests, output>>

(* push_person_detection *)
ReceivePersonDetection(f) ==
  /\ pc = "receive"
  /\ f \in person_tasks
  /\ person_tasks' = person_tasks \ {f}
  /\ pending_person_detections' =
       IF f < next_tracker THEN pending_person_detections
                           ELSE pending_person_detections \cup {f}
  /\ UNCHANGED <<pc, source, early_probes, tracked_probes, recognition_tasks,
                 identity_tasks, pending_frames, faces, results, nexts, latests, output>>

(* Wrong variants of some definitions, which the properties are to tell    *)
(* from the right ones, have the definition's name and what is wrong with  *)
(* it.  This one takes the answer for the frame to be committed next for   *)
(* one that comes too late.                                                *)
Early_OffByOne(f) ==
  FaceMode = "independent" /\ f \notin pending_face_frames /\ f > next_commit

(* An answer that came before its frame was tracked. *)
Early(f) == FaceMode = "independent" /\ f \notin pending_face_frames /\ f >= next_commit

(* push_face_result: the answer to the probe its frame waits for, an       *)
(* answer that came before its frame was tracked, or one nobody wants.     *)
PushFaceResult(f) ==
  /\ pending_probe_ids' = pending_probe_ids \ {f}
  /\ early_face_results' =
       IF Early(f) THEN early_face_results \cup {f} ELSE early_face_results
  /\ UNCHANGED <<pc, source, person_tasks, recognition_tasks, identity_tasks, arrivals,
                 queued_independent_face_probe_ids, pending_face_frames, recognition_queued,
                 results, nexts, latests, output>>

ReceiveEarlyProbe(f) ==
  /\ pc = "receive"
  /\ f \in early_probes
  /\ early_probes' = early_probes \ {f}
  /\ PushFaceResult(f)
  /\ UNCHANGED tracked_probes

ReceiveTrackedProbe(f) ==
  /\ pc = "receive"
  /\ f \in tracked_probes
  /\ tracked_probes' = tracked_probes \ {f}
  /\ PushFaceResult(f)
  /\ UNCHANGED early_probes

(* push_recognition_result *)
ReceiveRecognition(f) ==
  /\ pc = "receive"
  /\ f \in recognition_tasks
  /\ recognition_tasks' = recognition_tasks \ {f}
  /\ pending_recognitions' = IF f < next_recognition THEN pending_recognitions
                                                     ELSE pending_recognitions \cup {f}
  /\ UNCHANGED <<pc, source, person_tasks, early_probes, tracked_probes, identity_tasks,
                 arrivals, faces, pending_identities, nexts, latests, output>>

(* push_identity_result *)
ReceiveIdentity(f) ==
  /\ pc = "receive"
  /\ f \in identity_tasks
  /\ identity_tasks' = identity_tasks \ {f}
  /\ pending_identities' = IF f < next_commit THEN pending_identities
                                              ELSE pending_identities \cup {f}
  /\ UNCHANGED <<pc, source, person_tasks, early_probes, tracked_probes, recognition_tasks,
                 arrivals, faces, pending_recognitions, nexts, latests, output>>

(* The queues are empty, or their lock was lost to a producer: drain_ready. *)
BeginDrain ==
  /\ pc = "receive"
  /\ pc' = "probes"
  /\ UNCHANGED <<environment, maps, nexts, latests, output>>

Receive ==
  \/ \E f \in frames_in : ReceiveFrame(f)
  \/ \E f \in person_tasks : ReceivePersonDetection(f)
  \/ \E f \in early_probes : ReceiveEarlyProbe(f)
  \/ \E f \in tracked_probes : ReceiveTrackedProbe(f)
  \/ \E f \in recognition_tasks : ReceiveRecognition(f)
  \/ \E f \in identity_tasks : ReceiveIdentity(f)
  \/ BeginDrain

-----------------------------------------------------------------------------
IsLeast(m, S) == m \in S /\ \A x \in S : m <= x

Later(a, b) == IF a >= b THEN a ELSE b

(* Something `queued` is more than the window ahead of the id waited for.  *)
Overdue(waited, queued) == queued - waited > ReorderWindow

(* drain_independent_face_probes_: probe the frames that are still to be   *)
(* tracked, without waiting for their person detections.                   *)
Unprobed ==
  {f \in pending_frames \ (queued_independent_face_probe_ids \cup pending_face_frames) :
     FaceMode = "independent" /\ f >= next_tracker}

QueueIndependentProbe(f) ==
  /\ pc = "probes"
  /\ IsLeast(f, Unprobed)
  /\ queued_independent_face_probe_ids' = queued_independent_face_probe_ids \cup {f}
  /\ early_probes' = early_probes \cup {f}
  /\ latest_face' = Later(latest_face, f)
  /\ UNCHANGED <<pc, source, person_tasks, tracked_probes, recognition_tasks,
                 identity_tasks, arrivals, early_face_results, pending_face_frames,
                 pending_probe_ids, recognition_queued, results, nexts, latest_recognition,
                 latest_identity, output>>

EndProbes ==
  /\ pc = "probes"
  /\ Unprobed = {}
  /\ pc' = "tracking"
  /\ UNCHANGED <<environment, maps, nexts, latests, output>>

-----------------------------------------------------------------------------
(* drain_tracking_ *)
StartTracking(f) ==
  /\ pc = "tracking"
  /\ next_tracker < 0
  /\ IsLeast(f, pending_frames)
  /\ next_tracker' = f
  /\ UNCHANGED <<pc, environment, maps, next_recognition, next_commit, latests, output>>

(* The frame's probe was planned ahead, and its answer is already here. *)
ProbedAhead(f) == FaceMode = "independent" /\ f \in queued_independent_face_probe_ids
AnsweredAhead(f) == ProbedAhead(f) /\ f \in early_face_results

(* Wrong: erased only together with an early answer. *)
ForgetProbe_IfAnswered(f) ==
  IF AnsweredAhead(f) THEN queued_independent_face_probe_ids \ {f}
                      ELSE queued_independent_face_probe_ids

(* What is left of the probes planned ahead when f is tracked. *)
ForgetProbe(f) ==
  IF FaceMode = "independent" THEN queued_independent_face_probe_ids \ {f}
                              ELSE queued_independent_face_probe_ids

(* process_tracked_frame_: update the tracker, plan a face probe unless    *)
(* one is under way, and go straight to recognition when no probe is       *)
(* awaited.                                                                *)
ProcessTrackedFrame(f) ==
  LET plan == FaceMode # "off" /\ ~ProbedAhead(f)
      wait == plan \/ (ProbedAhead(f) /\ ~AnsweredAhead(f))
  IN /\ tracked_probes' = IF plan THEN tracked_probes \cup {f} ELSE tracked_probes
     /\ latest_face' = IF plan THEN Later(latest_face, f) ELSE latest_face
     /\ queued_independent_face_probe_ids' = ForgetProbe(f)
     /\ early_face_results' = early_face_results \ {f}
     /\ next_commit' = IF next_commit < 0 THEN f ELSE next_commit
     /\ pending_face_frames' = pending_face_frames \cup {f}
     /\ pending_probe_ids' = IF wait THEN pending_probe_ids \cup {f} ELSE pending_probe_ids
     /\ recognition_queued' = IF wait THEN recognition_queued ELSE recognition_queued \cup {f}
     /\ recognition_tasks' = IF wait THEN recognition_tasks ELSE recognition_tasks \cup {f}
     /\ latest_recognition' = IF wait THEN latest_recognition ELSE Later(latest_recognition, f)
     /\ boxes' = [boxes EXCEPT ![f] = IF wait THEN "tracked" ELSE "faced"]

(* The frame the tracker waits for is here with its detections, or without *)
(* them while something beyond the window has been seen.                   *)
TrackFrame(f) ==
  /\ pc = "tracking"
  /\ f = next_tracker
  /\ f \in pending_frames
  /\ \/ f \in pending_person_detections
     \/ \E g \in pending_frames \cup pending_person_detections : Overdue(f, g)
  /\ ProcessTrackedFrame(f)
  /\ pending_frames' = pending_frames \ {f}
  /\ pending_person_detections' = pending_person_detections \ {f}
  /\ next_tracker' = f + 1
  /\ UNCHANGED <<pc, source, person_tasks, early_probes, identity_tasks, results,
                 next_recognition, latest_identity, commits>>

(* The frame the tracker waits for was dropped: jump to the first one here. *)
JumpToPending(f) ==
  /\ pc = "tracking"
  /\ next_tracker >= 0
  /\ next_tracker \notin pending_frames
  /\ IsLeast(f, pending_frames)
  /\ f > next_tracker
  /\ next_tracker' = f
  /\ UNCHANGED <<pc, environment, maps, next_recognition, next_commit, latests, output>>

(* Nothing can be tracked now; the detections the tracker passed go. *)
EndTracking ==
  /\ pc = "tracking"
  /\ IF next_tracker \in pending_frames
       THEN /\ next_tracker \notin pending_person_detections
            /\ \A g \in pending_frames \cup pending_person_detections :
                 ~Overdue(next_tracker, g)
       ELSE \A f \in pending_frames : 0 <= next_tracker /\ f < next_tracker
  /\ pending_person_detections' = {f \in pending_person_detections : f >= next_tracker}
  /\ pc' = "face"
  /\ UNCHANGED <<environment, pending_frames, faces, results, nexts, latests, output>>

-----------------------------------------------------------------------------
(* Wrong: a frame waits for its probe however long that takes. *)
FaceReady_NeverOverdue ==
  {f \in pending_face_frames : f \in recognition_queued \/ f \notin pending_probe_ids}

(* drain_face_ready_ with queue_recognition_: frames whose probe is        *)
(* answered, or overdue, go to the recognizers; the queued ones are erased. *)
FaceReady ==
  {f \in pending_face_frames :
     f \in recognition_queued \/ f \notin pending_probe_ids \/ Overdue(f, latest_face)}

LeaveFaceStage(f) ==
  /\ pc = "face"
  /\ IsLeast(f, FaceReady)
  /\ recognition_tasks' = recognition_tasks \cup ({f} \ recognition_queued)
  /\ latest_recognition' = Later(latest_recognition, f)
  /\ boxes' = [boxes EXCEPT ![f] = IF f \in recognition_queued THEN @ ELSE "faced"]
  /\ pending_face_frames' = pending_face_frames \ {f}
  /\ pending_probe_ids' = pending_probe_ids \ {f}
  /\ recognition_queued' = recognition_queued \ {f}
  /\ UNCHANGED <<pc, source, person_tasks, early_probes, tracked_probes, identity_tasks,
                 arrivals, queued_independent_face_probe_ids, early_face_results, results,
                 nexts, latest_face, latest_identity, commits>>

EndFace ==
  /\ pc = "face"
  /\ FaceReady = {}
  /\ pc' = "recognition"
  /\ UNCHANGED <<environment, maps, nexts, latests, output>>

-----------------------------------------------------------------------------
(* drain_recognition_ready_.  The cursor starts at the first answer to     *)
(* arrive, whatever was queued before it.                                  *)
StartRecognition(f) ==
  /\ pc = "recognition"
  /\ next_recognition < 0
  /\ IsLeast(f, pending_recognitions)
  /\ next_recognition' = f
  /\ UNCHANGED <<pc, environment, maps, next_tracker, next_commit, latests, output>>

(* Wrong: the answer stays in pending_recognitions_. *)
Consumed_Kept(S, f) == S

Consumed(S, f) == S \ {f}

(* queue_identity_ *)
QueueIdentity(f) ==
  /\ pc = "recognition"
  /\ f = next_recognition
  /\ f \in pending_recognitions
  /\ boxes' = [boxes EXCEPT ![f] = "recognized"]
  /\ identity_tasks' = identity_tasks \cup {f}
  /\ latest_identity' = Later(latest_identity, f)
  /\ pending_recognitions' = Consumed(pending_recognitions, f)
  /\ next_recognition' = f + 1
  /\ UNCHANGED <<pc, source, person_tasks, early_probes, tracked_probes, recognition_tasks,
                 arrivals, faces, pending_identities, next_tracker, next_commit,
                 latest_face, latest_recognition, commits>>

SkipRecognition ==
  /\ pc = "recognition"
  /\ next_recognition >= 0
  /\ next_recognition \notin pending_recognitions
  /\ Overdue(next_recognition, latest_recognition)
  /\ next_recognition' = next_recognition + 1
  /\ UNCHANGED <<pc, environment, maps, next_tracker, next_commit, latests, output>>

EndRecognition ==
  /\ pc = "recognition"
  /\ IF next_recognition < 0
       THEN pending_recognitions = {}
       ELSE /\ next_recognition \notin pending_recognitions
            /\ ~Overdue(next_recognition, latest_recognition)
  /\ pending_recognitions' = {f \in pending_recognitions : f >= next_recognition}
  /\ pc' = "commit"
  /\ UNCHANGED <<environment, arrivals, faces, pending_identities, nexts, latests, output>>

-----------------------------------------------------------------------------
(* Wrong: the boxes of the answer are not stored in the frame. *)
CommittedBoxes_Kept(f) == boxes

CommittedBoxes(f) == [boxes EXCEPT ![f] = "decided"]

(* drain_commit_ready_.  Its first branch, which starts the cursor at the  *)
(* first identity result, is dead: process_tracked_frame_ has set the      *)
(* cursor before any frame can come back from the identity stage.          *)
CommitFrame(f) ==
  /\ pc = "commit"
  /\ f = next_commit
  /\ f \in pending_identities
  /\ boxes' = CommittedBoxes(f)
  /\ commits' = Append(commits, f)
  /\ pending_identities' = Consumed(pending_identities, f)
  /\ next_commit' = f + 1
  /\ UNCHANGED <<pc, environment, arrivals, faces, pending_recognitions, next_tracker,
                 next_recognition, latests>>

(* Wrong: the loop continues without moving the cursor. *)
Passed_InPlace(f) == f

(* The cursor passes a frame whose answer is overdue. *)
PassesCommit == Overdue(next_commit, latest_identity)
Passed(f) == f + 1

SkipCommit ==
  /\ pc = "commit"
  /\ next_commit >= 0
  /\ next_commit \notin pending_identities
  /\ PassesCommit
  /\ next_commit' = Passed(next_commit)
  /\ UNCHANGED <<pc, environment, maps, next_tracker, next_recognition, latests, output>>

EndCommit ==
  /\ pc = "commit"
  /\ IF next_commit < 0
       THEN pending_identities = {}
       ELSE /\ next_commit \notin pending_identities
            /\ ~PassesCommit
  /\ pending_identities' = {f \in pending_identities : f >= next_commit}
  /\ pc' = "trim"
  /\ UNCHANGED <<environment, arrivals, faces, pending_recognitions, nexts, latests,
                 output>>

-----------------------------------------------------------------------------
(* Wrong: one entry too many is kept. *)
Newest_OffByOne(S) == {f \in S : Cardinality({g \in S : g > f}) <= PendingLimit}

(* trim_pending_: a map over the limit loses its oldest entries.  A frame  *)
(* given up in the face stage takes the commit cursor past it.             *)
Newest(S) == {f \in S : Cardinality({g \in S : g > f}) < PendingLimit}

TrimPending ==
  /\ pc = "trim"
  /\ pc' = "receive"
  /\ pending_frames' = Newest(pending_frames)
  /\ pending_person_detections' = Newest(pending_person_detections)
  /\ queued_independent_face_probe_ids' = Newest(queued_independent_face_probe_ids)
  /\ early_face_results' = Newest(early_face_results)
  /\ pending_face_frames' = Newest(pending_face_frames)
  /\ pending_probe_ids' = pending_probe_ids \cap pending_face_frames'
  /\ recognition_queued' = recognition_queued \cap pending_face_frames'
  /\ pending_recognitions' = Newest(pending_recognitions)
  /\ pending_identities' = Newest(pending_identities)
  /\ LET given_up == pending_face_frames \ pending_face_frames'
     IN \/ given_up = {} /\ UNCHANGED next_commit
        \/ \E f \in given_up : /\ \A g \in given_up : g <= f
                               /\ next_commit' = Later(next_commit, f + 1)
  /\ UNCHANGED <<environment, next_tracker, next_recognition, latests, output>>

-----------------------------------------------------------------------------
(* The steps of drain_ready. *)
Drain ==
  \/ \E f \in Frame : QueueIndependentProbe(f)
  \/ EndProbes
  \/ \E f \in Frame : StartTracking(f) \/ TrackFrame(f) \/ JumpToPending(f)
  \/ EndTracking
  \/ \E f \in Frame : LeaveFaceStage(f)
  \/ EndFace
  \/ \E f \in Frame : StartRecognition(f) \/ QueueIdentity(f)
  \/ SkipRecognition
  \/ EndRecognition
  \/ \E f \in Frame : CommitFrame(f)
  \/ SkipCommit
  \/ EndCommit
  \/ TrimPending

Next == Ingest \/ Work \/ Receive \/ Drain

Spec == Init /\ [][Next]_vars

(* The coordinator thread is never blocked inside drain_ready: the         *)
(* callbacks push to queues that drop rather than wait.                    *)
FairSpec == Spec /\ WF_vars(Drain)

(***************************************************************************)
(* The default deployment: one worker per pool, so a pool answers in the   *)
(* order it was asked, and queues that never fill, so nothing is dropped.  *)
(* Every pass of coordinator_loop_ empties the queues before it drains,    *)
(* hence the strong fairness of the receiving steps.                       *)
(***************************************************************************)
TakeFrame == \E f \in frames_in : IsLeast(f, frames_in) /\ ReceiveFrame(f)
TakePerson == \E f \in person_tasks : IsLeast(f, person_tasks) /\ ReceivePersonDetection(f)
TakeFace == \E f \in early_probes \cup tracked_probes :
              /\ IsLeast(f, early_probes \cup tracked_probes)
              /\ ReceiveEarlyProbe(f) \/ ReceiveTrackedProbe(f)
TakeRecognition ==
  \E f \in recognition_tasks : IsLeast(f, recognition_tasks) /\ ReceiveRecognition(f)
TakeIdentity == \E f \in identity_tasks : IsLeast(f, identity_tasks) /\ ReceiveIdentity(f)

InOrderNext ==
  \/ Ingest
  \/ Work
  \/ TakeFrame \/ TakePerson \/ TakeFace \/ TakeRecognition \/ TakeIdentity
  \/ BeginDrain
  \/ Drain

InOrderSpec ==
  /\ Init /\ [][InOrderNext]_vars
  /\ WF_vars(Ingest) /\ WF_vars(BeginDrain) /\ WF_vars(Drain)
  /\ SF_vars(TakeFrame) /\ SF_vars(TakePerson) /\ SF_vars(TakeFace)
  /\ SF_vars(TakeRecognition) /\ SF_vars(TakeIdentity)

-----------------------------------------------------------------------------
(* Where a frame can be. *)
ToTrack == frames_in \cup pending_frames
AtFace == pending_face_frames \ recognition_queued
AtRecognition == recognition_tasks \cup pending_recognitions
AtIdentity == identity_tasks \cup pending_identities
Committed == {commits[i] : i \in DOMAIN commits}

(* A frame is in one stage of the pipeline at a time: waiting for the      *)
(* tracker, for its faces, at the recognizers, at the identity deciders,   *)
(* or published.  Stages write frame->tracked_boxes and the recognizers    *)
(* read frame->inf without a lock, and commit_frame_ releases frame->inf:  *)
(* only this keeps two threads from working on one frame.                  *)
OneStage ==
  /\ ToTrack \cap (AtFace \cup AtRecognition \cup AtIdentity \cup Committed) = {}
  /\ AtFace \cap (AtRecognition \cup AtIdentity \cup Committed) = {}
  /\ AtRecognition \cap (AtIdentity \cup Committed) = {}
  /\ AtIdentity \cap Committed = {}
  /\ recognition_tasks \cap pending_recognitions = {}
  /\ identity_tasks \cap pending_identities = {}

(* The commit cursor never passes a frame the tracker has yet to see: what *)
(* is tracked can still be published.  trim_pending_ and the skips of      *)
(* drain_commit_ready_ both move the cursor forward.                       *)
TrackedIsCommittable ==
  /\ next_commit >= 0 => next_commit <= next_tracker
  /\ next_tracker >= 0 => \A f \in pending_frames : next_tracker <= f

(* After a pass of drain_ready nothing waits for an answer that is more    *)
(* than the reorder window behind what has been queued since: a lost task  *)
(* holds the stream back by the window at most.                            *)
LagIsBounded ==
  pc = "receive" =>
    /\ next_recognition >= 0 => ~Overdue(next_recognition, latest_recognition)
    /\ next_commit >= 0 => ~Overdue(next_commit, latest_identity)
    /\ next_commit < 0 => latest_identity < 0
    /\ \A f \in pending_probe_ids : ~Overdue(f, latest_face)

(* Nothing is overtaken and nothing is waited for too long.                *)
NothingStaysBehind == TrackedIsCommittable /\ LagIsBounded

(* Between passes the maps that only drain_ready fills are within          *)
(* pending_limit_, so a stage that never answers does not grow memory.     *)
MapsAreBounded ==
  pc = "receive" =>
    \A S \in {queued_independent_face_probe_ids, pending_face_frames} :
      Cardinality(S) <= PendingLimit

(* Probes planned ahead belong to frames that are still to be tracked: the *)
(* jumps of drain_tracking_ and the trimming leave none behind.            *)
NoProbeLeak == queued_independent_face_probe_ids \subseteq pending_frames

(* The answer a frame in the face stage waits for is still to come: it was *)
(* neither taken for nobody's nor trimmed with the early results before    *)
(* the frame was tracked.                                                  *)
AwaitedProbeIsOut == pending_probe_ids \subseteq early_probes \cup tracked_probes

(* push_face_result also stores answers that nobody will take: those of    *)
(* frames that left the face stage overdue, or were trimmed before they    *)
(* were tracked.  They are older than every frame still to come, so that   *)
(* the trimming, oldest first, takes them before an answer that is needed. *)
LeftoversAreOldest ==
  \A f \in early_face_results \ queued_independent_face_probe_ids :
    \A g \in pending_frames \cup frames_in : f < g

(* Probes planned ahead, and the answers to them, are there as long as     *)
(* they are needed; what is left over goes first when drain_ready trims    *)
(* the answers to pending_limit_, which is all that ever removes it        *)
(* (push_face_result, drain_tracking_, trim_pending_).                     *)
ProbesAreKept ==
  /\ [](NoProbeLeak /\ AwaitedProbeIsOut /\ LeftoversAreOldest)
  /\ [][pc = "trim" /\ pc' = "receive" => Cardinality(early_face_results') <= PendingLimit]_vars

(* The coordinator implements FrameDelivery: ids leave in order and once,  *)
(* and the boxes of a published frame are the decided ones for good.       *)
Delivery == INSTANCE FrameDelivery WITH published <- {<<f, boxes[f]>> : f \in Committed}
DeliversFrames == Delivery!Spec

(* Each pass of drain_ready ends: the continue branches of its loops all   *)
(* move a cursor or consume an entry.                                      *)
DrainEnds == (pc = "probes") ~> (pc = "receive")

(* With one worker per pool and no losses nothing wedges: every frame is   *)
(* published or passed by the commit cursor.                               *)
EveryFrameSettles == <>(next_commit = MaxFrames)
=============================================================================
