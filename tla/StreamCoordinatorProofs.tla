----------------------- MODULE StreamCoordinatorProofs -----------------------
(***************************************************************************)
(* Proofs about StreamCoordinator for every number of frames, window,      *)
(* limit and face mode.                                                    *)
(***************************************************************************)
EXTENDS StreamCoordinator, FiniteSetTheorems, TLAPS

(* The frames the tracker has seen and that are still in the pipeline. *)
Downstream ==
  pending_face_frames \cup recognition_tasks \cup pending_recognitions
    \cup identity_tasks \cup pending_identities

(* The tracker's cursor separates the frames to come from those it saw. *)
TrackerSplits ==
  /\ next_tracker <= ingested
  /\ \A f \in frames_in \cup pending_frames : next_tracker <= f
  /\ \A f \in frames_in, g \in pending_frames : g < f
  /\ \A f \in Downstream \cup Committed : f < next_tracker

(* The commit cursor is set once a frame is downstream, and stays between  *)
(* the published frames and the tracker.                                   *)
CommitCursor ==
  /\ next_commit <= next_tracker
  /\ next_commit < 0 => Downstream = {} /\ latest_identity = -1
  /\ latest_identity = -1 \/ latest_identity < next_tracker
  /\ \A i \in DOMAIN commits : commits[i] < next_commit

Increasing == \A i, j \in DOMAIN commits : i < j => commits[i] < commits[j]

Decided == \A f \in Committed : boxes[f] = "decided"

(* LagIsBounded, with the phases during which each part of it holds. *)
Lag ==
  /\ pc \in {"commit", "trim", "receive", "probes"} /\ next_recognition >= 0
       => ~Overdue(next_recognition, latest_recognition)
  /\ pc \in {"trim", "receive", "probes", "tracking", "face"} /\ next_commit >= 0
       => ~Overdue(next_commit, latest_identity)
  /\ pc \in {"recognition", "commit", "trim", "receive"}
       => \A f \in pending_probe_ids : ~Overdue(f, latest_face)

IInv ==
  /\ TypeOK
  /\ TrackerSplits
  /\ OneStage
  /\ CommitCursor
  /\ Increasing
  /\ Decided
  /\ Lag
-----------------------------------------------------------------------------
(* Trimming a map only removes entries. *)
LEMMA NewestIsSubset == \A S : Newest(S) \in SUBSET S
  BY DEF Newest

(* Every variable keeps its type; in particular no cursor passes the last  *)
(* frame of the source.                                                    *)
THEOREM TypeCorrect == Spec => []TypeOK
<1> USE MaxFramesAssumption, ReorderWindowAssumption
<1>1. Init => TypeOK
  BY DEF Init, TypeOK, Frame, Phase, Stage, Cursor, Seen
<1>2. TypeOK /\ [Next]_vars => TypeOK'
  <2> SUFFICES ASSUME TypeOK, [Next]_vars PROVE TypeOK'
    OBVIOUS
  <2> USE DEF TypeOK, Frame, Phase, Stage, Cursor, Seen, environment, maps, source, tasks,
              arrivals, faces, results,
              nexts, latests, output
  <2>1. CASE Ingest
    BY <2>1 DEF Ingest
  <2>2. ASSUME NEW f \in frames_in, ReceiveFrame(f) PROVE TypeOK'
    BY <2>2 DEF ReceiveFrame
  <2>3. ASSUME NEW f \in person_tasks, ReceivePersonDetection(f) PROVE TypeOK'
    BY <2>3 DEF ReceivePersonDetection
  <2>4. ASSUME NEW f \in early_probes, ReceiveEarlyProbe(f) PROVE TypeOK'
    BY <2>4 DEF ReceiveEarlyProbe, PushFaceResult, Early
  <2>5. ASSUME NEW f \in tracked_probes, ReceiveTrackedProbe(f) PROVE TypeOK'
    BY <2>5 DEF ReceiveTrackedProbe, PushFaceResult, Early
  <2>6. ASSUME NEW f \in recognition_tasks, ReceiveRecognition(f) PROVE TypeOK'
    BY <2>6 DEF ReceiveRecognition
  <2>7. ASSUME NEW f \in identity_tasks, ReceiveIdentity(f) PROVE TypeOK'
    BY <2>7 DEF ReceiveIdentity
  <2>8. CASE BeginDrain
    BY <2>8 DEF BeginDrain
  <2>9. ASSUME NEW f \in Frame, QueueIndependentProbe(f) PROVE TypeOK'
    BY <2>9 DEF QueueIndependentProbe, Later, IsLeast, Unprobed
  <2>10. CASE EndProbes
    BY <2>10 DEF EndProbes
  <2>11. ASSUME NEW f \in Frame, StartTracking(f) PROVE TypeOK'
    BY <2>11 DEF StartTracking
  <2>12. ASSUME NEW f \in Frame, TrackFrame(f) PROVE TypeOK'
    BY <2>12, SMTT(60) DEF TrackFrame, ProcessTrackedFrame, ForgetProbe, Later
  <2>13. ASSUME NEW f \in Frame, JumpToPending(f) PROVE TypeOK'
    BY <2>13 DEF JumpToPending
  <2>14. CASE EndTracking
    BY <2>14 DEF EndTracking
  <2>15. ASSUME NEW f \in Frame, LeaveFaceStage(f) PROVE TypeOK'
    BY <2>15 DEF LeaveFaceStage, Later, IsLeast, FaceReady
  <2>16. CASE EndFace
    BY <2>16 DEF EndFace
  <2>17. ASSUME NEW f \in Frame, StartRecognition(f) PROVE TypeOK'
    BY <2>17 DEF StartRecognition, IsLeast
  <2>18. ASSUME NEW f \in Frame, QueueIdentity(f) PROVE TypeOK'
    BY <2>18 DEF QueueIdentity, Consumed, Later
  <2>19. CASE SkipRecognition
    BY <2>19 DEF SkipRecognition, Overdue
  <2>20. CASE EndRecognition
    BY <2>20 DEF EndRecognition
  <2>21. ASSUME NEW f \in Frame, CommitFrame(f) PROVE TypeOK'
    BY <2>21, SMTT(60) DEF CommitFrame, Consumed, CommittedBoxes
  <2>22. CASE SkipCommit
    BY <2>22 DEF SkipCommit, PassesCommit, Passed, Overdue
  <2>23. CASE EndCommit
    BY <2>23 DEF EndCommit, PassesCommit
  <2>24. CASE TrimPending
    <3>1. next_commit' \in Cursor
      BY <2>24 DEF TrimPending, Later
    <3>2. QED
      BY <2>24, <3>1, NewestIsSubset DEF TrimPending
  <2>25. CASE UNCHANGED vars
    BY <2>25 DEF vars
  <2>26. ASSUME NEW f \in Frame, Recognize(f) \/ Decide(f) PROVE TypeOK'
    BY <2>26 DEF Recognize, Decide
  <2>27. QED
    BY <2>26, <2>1, <2>2, <2>3, <2>4, <2>5, <2>6, <2>7, <2>8, <2>9, <2>10, <2>11, <2>12, <2>13,
       <2>14, <2>15, <2>16, <2>17, <2>18, <2>19, <2>20, <2>21, <2>22, <2>23, <2>24, <2>25
    DEF Next, Work, Receive, Drain
<1>3. QED
  BY <1>1, <1>2, PTL DEF Spec
-----------------------------------------------------------------------------
(* Publishing a frame adds it to the published ones. *)
LEMMA CommittedGrows ==
  ASSUME commits \in Seq(Frame), NEW f \in Frame, commits' = Append(commits, f)
  PROVE  Committed' = Committed \cup {f}
  BY DEF Committed

(* The sets and cursors of TrackerSplits are of integers. *)
LEMMA SplitTypes ==
  TypeOK => /\ ingested \in Int /\ next_tracker \in Int
            /\ frames_in \in SUBSET Int /\ pending_frames \in SUBSET Seen
            /\ Downstream \in SUBSET Int /\ Committed \in SUBSET Int
  BY MaxFramesAssumption DEF TypeOK, Downstream, Committed, Seen, Frame, Cursor

(* What the tracker has seen stays apart from what it will see. *)
LEMMA TrackerSplitsStep ==
  ASSUME TypeOK, TypeOK', TrackerSplits, [Next]_vars
  PROVE  TrackerSplits'
<1> USE MaxFramesAssumption, ReorderWindowAssumption
        DEF TypeOK, TrackerSplits, Downstream, Committed, Frame, Cursor, Seen,
            environment, maps, source, tasks, arrivals, faces, results, nexts, latests, output
<1>1. CASE Ingest
  BY <1>1 DEF Ingest
<1>2. ASSUME NEW f \in frames_in, ReceiveFrame(f) PROVE TrackerSplits'
  BY <1>2 DEF ReceiveFrame
<1>3. ASSUME NEW f \in person_tasks, ReceivePersonDetection(f) PROVE TrackerSplits'
  BY <1>3 DEF ReceivePersonDetection
<1>4. ASSUME NEW f \in early_probes, ReceiveEarlyProbe(f) PROVE TrackerSplits'
  BY <1>4 DEF ReceiveEarlyProbe, PushFaceResult, Early
<1>5. ASSUME NEW f \in tracked_probes, ReceiveTrackedProbe(f) PROVE TrackerSplits'
  BY <1>5 DEF ReceiveTrackedProbe, PushFaceResult, Early
<1>6. ASSUME NEW f \in recognition_tasks, ReceiveRecognition(f) PROVE TrackerSplits'
  BY <1>6 DEF ReceiveRecognition
<1>7. ASSUME NEW f \in identity_tasks, ReceiveIdentity(f) PROVE TrackerSplits'
  BY <1>7 DEF ReceiveIdentity
<1>8. CASE BeginDrain
  BY <1>8 DEF BeginDrain
<1>9. ASSUME NEW f \in Frame, QueueIndependentProbe(f) PROVE TrackerSplits'
  BY <1>9 DEF QueueIndependentProbe
<1>10. CASE EndProbes
  BY <1>10 DEF EndProbes
<1>11. ASSUME NEW f \in Frame, StartTracking(f) PROVE TrackerSplits'
  BY <1>11 DEF StartTracking, IsLeast
<1>12. ASSUME NEW f \in Frame, TrackFrame(f) PROVE TrackerSplits'
  <2>1. /\ next_tracker' = f + 1 /\ f = next_tracker /\ f \in Seen
        /\ ingested' = ingested /\ frames_in' = frames_in
        /\ pending_frames' = pending_frames \ {f} /\ f \in pending_frames
    BY <1>12 DEF TrackFrame
  <2>2. Downstream' \subseteq Downstream \cup {f} /\ Committed' = Committed
    BY <1>12 DEF TrackFrame, ProcessTrackedFrame
  <2> HIDE DEF Downstream, Committed, TypeOK
  <2>3. \A g \in Downstream' \cup Committed' : g < next_tracker'
    BY <2>1, <2>2, SplitTypes
  <2>4. \A g \in frames_in' : next_tracker' <= g
    BY <2>1, <2>2, SplitTypes
  <2>5. \A g \in pending_frames' : next_tracker' <= g
    BY <2>1, <2>2, SplitTypes
  <2>6. \A g \in frames_in', h \in pending_frames' : h < g
    BY <2>1
  <2>7. next_tracker' <= ingested'
    BY <2>1, <2>2, SplitTypes
  <2>8. QED
    BY <2>3, <2>4, <2>5, <2>6, <2>7
<1>13. ASSUME NEW f \in Frame, JumpToPending(f) PROVE TrackerSplits'
  <2>1. /\ next_tracker' = f /\ next_tracker < f /\ f \in pending_frames
        /\ \A g \in pending_frames : f <= g
        /\ UNCHANGED <<ingested, frames_in, pending_frames>>
    BY <1>13 DEF JumpToPending, IsLeast
  <2>2. Downstream' = Downstream /\ Committed' = Committed
    BY <1>13 DEF JumpToPending
  <2> HIDE DEF Downstream, Committed, TypeOK
  <2>3. \A g \in Downstream' \cup Committed' : g < next_tracker'
    BY <2>1, <2>2, SplitTypes
  <2>4. \A g \in frames_in' : next_tracker' <= g
    BY <2>1, <2>2, SplitTypes
  <2>5. \A g \in pending_frames' : next_tracker' <= g
    BY <2>1, <2>2, SplitTypes
  <2>6. \A g \in frames_in', h \in pending_frames' : h < g
    BY <2>1
  <2>7. next_tracker' <= ingested'
    BY <2>1, <2>2, SplitTypes
  <2>8. QED
    BY <2>3, <2>4, <2>5, <2>6, <2>7
<1>14. CASE EndTracking
  BY <1>14 DEF EndTracking
<1>15. ASSUME NEW f \in Frame, LeaveFaceStage(f) PROVE TrackerSplits'
  BY <1>15 DEF LeaveFaceStage, IsLeast, FaceReady
<1>16. CASE EndFace
  BY <1>16 DEF EndFace
<1>17. ASSUME NEW f \in Frame, StartRecognition(f) PROVE TrackerSplits'
  BY <1>17 DEF StartRecognition
<1>18. ASSUME NEW f \in Frame, QueueIdentity(f) PROVE TrackerSplits'
  BY <1>18 DEF QueueIdentity, Consumed
<1>19. CASE SkipRecognition
  BY <1>19 DEF SkipRecognition
<1>20. CASE EndRecognition
  BY <1>20 DEF EndRecognition
<1>21. ASSUME NEW f \in Frame, CommitFrame(f) PROVE TrackerSplits'
  BY <1>21, CommittedGrows DEF CommitFrame, Consumed, CommittedBoxes
<1>22. CASE SkipCommit
  BY <1>22 DEF SkipCommit, PassesCommit, Passed
<1>23. CASE EndCommit
  BY <1>23 DEF EndCommit, PassesCommit
<1>24. CASE TrimPending
  BY <1>24, NewestIsSubset DEF TrimPending
<1>25. CASE UNCHANGED vars
  BY <1>25 DEF vars
<1>26. ASSUME NEW f \in Frame, Recognize(f) \/ Decide(f) PROVE TrackerSplits'
  BY <1>26 DEF Recognize, Decide
<1>27. QED
  BY <1>26, <1>1, <1>2, <1>3, <1>4, <1>5, <1>6, <1>7, <1>8, <1>9, <1>10, <1>11, <1>12, <1>13, 
     <1>14, <1>15, <1>16, <1>17, <1>18, <1>19, <1>20, <1>21, <1>22, <1>23, <1>24, 
     <1>25
  DEF Next, Work, Receive, Drain

(* The commit cursor follows the published frames and never passes the tracker. *)
LEMMA CommitCursorStep ==
  ASSUME TypeOK, TypeOK', TrackerSplits, CommitCursor, [Next]_vars
  PROVE  CommitCursor'
<1> USE MaxFramesAssumption, ReorderWindowAssumption
        DEF TypeOK, TrackerSplits, CommitCursor, Downstream, Frame, Cursor, Seen,
            environment, maps, source, tasks, arrivals, faces, results, nexts, latests, output
<1>1. CASE Ingest
  BY <1>1 DEF Ingest
<1>2. ASSUME NEW f \in frames_in, ReceiveFrame(f) PROVE CommitCursor'
  BY <1>2 DEF ReceiveFrame
<1>3. ASSUME NEW f \in person_tasks, ReceivePersonDetection(f) PROVE CommitCursor'
  BY <1>3 DEF ReceivePersonDetection
<1>4. ASSUME NEW f \in early_probes, ReceiveEarlyProbe(f) PROVE CommitCursor'
  BY <1>4 DEF ReceiveEarlyProbe, PushFaceResult, Early
<1>5. ASSUME NEW f \in tracked_probes, ReceiveTrackedProbe(f) PROVE CommitCursor'
  BY <1>5 DEF ReceiveTrackedProbe, PushFaceResult, Early
<1>6. ASSUME NEW f \in recognition_tasks, ReceiveRecognition(f) PROVE CommitCursor'
  BY <1>6 DEF ReceiveRecognition
<1>7. ASSUME NEW f \in identity_tasks, ReceiveIdentity(f) PROVE CommitCursor'
  BY <1>7 DEF ReceiveIdentity
<1>8. CASE BeginDrain
  BY <1>8 DEF BeginDrain
<1>9. ASSUME NEW f \in Frame, QueueIndependentProbe(f) PROVE CommitCursor'
  BY <1>9 DEF QueueIndependentProbe
<1>10. CASE EndProbes
  BY <1>10 DEF EndProbes
<1>11. ASSUME NEW f \in Frame, StartTracking(f) PROVE CommitCursor'
  BY <1>11 DEF StartTracking, IsLeast
<1>12. ASSUME NEW f \in Frame, TrackFrame(f) PROVE CommitCursor'
  BY <1>12 DEF TrackFrame, ProcessTrackedFrame, Later
<1>13. ASSUME NEW f \in Frame, JumpToPending(f) PROVE CommitCursor'
  BY <1>13 DEF JumpToPending, IsLeast
<1>14. CASE EndTracking
  BY <1>14 DEF EndTracking
<1>15. ASSUME NEW f \in Frame, LeaveFaceStage(f) PROVE CommitCursor'
  BY <1>15 DEF LeaveFaceStage, IsLeast, FaceReady
<1>16. CASE EndFace
  BY <1>16 DEF EndFace
<1>17. ASSUME NEW f \in Frame, StartRecognition(f) PROVE CommitCursor'
  BY <1>17 DEF StartRecognition, IsLeast
<1>18. ASSUME NEW f \in Frame, QueueIdentity(f) PROVE CommitCursor'
  BY <1>18 DEF QueueIdentity, Consumed, Later
<1>19. CASE SkipRecognition
  BY <1>19 DEF SkipRecognition, Overdue
<1>20. CASE EndRecognition
  BY <1>20 DEF EndRecognition
<1>21. ASSUME NEW f \in Frame, CommitFrame(f) PROVE CommitCursor'
  BY <1>21 DEF CommitFrame, Consumed, CommittedBoxes
<1>22. CASE SkipCommit
  BY <1>22 DEF SkipCommit, PassesCommit, Passed, Overdue
<1>23. CASE EndCommit
  BY <1>23 DEF EndCommit, PassesCommit
<1>24. CASE TrimPending
  <2>1. /\ next_commit <= next_commit' /\ next_commit' <= next_tracker
        /\ next_commit' \in Int
    BY <1>24 DEF TrimPending, Later
  <2>2. Downstream' \subseteq Downstream
    BY <1>24, NewestIsSubset DEF TrimPending
  <2>3. UNCHANGED <<next_tracker, latest_identity, commits>>
    BY <1>24 DEF TrimPending
  <2>4. \A i \in DOMAIN commits : commits[i] \in Int
    BY SMTT(60)
  <2> HIDE DEF Downstream
  <2>5. QED
    BY <2>1, <2>2, <2>3, <2>4
<1>25. CASE UNCHANGED vars
  BY <1>25 DEF vars
<1>26. ASSUME NEW f \in Frame, Recognize(f) \/ Decide(f) PROVE CommitCursor'
  BY <1>26 DEF Recognize, Decide
<1>27. QED
  BY <1>26, <1>1, <1>2, <1>3, <1>4, <1>5, <1>6, <1>7, <1>8, <1>9, <1>10, <1>11, <1>12, <1>13, 
     <1>14, <1>15, <1>16, <1>17, <1>18, <1>19, <1>20, <1>21, <1>22, <1>23, <1>24, 
     <1>25
  DEF Next, Work, Receive, Drain

(* A step moves a frame from one stage to the next, takes it out of the    *)
(* pipeline, or leaves it where it is.                                     *)
LEMMA OneStageStep ==
  ASSUME TypeOK, TrackerSplits, OneStage, [Next]_vars
  PROVE  OneStage'
<1> DEFINE Unmoved == UNCHANGED <<ToTrack, AtFace, Committed, recognition_tasks, pending_recognitions,
                   identity_tasks, pending_identities>>
<1>0. Unmoved => OneStage'
  BY DEF OneStage, AtRecognition, AtIdentity
<1> USE DEF environment, maps, source, tasks, arrivals, faces, results, nexts, latests, output
<1>1. CASE Ingest
  <2>1. /\ ToTrack' = ToTrack \cup {ingested}
        /\ UNCHANGED <<AtFace, Committed, recognition_tasks, pending_recognitions,
                       identity_tasks, pending_identities>>
    BY <1>1 DEF Ingest, ToTrack, AtFace, Committed
  <2>2. ingested \notin AtFace \cup AtRecognition \cup AtIdentity \cup Committed
    BY SplitTypes DEF TrackerSplits, Downstream, AtFace, AtRecognition, AtIdentity
  <2>3. QED
    BY <2>1, <2>2 DEF OneStage, AtRecognition, AtIdentity
<1>2. ASSUME NEW f \in frames_in, ReceiveFrame(f) PROVE OneStage'
  <2>1. /\ ToTrack' \subseteq ToTrack
        /\ UNCHANGED <<AtFace, Committed, recognition_tasks, pending_recognitions,
                       identity_tasks, pending_identities>>
    BY <1>2 DEF ReceiveFrame, ToTrack, AtFace, Committed
  <2>2. QED
    BY <2>1 DEF OneStage, AtRecognition, AtIdentity
<1>3. ASSUME NEW f \in person_tasks, ReceivePersonDetection(f) PROVE OneStage'
  <2> Unmoved
    BY <1>3 DEF ReceivePersonDetection, ToTrack, AtFace, Committed
  <2> QED
    BY <1>0
<1>4. ASSUME NEW f \in early_probes, ReceiveEarlyProbe(f) PROVE OneStage'
  <2> Unmoved
    BY <1>4 DEF ReceiveEarlyProbe, PushFaceResult, Early, ToTrack, AtFace, Committed
  <2> QED
    BY <1>0
<1>5. ASSUME NEW f \in tracked_probes, ReceiveTrackedProbe(f) PROVE OneStage'
  <2> Unmoved
    BY <1>5 DEF ReceiveTrackedProbe, PushFaceResult, Early, ToTrack, AtFace, Committed
  <2> QED
    BY <1>0
<1>6. ASSUME NEW f \in recognition_tasks, ReceiveRecognition(f) PROVE OneStage'
  <2>1. /\ recognition_tasks' = recognition_tasks \ {f}
        /\ pending_recognitions' \subseteq pending_recognitions \cup {f}
        /\ UNCHANGED <<ToTrack, AtFace, Committed, identity_tasks, pending_identities>>
    BY <1>6 DEF ReceiveRecognition, ToTrack, AtFace, Committed
  <2>2. QED
    BY <2>1 DEF OneStage, AtRecognition, AtIdentity
<1>7. ASSUME NEW f \in identity_tasks, ReceiveIdentity(f) PROVE OneStage'
  <2>1. /\ identity_tasks' = identity_tasks \ {f}
        /\ pending_identities' \subseteq pending_identities \cup {f}
        /\ UNCHANGED <<ToTrack, AtFace, Committed, recognition_tasks, pending_recognitions>>
    BY <1>7 DEF ReceiveIdentity, ToTrack, AtFace, Committed
  <2>2. QED
    BY <2>1 DEF OneStage, AtRecognition, AtIdentity
<1>8. CASE BeginDrain
  <2> Unmoved
    BY <1>8 DEF BeginDrain, ToTrack, AtFace, Committed
  <2> QED
    BY <1>0
<1>9. ASSUME NEW f \in Frame, QueueIndependentProbe(f) PROVE OneStage'
  <2> Unmoved
    BY <1>9 DEF QueueIndependentProbe, ToTrack, AtFace, Committed
  <2> QED
    BY <1>0
<1>10. CASE EndProbes
  <2> Unmoved
    BY <1>10 DEF EndProbes, ToTrack, AtFace, Committed
  <2> QED
    BY <1>0
<1>11. ASSUME NEW f \in Frame, StartTracking(f) PROVE OneStage'
  <2> Unmoved
    BY <1>11 DEF StartTracking, ToTrack, AtFace, Committed
  <2> QED
    BY <1>0
<1>12. ASSUME NEW f \in Frame, TrackFrame(f) PROVE OneStage'
  <2>1. /\ ToTrack' = ToTrack \ {f} /\ f \in ToTrack
        /\ \/ AtFace' = AtFace \cup {f} /\ UNCHANGED recognition_tasks
           \/ AtFace' = AtFace /\ recognition_tasks' = recognition_tasks \cup {f}
        /\ UNCHANGED <<Committed, pending_recognitions, identity_tasks, pending_identities>>
    <3>1. f \notin frames_in /\ f \notin pending_face_frames
      BY <1>12, SplitTypes DEF TrackFrame, TrackerSplits, Downstream
    <3>2. f \notin recognition_queued
      BY <3>1 DEF TypeOK
    <3>3. QED
      BY <1>12, <3>1, <3>2 DEF TrackFrame, ProcessTrackedFrame, ToTrack, AtFace, Committed
  <2>2. QED
    BY <2>1 DEF OneStage, AtRecognition, AtIdentity
<1>13. ASSUME NEW f \in Frame, JumpToPending(f) PROVE OneStage'
  <2> Unmoved
    BY <1>13 DEF JumpToPending, ToTrack, AtFace, Committed
  <2> QED
    BY <1>0
<1>14. CASE EndTracking
  <2> Unmoved
    BY <1>14 DEF EndTracking, ToTrack, AtFace, Committed
  <2> QED
    BY <1>0
<1>15. ASSUME NEW f \in Frame, LeaveFaceStage(f) PROVE OneStage'
  <2>1. /\ AtFace' = AtFace \ {f}
        /\ recognition_tasks' = recognition_tasks \/ f \in AtFace
        /\ recognition_tasks' \subseteq recognition_tasks \cup {f}
        /\ UNCHANGED <<ToTrack, Committed, pending_recognitions, identity_tasks,
                       pending_identities>>
    BY <1>15 DEF LeaveFaceStage, IsLeast, FaceReady, ToTrack, AtFace, Committed
  <2>2. QED
    BY <2>1 DEF OneStage, AtRecognition, AtIdentity
<1>16. CASE EndFace
  <2> Unmoved
    BY <1>16 DEF EndFace, ToTrack, AtFace, Committed
  <2> QED
    BY <1>0
<1>17. ASSUME NEW f \in Frame, StartRecognition(f) PROVE OneStage'
  <2> Unmoved
    BY <1>17 DEF StartRecognition, ToTrack, AtFace, Committed
  <2> QED
    BY <1>0
<1>18. ASSUME NEW f \in Frame, QueueIdentity(f) PROVE OneStage'
  <2>1. /\ f \in pending_recognitions
        /\ pending_recognitions' = pending_recognitions \ {f}
        /\ identity_tasks' = identity_tasks \cup {f}
        /\ UNCHANGED <<ToTrack, AtFace, Committed, recognition_tasks, pending_identities>>
    BY <1>18 DEF QueueIdentity, Consumed, ToTrack, AtFace, Committed
  <2>2. QED
    BY <2>1 DEF OneStage, AtRecognition, AtIdentity
<1>19. CASE SkipRecognition
  <2> Unmoved
    BY <1>19 DEF SkipRecognition, ToTrack, AtFace, Committed
  <2> QED
    BY <1>0
<1>20. CASE EndRecognition
  <2>1. /\ pending_recognitions' \subseteq pending_recognitions
        /\ UNCHANGED <<ToTrack, AtFace, Committed, recognition_tasks, identity_tasks,
                       pending_identities>>
    BY <1>20 DEF EndRecognition, ToTrack, AtFace, Committed
  <2>2. QED
    BY <2>1 DEF OneStage, AtRecognition, AtIdentity
<1>21. ASSUME NEW f \in Frame, CommitFrame(f) PROVE OneStage'
  <2>1. /\ f \in pending_identities
        /\ pending_identities' = pending_identities \ {f}
        /\ UNCHANGED <<ToTrack, AtFace, recognition_tasks, pending_recognitions,
                       identity_tasks>>
    BY <1>21 DEF CommitFrame, Consumed, CommittedBoxes, ToTrack, AtFace
  <2>2. Committed' = Committed \cup {f}
    BY <1>21, CommittedGrows DEF CommitFrame, Consumed, CommittedBoxes, TypeOK
  <2>3. QED
    BY <2>1, <2>2 DEF OneStage, AtRecognition, AtIdentity
<1>22. CASE SkipCommit
  <2> Unmoved
    BY <1>22 DEF SkipCommit, PassesCommit, Passed, ToTrack, AtFace, Committed
  <2> QED
    BY <1>0
<1>23. CASE EndCommit
  <2>1. /\ pending_identities' \subseteq pending_identities
        /\ UNCHANGED <<ToTrack, AtFace, Committed, recognition_tasks, pending_recognitions,
                       identity_tasks>>
    BY <1>23 DEF EndCommit, PassesCommit, ToTrack, AtFace, Committed
  <2>2. QED
    BY <2>1 DEF OneStage, AtRecognition, AtIdentity
<1>24. CASE TrimPending
  <2>1. /\ ToTrack' \subseteq ToTrack
        /\ AtFace' \subseteq AtFace
        /\ pending_recognitions' \subseteq pending_recognitions
        /\ pending_identities' \subseteq pending_identities
        /\ UNCHANGED <<Committed, recognition_tasks, identity_tasks>>
    BY <1>24, NewestIsSubset DEF TrimPending, ToTrack, AtFace, Committed
  <2>2. QED
    BY <2>1 DEF OneStage, AtRecognition, AtIdentity
<1>25. CASE UNCHANGED vars
  <2> Unmoved
    BY <1>25 DEF vars, ToTrack, AtFace, Committed
  <2> QED
    BY <1>0
<1>26. ASSUME NEW f \in Frame, Recognize(f) \/ Decide(f) PROVE OneStage'
  <2> Unmoved
    BY <1>26 DEF Recognize, Decide, ToTrack, AtFace, Committed
  <2> QED
    BY <1>0
<1>27. QED
  BY <1>26, <1>1, <1>2, <1>3, <1>4, <1>5, <1>6, <1>7, <1>8, <1>9, <1>10, <1>11, <1>12, <1>13, 
     <1>14, <1>15, <1>16, <1>17, <1>18, <1>19, <1>20, <1>21, <1>22, <1>23, <1>24, 
     <1>25
  DEF Next, Work, Receive, Drain

-----------------------------------------------------------------------------
(* Boxes and published frames change in these actions only. *)
StageWrites(f) ==
  TrackFrame(f) \/ LeaveFaceStage(f) \/ Recognize(f) \/ QueueIdentity(f) \/ Decide(f)
Writes(f) == StageWrites(f) \/ CommitFrame(f)

\* Boxes and commits change only in the steps that write a frame.
LEMMA OnlyWriters ==
  [Next]_vars => UNCHANGED <<boxes, commits>> \/ \E f \in Frame : Writes(f)
<1> SUFFICES ASSUME [Next]_vars, ~\E f \in Frame : Writes(f)
             PROVE  UNCHANGED <<boxes, commits>>
  OBVIOUS
<1> USE DEF output
<1>1. CASE Ingest
  BY <1>1 DEF Ingest
<1>2. CASE Receive
  BY <1>2 DEF Receive, ReceiveFrame, ReceivePersonDetection, ReceiveEarlyProbe,
              ReceiveTrackedProbe, PushFaceResult, ReceiveRecognition, ReceiveIdentity,
              BeginDrain
<1>3. CASE Drain
  BY <1>3 DEF Writes, StageWrites, Drain, QueueIndependentProbe, EndProbes, StartTracking, JumpToPending,
              EndTracking, EndFace, StartRecognition, SkipRecognition, EndRecognition,
              SkipCommit, EndCommit, TrimPending
<1>4. CASE UNCHANGED vars
  BY <1>4 DEF vars
<1>5. CASE Work
  BY <1>5 DEF Writes, StageWrites, Work
<1>6. QED
  BY <1>1, <1>2, <1>3, <1>4, <1>5 DEF Next

(* The stages before publication write boxes of frames that are not        *)
(* published.                                                              *)
LEMMA StagesWriteTheirFrame ==
  ASSUME TypeOK, TrackerSplits, OneStage, NEW f \in Frame,
         StageWrites(f)
  PROVE  /\ commits' = commits
         /\ ingested' = ingested
         /\ \A g \in Committed : boxes'[g] = boxes[g]
<1>1. CASE TrackFrame(f)
  <2>1. f \notin Committed
    BY <1>1, SplitTypes DEF TrackFrame, TrackerSplits
  <2>2. QED
    BY <1>1, <2>1, SplitTypes DEF TrackFrame, ProcessTrackedFrame, TypeOK, environment, source
<1>2. CASE LeaveFaceStage(f)
  <2>1. f \in recognition_queued \/ f \notin Committed
    BY <1>2 DEF LeaveFaceStage, IsLeast, FaceReady, OneStage, AtFace
  <2>2. QED
    BY <1>2, <2>1 DEF LeaveFaceStage, TypeOK, environment, source
<1>3. CASE QueueIdentity(f)
  <2>1. f \notin Committed
    BY <1>3 DEF QueueIdentity, Consumed, OneStage, AtRecognition
  <2>2. QED
    BY <1>3, <2>1 DEF QueueIdentity, Consumed, TypeOK, environment, source
<1>4. CASE Recognize(f)
  <2>1. f \notin Committed
    BY <1>4 DEF Recognize, OneStage, AtRecognition
  <2>2. QED
    BY <1>4, <2>1 DEF Recognize, TypeOK, environment, source
<1>5. CASE Decide(f)
  <2>1. f \notin Committed
    BY <1>5 DEF Decide, OneStage, AtIdentity
  <2>2. QED
    BY <1>5, <2>1 DEF Decide, TypeOK, environment, source
<1>6. QED
  BY <1>1, <1>2, <1>3, <1>4, <1>5 DEF StageWrites

(* What CommitFrame publishes: a frame younger than every published one,   *)
(* with its decided boxes.                                                 *)
LEMMA CommitPublishes ==
  ASSUME TypeOK, OneStage, CommitCursor, NEW f \in Frame, CommitFrame(f)
  PROVE  /\ \A i \in DOMAIN commits : commits[i] < f
         /\ commits' = Append(commits, f)
         /\ Committed' = Committed \cup {f}
         /\ f \notin Committed
         /\ boxes'[f] = "decided"
         /\ \A g \in Committed : boxes'[g] = boxes[g]
         /\ f \in Seen
         /\ ingested' = ingested
<1>1. f \in pending_identities /\ f = next_commit /\ commits' = Append(commits, f)
  BY DEF CommitFrame, Consumed, CommittedBoxes
<1>2. Committed' = Committed \cup {f}
  BY <1>1, CommittedGrows DEF TypeOK
<1>3. f \notin Committed
  BY <1>1 DEF OneStage, AtIdentity
<1>4. boxes' = [boxes EXCEPT ![f] = "decided"] /\ boxes \in [Frame -> Stage]
  BY DEF CommitFrame, Consumed, CommittedBoxes, TypeOK
<1>5. f \in Seen /\ ingested' = ingested
  BY <1>1 DEF TypeOK, CommitFrame, Consumed, CommittedBoxes, environment, maps, source
<1>6. QED
  BY <1>1, <1>2, <1>3, <1>4, <1>5 DEF CommitCursor

\* A commit is past the cursor, so the commits stay in order.
LEMMA IncreasingStep ==
  ASSUME TypeOK, OneStage, CommitCursor, Increasing, [Next]_vars
  PROVE  Increasing'
<1>1. CASE UNCHANGED commits
  BY <1>1 DEF Increasing
<1>2. ASSUME NEW f \in Frame, CommitFrame(f) PROVE Increasing'
  <2>1. commits \in Seq(Frame) /\ Frame \subseteq Int
    BY DEF TypeOK, Frame
  <2>2. QED
    BY <1>2, <2>1, CommitPublishes DEF Increasing
<1>3. ASSUME NEW f \in Frame, StageWrites(f)
      PROVE  UNCHANGED commits
  BY <1>3 DEF StageWrites, TrackFrame, LeaveFaceStage, QueueIdentity, Consumed, Recognize, Decide
<1>4. QED
  BY <1>1, <1>2, <1>3, OnlyWriters DEF Writes

\* What has been committed has its boxes.
LEMMA DecidedStep ==
  ASSUME TypeOK, TrackerSplits, OneStage, CommitCursor, Decided, [Next]_vars
  PROVE  Decided'
<1>1. CASE UNCHANGED <<boxes, commits>>
  BY <1>1 DEF Decided, Committed
<1>2. ASSUME NEW f \in Frame, CommitFrame(f) PROVE Decided'
  BY <1>2, CommitPublishes DEF Decided
<1>3. ASSUME NEW f \in Frame, StageWrites(f)
      PROVE  Decided'
  BY <1>3, StagesWriteTheirFrame DEF Decided, Committed
<1>4. QED
  BY <1>1, <1>2, <1>3, OnlyWriters DEF Writes

(* What is not overdue for a cursor is not for a later one. *)
LEMMA OverdueCatchesUp ==
  \A a, b, q \in Int : a <= b /\ ~Overdue(a, q) => ~Overdue(b, q)
  BY ReorderWindowAssumption DEF Overdue

(* No phase of drain_ready undoes the catching up of the ones before it.   *)
LEMMA LagStep ==
  ASSUME TypeOK, CommitCursor, Lag, [Next]_vars
  PROVE  Lag'
<1> USE MaxFramesAssumption, ReorderWindowAssumption
        DEF TypeOK, CommitCursor, Lag, Overdue, Frame, Cursor, Seen,
            environment, maps, source, tasks, arrivals, faces, results, nexts, latests, output
<1>1. CASE Ingest
  BY <1>1 DEF Ingest
<1>2. ASSUME NEW f \in frames_in, ReceiveFrame(f) PROVE Lag'
  BY <1>2 DEF ReceiveFrame
<1>3. ASSUME NEW f \in person_tasks, ReceivePersonDetection(f) PROVE Lag'
  BY <1>3 DEF ReceivePersonDetection
<1>4. ASSUME NEW f \in early_probes, ReceiveEarlyProbe(f) PROVE Lag'
  BY <1>4 DEF ReceiveEarlyProbe, PushFaceResult, Early
<1>5. ASSUME NEW f \in tracked_probes, ReceiveTrackedProbe(f) PROVE Lag'
  BY <1>5 DEF ReceiveTrackedProbe, PushFaceResult, Early
<1>6. ASSUME NEW f \in recognition_tasks, ReceiveRecognition(f) PROVE Lag'
  BY <1>6 DEF ReceiveRecognition
<1>7. ASSUME NEW f \in identity_tasks, ReceiveIdentity(f) PROVE Lag'
  BY <1>7 DEF ReceiveIdentity
<1>8. CASE BeginDrain
  BY <1>8 DEF BeginDrain
<1>9. ASSUME NEW f \in Frame, QueueIndependentProbe(f) PROVE Lag'
  BY <1>9 DEF QueueIndependentProbe
<1>10. CASE EndProbes
  BY <1>10 DEF EndProbes
<1>11. ASSUME NEW f \in Frame, StartTracking(f) PROVE Lag'
  BY <1>11 DEF StartTracking
<1>12. ASSUME NEW f \in Frame, TrackFrame(f) PROVE Lag'
  BY <1>12 DEF TrackFrame, ProcessTrackedFrame
<1>13. ASSUME NEW f \in Frame, JumpToPending(f) PROVE Lag'
  BY <1>13 DEF JumpToPending
<1>14. CASE EndTracking
  BY <1>14 DEF EndTracking
<1>15. ASSUME NEW f \in Frame, LeaveFaceStage(f) PROVE Lag'
  BY <1>15 DEF LeaveFaceStage
<1>16. CASE EndFace
  BY <1>16 DEF EndFace, FaceReady
<1>17. ASSUME NEW f \in Frame, StartRecognition(f) PROVE Lag'
  BY <1>17 DEF StartRecognition
<1>18. ASSUME NEW f \in Frame, QueueIdentity(f) PROVE Lag'
  BY <1>18 DEF QueueIdentity, Consumed
<1>19. CASE SkipRecognition
  BY <1>19 DEF SkipRecognition
<1>20. CASE EndRecognition
  BY <1>20 DEF EndRecognition
<1>21. ASSUME NEW f \in Frame, CommitFrame(f) PROVE Lag'
  BY <1>21 DEF CommitFrame, Consumed, CommittedBoxes
<1>22. CASE SkipCommit
  BY <1>22 DEF SkipCommit, PassesCommit, Passed
<1>23. CASE EndCommit
  BY <1>23 DEF EndCommit, PassesCommit
<1>24. CASE TrimPending
  <2>1. next_commit' = next_commit \/ (next_commit >= 0 /\ next_commit' >= next_commit)
    BY <1>24 DEF TrimPending, Later, Downstream
  <2>2. /\ pc = "trim" /\ pc' = "receive" /\ pending_probe_ids' \subseteq pending_probe_ids
        /\ UNCHANGED <<next_recognition, latests>>
    BY <1>24 DEF TrimPending
  <2>3. next_commit' \in Int
    BY <1>24 DEF TrimPending, Later
  <2>4. next_recognition' >= 0 => ~Overdue(next_recognition', latest_recognition')
    BY <2>2
  <2>5. next_commit' >= 0 => ~Overdue(next_commit', latest_identity')
    <3>1. latest_identity' = latest_identity
      BY <2>2
    <3>2. next_commit >= 0 => ~Overdue(next_commit, latest_identity)
      BY <2>2
    <3>3. latest_identity \in Int /\ next_commit \in Int
      OBVIOUS
    <3> HIDE DEF TypeOK, Lag, CommitCursor, Overdue
    <3>4. QED
      BY <2>1, <2>3, <3>1, <3>2, <3>3, OverdueCatchesUp
  <2>6. \A f \in pending_probe_ids' : ~Overdue(f, latest_face')
    BY <2>2
  <2>7. QED
    BY <2>2, <2>4, <2>5, <2>6
<1>25. CASE UNCHANGED vars
  BY <1>25 DEF vars
<1>26. ASSUME NEW f \in Frame, Recognize(f) \/ Decide(f) PROVE Lag'
  BY <1>26 DEF Recognize, Decide
<1>27. QED
  BY <1>26, <1>1, <1>2, <1>3, <1>4, <1>5, <1>6, <1>7, <1>8, <1>9, <1>10, <1>11, <1>12, <1>13,
     <1>14, <1>15, <1>16, <1>17, <1>18, <1>19, <1>20, <1>21, <1>22, <1>23, <1>24, <1>25
  DEF Next, Work, Receive, Drain
-----------------------------------------------------------------------------
\* The invariant holds initially.
LEMMA Initially == Init => IInv
<1> SUFFICES ASSUME Init PROVE IInv
  OBVIOUS
<1> USE MaxFramesAssumption, ReorderWindowAssumption DEF Init
<1>1. TypeOK
  BY DEF TypeOK, Frame, Phase, Stage, Cursor, Seen
<1>2. Downstream = {} /\ Committed = {}
  BY DEF Downstream, Committed
<1>3. QED
  BY <1>1, <1>2 DEF IInv, TrackerSplits, OneStage, CommitCursor, Increasing, Decided, Lag,
     Overdue, ToTrack, AtFace, AtRecognition, AtIdentity

(* The inductive invariant. *)
THEOREM Inductive == Spec => []IInv
<1>1. IInv /\ TypeOK' /\ [Next]_vars => IInv'
  BY TrackerSplitsStep, OneStageStep, CommitCursorStep, IncreasingStep, DecidedStep, LagStep
  DEF IInv
<1>2. QED
  BY Initially, <1>1, TypeCorrect, PTL DEF Spec

(* No two threads work on one frame, for any number of workers per pool,   *)
(* any loss and any order of their answers.                                *)
THEOREM OneStageHolds == Spec => []OneStage
<1>1. IInv => OneStage
  BY DEF IInv
<1>2. QED
  BY Inductive, <1>1, PTL

(* The commit cursor never passes a frame still to be tracked. *)
THEOREM CommitStaysBehind == Spec => []TrackedIsCommittable
<1>1. IInv => TrackedIsCommittable
  BY DEF IInv, TrackedIsCommittable, TrackerSplits, CommitCursor
<1>2. QED
  BY Inductive, <1>1, PTL

(* After each pass nothing waits for longer than the window. *)
THEOREM LagBounded == Spec => []LagIsBounded
<1>1. IInv => LagIsBounded
  BY DEF IInv, LagIsBounded, Lag, CommitCursor
<1>2. QED
  BY Inductive, <1>1, PTL

(* The source numbers frames one by one. *)
LEMMA IngestedStep == [Next]_vars => ingested' = ingested \/ ingested' = ingested + 1
<1> USE DEF environment, source
<1>1. CASE Receive
  BY <1>1 DEF Receive, ReceiveFrame, ReceivePersonDetection, ReceiveEarlyProbe,
              ReceiveTrackedProbe, PushFaceResult, ReceiveRecognition, ReceiveIdentity,
              BeginDrain
<1>2. CASE Drain
  BY <1>2 DEF Drain, QueueIndependentProbe, EndProbes, StartTracking, TrackFrame, JumpToPending,
              EndTracking, LeaveFaceStage, EndFace, StartRecognition, QueueIdentity,
              SkipRecognition, EndRecognition, CommitFrame, SkipCommit, EndCommit, TrimPending
<1>3. CASE Work
  BY <1>3 DEF Work, Recognize, Decide
<1>4. QED
  BY <1>1, <1>2, <1>3 DEF Next, Ingest, vars

(* The coordinator implements FrameDelivery: frames are published once, in *)
(* order and with decided boxes that stay as they are.                     *)
THEOREM Implements == Spec => DeliversFrames
<1> USE DEF Delivery!Init, Delivery!Next, Delivery!vars, Delivery!Ingest, Delivery!Commit
<1>1. Init => Delivery!Init
  BY DEF Init, Committed
<1>2. IInv /\ [Next]_vars => [Delivery!Next]_(Delivery!vars)
  <2> SUFFICES ASSUME IInv, [Next]_vars PROVE [Delivery!Next]_(Delivery!vars)
    OBVIOUS
  <2> USE DEF IInv
  <2>1. CASE UNCHANGED <<boxes, commits>>
    <3>1. ingested' = ingested \/ ingested' = ingested + 1
      BY IngestedStep
    <3>2. {<<f, boxes[f]>> : f \in Committed}' = {<<f, boxes[f]>> : f \in Committed}
      BY <2>1 DEF Committed
    <3>3. QED
      BY <2>1, <3>1, <3>2
  <2>2. ASSUME NEW f \in Frame, CommitFrame(f) PROVE Delivery!Next
    BY <2>2, CommitPublishes DEF Seen, Decided
  <2>3. ASSUME NEW f \in Frame, StageWrites(f)
        PROVE  UNCHANGED Delivery!vars
    BY <2>3, StagesWriteTheirFrame DEF Committed
  <2>4. QED
    BY <2>1, <2>2, <2>3, OnlyWriters DEF Writes
<1>3. QED
  BY <1>1, <1>2, Inductive, PTL DEF Spec, DeliversFrames, Delivery!Spec

(* What is tracked can be published, and nothing is waited for too long. *)
THEOREM NothingIsLeft == Spec => []NothingStaysBehind
BY CommitStaysBehind, LagBounded, PTL DEF NothingStaysBehind
-----------------------------------------------------------------------------
(* The phases in which every frame that is still to be tracked is probed.  *)
AfterProbes == {"tracking", "face", "recognition", "commit", "trim"}

(* Probes planned ahead, their answers, and the frames they belong to.  A  *)
(* probe whose frame is not waiting any more is behind all that will come, *)
(* so trimming the answers takes it first.                                 *)
Probes ==
  /\ FaceMode # "independent" =>
       queued_independent_face_probe_ids \cup early_probes \cup early_face_results = {}
  /\ queued_independent_face_probe_ids \subseteq pending_frames
  /\ pc \in AfterProbes /\ FaceMode = "independent" =>
       pending_frames \subseteq queued_independent_face_probe_ids
  /\ queued_independent_face_probe_ids \subseteq early_probes \cup early_face_results
  /\ \A g \in early_probes \cup tracked_probes \cup early_face_results :
       \/ g \in queued_independent_face_probe_ids
       \/ \A f \in pending_frames \cup frames_in : g < f
  /\ pending_probe_ids \subseteq early_probes \cup tracked_probes

(* The sets of ids are finite. *)
LEMMA SeenIsFinite == ASSUME TypeOK, NEW S \in SUBSET Seen PROVE IsFiniteSet(S)
<1>1. IsFiniteSet(Seen)
  BY FS_Interval, MaxFramesAssumption DEF Seen, TypeOK
<1> QED
  BY <1>1, FS_Subset

(* An entry is kept when it has no more successors than a kept one. *)
LEMMA NewestKeeps ==
  ASSUME NEW S, IsFiniteSet(S), NEW T, NEW g \in Newest(S), NEW f \in T,
         {h \in T : h > f} \subseteq {h \in S : h > g}
  PROVE  f \in Newest(T)
<1>1. IsFiniteSet({h \in S : h > g})
  BY FS_Subset, {h \in S : h > g} \in SUBSET S
<1>2. /\ IsFiniteSet({h \in T : h > f})
      /\ Cardinality({h \in T : h > f}) <= Cardinality({h \in S : h > g})
  BY <1>1, FS_Subset
<1>3. /\ Cardinality({h \in T : h > f}) \in Nat
      /\ Cardinality({h \in S : h > g}) \in Nat
  BY <1>1, <1>2, FS_CardinalityType
<1>4. Cardinality({h \in S : h > g}) < PendingLimit
  BY DEF Newest
<1> QED
  BY <1>2, <1>3, <1>4, PendingLimitAssumption DEF Newest

(* Trimming takes the oldest entries. *)
LEMMA NewestTakesOldest ==
  ASSUME NEW S \in SUBSET Int, IsFiniteSet(S), NEW f \in S \ Newest(S), NEW g \in Newest(S)
  PROVE  f < g
<1>1. g \in S /\ f \in S /\ f \notin Newest(S)
  BY DEF Newest
<1>2. ASSUME g <= f PROVE FALSE
  <2>1. {h \in S : h > f} \subseteq {h \in S : h > g}
    <3>1. ASSUME NEW h \in S, h > f PROVE h > g
      <4>1. h \in Int /\ f \in Int /\ g \in Int
        BY <1>1
      <4> QED
        BY <1>2, <3>1, <4>1
    <3> QED
      BY <3>1
  <2> QED
    BY <1>1, <2>1, NewestKeeps
<1> QED
  BY <1>1, <1>2

\* Every step keeps Probes.
LEMMA ProbesStep ==
  ASSUME TypeOK, TypeOK', TrackerSplits, CommitCursor, Probes, [Next]_vars
  PROVE  Probes'
<1> USE MaxFramesAssumption DEF Probes, AfterProbes, environment, maps, source, tasks, arrivals,
        faces, results, nexts, latests, output
<1>1. CASE Ingest
  BY <1>1 DEF Ingest, TypeOK, Seen
<1>2. ASSUME NEW f \in frames_in, ReceiveFrame(f) PROVE Probes'
  BY <1>2 DEF ReceiveFrame
<1>3. ASSUME NEW f \in person_tasks, ReceivePersonDetection(f) PROVE Probes'
  BY <1>3 DEF ReceivePersonDetection
<1>4. ASSUME NEW f \in early_probes, ReceiveEarlyProbe(f) PROVE Probes'
  <2>1. ASSUME f \in queued_independent_face_probe_ids PROVE Early(f)
    <3>1. f \in pending_frames /\ FaceMode = "independent"
      BY <2>1
    <3>2. next_tracker <= f /\ next_commit <= next_tracker
      BY <3>1 DEF TrackerSplits, CommitCursor
    <3>3. f \notin pending_face_frames
      BY <3>2 DEF TrackerSplits, Downstream, TypeOK, Seen, Cursor
    <3> QED
      BY <3>1, <3>2, <3>3 DEF Early, TypeOK, Seen, Cursor
  <2> QED
    BY <1>4, <2>1 DEF ReceiveEarlyProbe, PushFaceResult, Early
<1>5. ASSUME NEW f \in tracked_probes, ReceiveTrackedProbe(f) PROVE Probes'
  BY <1>5 DEF ReceiveTrackedProbe, PushFaceResult, Early
<1>6. ASSUME NEW f \in recognition_tasks, ReceiveRecognition(f) PROVE Probes'
  BY <1>6 DEF ReceiveRecognition
<1>7. ASSUME NEW f \in identity_tasks, ReceiveIdentity(f) PROVE Probes'
  BY <1>7 DEF ReceiveIdentity
<1>8. CASE BeginDrain
  BY <1>8 DEF BeginDrain
<1>9. ASSUME NEW f \in Frame, QueueIndependentProbe(f) PROVE Probes'
  BY <1>9 DEF QueueIndependentProbe, IsLeast, Unprobed
<1>10. CASE EndProbes
  <2>1. pending_frames \cap pending_face_frames = {}
    BY DEF TrackerSplits, Downstream, TypeOK, Seen, Cursor
  <2>2. \A f \in pending_frames : f >= next_tracker
    BY DEF TrackerSplits, TypeOK, Seen, Cursor
  <2> QED
    BY <1>10, <2>1, <2>2 DEF EndProbes, Unprobed
<1>11. ASSUME NEW f \in Frame, StartTracking(f) PROVE Probes'
  BY <1>11 DEF StartTracking
<1>12. ASSUME NEW f \in Frame, TrackFrame(f) PROVE Probes'
  <2>1. \A g \in (pending_frames \ {f}) \cup frames_in : f < g
    BY <1>12 DEF TrackFrame, TrackerSplits, TypeOK, Seen, Cursor
  <2> QED
    BY <1>12, <2>1 DEF TrackFrame, ProcessTrackedFrame, ProbedAhead, AnsweredAhead, ForgetProbe
<1>13. ASSUME NEW f \in Frame, JumpToPending(f) PROVE Probes'
  BY <1>13 DEF JumpToPending
<1>14. CASE EndTracking
  BY <1>14 DEF EndTracking
<1>15. ASSUME NEW f \in Frame, LeaveFaceStage(f) PROVE Probes'
  BY <1>15 DEF LeaveFaceStage
<1>16. CASE EndFace
  BY <1>16 DEF EndFace
<1>17. ASSUME NEW f \in Frame, StartRecognition(f) PROVE Probes'
  BY <1>17 DEF StartRecognition
<1>18. ASSUME NEW f \in Frame, QueueIdentity(f) PROVE Probes'
  BY <1>18 DEF QueueIdentity
<1>19. CASE SkipRecognition
  BY <1>19 DEF SkipRecognition
<1>20. CASE EndRecognition
  BY <1>20 DEF EndRecognition
<1>21. ASSUME NEW f \in Frame, CommitFrame(f) PROVE Probes'
  BY <1>21 DEF CommitFrame
<1>22. CASE SkipCommit
  BY <1>22 DEF SkipCommit
<1>23. CASE EndCommit
  BY <1>23 DEF EndCommit
<1>24. CASE TrimPending
  <2> DEFINE Q == queued_independent_face_probe_ids
             R == early_face_results
  <2>1. /\ Q' = Newest(Q) /\ R' = Newest(R) /\ pending_frames' = Newest(pending_frames)
        /\ pending_probe_ids' \subseteq pending_probe_ids /\ pc' = "receive"
        /\ UNCHANGED << early_probes, tracked_probes, frames_in >>
    BY <1>24 DEF TrimPending
  <2>2. Newest(Q) \subseteq Q /\ Newest(R) \subseteq R
        /\ Newest(pending_frames) \subseteq pending_frames
    BY DEF Newest
  <2>3. CASE FaceMode # "independent"
    BY <2>1, <2>2, <2>3
  <2>4. CASE FaceMode = "independent"
    <3>1. Q = pending_frames
      BY <1>24, <2>4 DEF TrimPending
    <3>2. Q \subseteq Int /\ R \subseteq Int /\ IsFiniteSet(Q)
      BY SeenIsFinite DEF TypeOK, Seen
    <3>3. ASSUME NEW g \in early_probes \cup tracked_probes \cup Newest(R)
          PROVE  g \in Newest(Q) \/ \A f \in Newest(Q) \cup frames_in : g < f
      <4>1. CASE g \in Q \ Newest(Q)
        <5>1. \A f \in Newest(Q) : g < f
          BY <4>1, <3>2, NewestTakesOldest
        <5>2. \A f \in frames_in : g < f
          BY <4>1, <3>1 DEF TrackerSplits
        <5> QED
          BY <5>1, <5>2
      <4>2. CASE g \notin Q
        BY <4>2, <2>2, <3>1
      <4> QED
        BY <4>1, <4>2
    <3>4. ASSUME NEW f \in Newest(Q), f \notin early_probes
          PROVE  f \in Newest(R)
      <4>1. f \in R /\ f \in Q
        BY <3>4, <2>2
      <4>2. {h \in R : h > f} \subseteq {h \in Q : h > f}
        <5>1. ASSUME NEW h \in R, h > f PROVE h \in Q
          <6>1. h \in Q \/ h < f
            BY <4>1, <3>1
          <6>2. h \in Int /\ f \in Int
            BY <3>2, <4>1
          <6> QED
            BY <5>1, <6>1, <6>2
        <5> QED
          BY <5>1
      <4> QED
        BY <4>1, <4>2, <3>2, NewestKeeps
    <3> HIDE DEF Q, R
    <3>5. Newest(Q) \subseteq early_probes \cup Newest(R)
      BY <3>4
    <3> QED
      BY <2>1, <2>2, <2>4, <3>1, <3>3, <3>5 DEF Q, R
  <2> QED
    BY <2>3, <2>4
<1>25. CASE UNCHANGED vars
  BY <1>25 DEF vars
<1>26. ASSUME NEW f \in Frame, Recognize(f) \/ Decide(f) PROVE Probes'
  BY <1>26 DEF Recognize, Decide
<1>27. QED
  BY <1>26, <1>1, <1>2, <1>3, <1>4, <1>5, <1>6, <1>7, <1>8, <1>9, <1>10, <1>11, <1>12, <1>13,
     <1>14, <1>15, <1>16, <1>17, <1>18, <1>19, <1>20, <1>21, <1>22, <1>23, <1>24,
     <1>25
  DEF Next, Work, Receive, Drain
\* A set of natural numbers has a least one.
LEMMA LeastExists ==
  ASSUME NEW S \in SUBSET Nat, S # {}
  PROVE  \E m \in S : \A x \in S : m <= x
<1>1. PICK m \in S : \A y \in S : <<y, m>> \notin OpToRel(<, Nat)
  BY NatLessThanWellFounded, WFMin
<1>2. ASSUME NEW x \in S PROVE m <= x
  <2>1. <<x, m>> \notin OpToRel(<, Nat)
    BY <1>1
  <2>2. ~(x < m)
    BY <2>1 DEF OpToRel
  <2> QED
    BY <2>2
<1> QED
  BY <1>2

(* Trimming leaves at most pending_limit_ entries. *)
LEMMA NewestIsBounded ==
  ASSUME NEW S \in SUBSET Nat, IsFiniteSet(S)
  PROVE  Cardinality(Newest(S)) <= PendingLimit
<1>1. IsFiniteSet(Newest(S))
  BY NewestIsSubset, FS_Subset
<1>2. CASE Newest(S) = {}
  BY <1>2, FS_EmptySet, PendingLimitAssumption
<1>3. CASE Newest(S) # {}
  <2>1. PICK m \in Newest(S) : \A x \in Newest(S) : m <= x
    <3>1. Newest(S) \in SUBSET Nat
      BY DEF Newest
    <3> QED
      BY <3>1, <1>3, LeastExists
  <2> DEFINE Successors == {g \in S : g > m}
  <2>2. Newest(S) \ {m} \in SUBSET Successors
    <3>1. ASSUME NEW x \in Newest(S) \ {m} PROVE x \in S /\ x > m
      <4>1. x \in S /\ m \in S /\ m <= x /\ x # m
        BY <2>1 DEF Newest
      <4>2. x \in Nat /\ m \in Nat
        BY <4>1
      <4> QED
        BY <4>1, <4>2
    <3> QED
      BY <3>1
  <2>3. Cardinality(Successors) < PendingLimit
    BY <2>1 DEF Newest
  <2>4. IsFiniteSet(Successors)
    BY FS_Subset, Successors \in SUBSET S
  <2> HIDE DEF Successors
  <2>5. Cardinality(Newest(S) \ {m}) <= Cardinality(Successors)
    BY <2>2, <2>4, FS_Subset
  <2>6. Cardinality(Newest(S) \ {m}) = Cardinality(Newest(S)) - 1
    BY <1>1, <2>1, FS_RemoveElement
  <2>7. Cardinality(Newest(S)) \in Nat /\ Cardinality(Successors) \in Nat
    BY <1>1, <2>4, FS_CardinalityType
  <2> QED
    BY <2>3, <2>5, <2>6, <2>7, PendingLimitAssumption
<1> QED
  BY <1>2, <1>3

(* No probe planned ahead outlives its frame's place in the queue, the     *)
(* answer a frame waits for is still to come, whatever is trimmed, and     *)
(* answers nobody will take are the first to be trimmed, to pending_limit_.*)
THEOREM ProbesHold == Spec => ProbesAreKept
<1> DEFINE Kept == NoProbeLeak /\ AwaitedProbeIsOut /\ LeftoversAreOldest
           Trims == pc = "trim" /\ pc' = "receive" =>
                      Cardinality(early_face_results') <= PendingLimit
<1>1. Init => Probes
  BY DEF Init, Probes, AfterProbes
<1>2. IInv /\ TypeOK' /\ Probes /\ [Next]_vars => Probes'
  BY ProbesStep DEF IInv
<1>3. Probes => Kept
  BY DEF Probes, NoProbeLeak, AwaitedProbeIsOut, LeftoversAreOldest
<1>4. TypeOK /\ [Next]_vars => Trims
  <2> SUFFICES ASSUME TypeOK, [Next]_vars, pc = "trim", pc' = "receive"
               PROVE  Cardinality(early_face_results') <= PendingLimit
    OBVIOUS
  <2>1. TrimPending
    BY DEF Next, Ingest, Work, Recognize, Decide, Receive, ReceiveFrame,
       ReceivePersonDetection, ReceiveEarlyProbe, ReceiveTrackedProbe, ReceiveRecognition,
       ReceiveIdentity, BeginDrain, Drain, QueueIndependentProbe, EndProbes, StartTracking,
       TrackFrame, JumpToPending, EndTracking, LeaveFaceStage, EndFace, StartRecognition,
       QueueIdentity, SkipRecognition, EndRecognition, CommitFrame, SkipCommit, EndCommit,
       vars
  <2>2. early_face_results' = Newest(early_face_results)
    BY <2>1 DEF TrimPending
  <2>3. early_face_results \in SUBSET Seen /\ Seen \in SUBSET Nat
    BY DEF TypeOK, Seen
  <2>4. IsFiniteSet(early_face_results)
    BY <2>3, SeenIsFinite
  <2> QED
    BY <2>2, <2>3, <2>4, NewestIsBounded
<1>5. Spec => []Kept
  BY <1>1, <1>2, <1>3, Inductive, TypeCorrect, PTL DEF Spec
<1>6. Spec => [][Trims]_vars
  BY <1>4, TypeCorrect, PTL DEF Spec
<1> QED
  BY <1>5, <1>6 DEF ProbesAreKept
-----------------------------------------------------------------------------
(* The maps that only drain_ready fills stay within pending_limit_, even   *)
(* when no stage ever answers.                                             *)
THEOREM MapsStayBounded == Spec => []MapsAreBounded
<1> DEFINE Q == queued_independent_face_probe_ids
           P == pending_face_frames
           Small(S) == Cardinality(S) <= PendingLimit
           Within == pc = "receive" => Small(Q) /\ Small(P)
<1>1. Init => Within
  <2>1. Cardinality({}) <= PendingLimit
    BY FS_EmptySet, PendingLimitAssumption
  <2> QED
    BY <2>1 DEF Init
<1>2. TypeOK /\ Within /\ [Next]_vars => Within'
  <2> SUFFICES ASSUME TypeOK, Within, [Next]_vars, pc' = "receive"
               PROVE  (Small(Q) /\ Small(P))'
    OBVIOUS
  <2>1. CASE TrimPending
    <3>1. Q \in SUBSET Seen /\ P \in SUBSET Seen /\ Seen \in SUBSET Nat
      BY DEF TypeOK, Seen
    <3>2. IsFiniteSet(Q) /\ IsFiniteSet(P)
      BY <3>1, SeenIsFinite
    <3>3. Small(Newest(Q)) /\ Small(Newest(P))
      BY <3>1, <3>2, NewestIsBounded
    <3>4. Q' = Newest(Q) /\ P' = Newest(P)
      BY <2>1 DEF TrimPending
    <3> QED
      BY <3>3, <3>4
  <2>2. CASE pc = "receive" /\ Q' = Q /\ P' = P
    BY <2>2
  <2>3. TrimPending \/ (pc = "receive" /\ Q' = Q /\ P' = P)
    <3> USE DEF environment, maps, source, tasks, arrivals, faces, results, nexts, latests, output
    <3>1. CASE Receive
      BY <3>1 DEF Receive, ReceiveFrame, ReceivePersonDetection, ReceiveEarlyProbe,
                  ReceiveTrackedProbe, PushFaceResult, ReceiveRecognition, ReceiveIdentity,
                  BeginDrain
    <3>2. CASE Drain
      BY <3>2 DEF Drain, QueueIndependentProbe, EndProbes, StartTracking, TrackFrame,
                  JumpToPending, EndTracking, LeaveFaceStage, EndFace, StartRecognition,
                  QueueIdentity, SkipRecognition, EndRecognition, CommitFrame, SkipCommit,
                  EndCommit
    <3>3. CASE Ingest \/ Work \/ UNCHANGED vars
      BY <3>3 DEF Ingest, Work, Recognize, Decide, vars
    <3> QED
      BY <3>1, <3>2, <3>3 DEF Next
  <2> QED
    BY <2>1, <2>2, <2>3
<1>3. Within => MapsAreBounded
  BY DEF MapsAreBounded
<1> QED
  BY <1>1, <1>2, <1>3, TypeCorrect, PTL DEF Spec
=============================================================================
