----------------------------- MODULE SequentialParts -----------------------------
(***************************************************************************)
(* The components whose code one thread runs from beginning to end, or     *)
(* whose operations cannot overlap: reading the configuration, pairing the *)
(* two versions of a frame, decoding and thinning out detections,          *)
(* associating them with tracks, matching faces and covering regions, and  *)
(* the offline renderer.  None reads another's state, so a behaviour here  *)
(* is a behaviour of one of them, chosen at the start; the others stay.    *)
(***************************************************************************)
EXTENDS Config, DualSource, Detection, Association, ByteTracker, FramePrivacy, RenderVideo

VARIABLE part  \* the component this behaviour is about

partsVars == << part, configVars, sourceVars, detectVars, assocVars, trackVars, privacyVars, renderVars >>

Init ==
  /\ part \in {"config", "source", "detection", "association", "tracker", "privacy", "render"}
  /\ ConfigInit /\ SourceInit /\ DetectInit /\ AssocInit /\ TrackerInit /\ PrivacyInit
  /\ RenderInit

Next ==
  /\ part' = part
  /\ \/ /\ part = "config" /\ ConfigNext
        /\ UNCHANGED << sourceVars, detectVars, assocVars, trackVars, privacyVars,
                        renderVars >>
     \/ /\ part = "source" /\ SourceNext
        /\ UNCHANGED << configVars, detectVars, assocVars, trackVars, privacyVars, renderVars >>
     \/ /\ part = "detection" /\ DetectNext
        /\ UNCHANGED << configVars, sourceVars, assocVars, trackVars, privacyVars, renderVars >>
     \/ /\ part = "association" /\ AssocNext
        /\ UNCHANGED << configVars, sourceVars, detectVars, trackVars, privacyVars, renderVars >>
     \/ /\ part = "tracker" /\ TrackerNext
        /\ UNCHANGED << configVars, sourceVars, detectVars, assocVars, privacyVars,
                        renderVars >>
     \/ /\ part = "privacy" /\ PrivacyNext
        /\ UNCHANGED << configVars, sourceVars, detectVars, assocVars, trackVars, renderVars >>
     \/ /\ part = "render" /\ RenderNext
        /\ UNCHANGED << configVars, sourceVars, detectVars, assocVars, trackVars, privacyVars >>

Spec == Init /\ [][Next]_partsVars
===============================================================================
