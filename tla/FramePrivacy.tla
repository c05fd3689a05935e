----------------------------- MODULE FramePrivacy -----------------------------
(***************************************************************************)
(* What is decided about the boxes of one frame, from the tracker's output *)
(* to the regions the Anonymizer covers: the face policy, the recognizer's *)
(* gates and decisions, the identity decider and planned_regions.          *)
(*                                                                         *)
(* Geometry is abstracted to what the code tests: which faces are          *)
(* plausible for which tracks, and how large a box is.  A face that lies   *)
(* in several tracks goes to the one with the best score, which may be any *)
(* of them.  A box is its track or, for a face-only box, its face.  How    *)
(* one axis of a box is mapped to the display frame is a step of its own   *)
(* with the code's arithmetic (floats taken as exact), and so is where a   *)
(* plausible face may lie along that axis: it may stick out of its track,  *)
(* and of the region that covers the track.                                *)
(***************************************************************************)
EXTENDS Integers, FiniteSets

CONSTANTS
  Persons,    \* the tracks of the frame
  MaxFaces,   \* bound: faces detected, numbered by falling score
  MaxLength   \* bound: the length of a box, in half pixels

ASSUME MaxFacesAssumption == MaxFaces \in Nat
ASSUME MaxLengthAssumption == MaxLength \in Nat

Faces == 1..MaxFaces
NoFace == 0

ASSUME PersonsAssumption == Persons \cap Faces = {}

VARIABLES
  pass,       \* how far the frame is
  setting,    \* the configuration of the modules
  scene,      \* sizes, plausible pairs, faces that pass the gates, cached decisions
  boxes,      \* tracked_boxes: the boxes there are
  faceOf,     \* Box::face
  known,      \* boxes with an identity_key
  action,     \* Box::privacy_action
  nextFace,   \* the face assign_full_frame_faces comes to next
  regions,    \* planned_regions: boxes and what is covered, "face" or "body"
  span        \* one axis of map_box_to_ui_: its arguments and its result

privacyVars == << pass, setting, scene, boxes, faceOf, known, action, nextFace,
                  regions, span >>

AllBoxes == Persons \cup Faces
Settings == [faces : {"off", "person_bbox", "independent"},
             faceOnly : BOOLEAN, strict : BOOLEAN]

\* Boxes of at most a pixel, boxes that map to less than two pixels of the
\* display frame (most of them outside of it), and the others.
Sizes == {"flat", "hidden", "visible"}

NoSpan == [x |-> 0, w |-> 0, occluded |-> FALSE, num |-> 1, den |-> 1, from |-> 0, to |-> 0]

PrivacyInit ==
  /\ pass = "configure"
  /\ setting = [faces |-> "off", faceOnly |-> FALSE, strict |-> FALSE]
  /\ scene = [size |-> [b \in AllBoxes |-> "flat"], plausible |-> {}]
  /\ boxes = {} /\ known = {}
  /\ faceOf = [b \in AllBoxes |-> NoFace]
  /\ action = [b \in AllBoxes |-> "anonymize"]
  /\ nextFace = 1
  /\ regions = {}
  /\ span = NoSpan

\* What the frame shows.  A face of less than two pixels, or a track of less
\* than one, is in no plausible pair (plausible_face_for_track).  A face that
\* is visible may be plausible for a track of which only a sliver is.
Configure ==
  /\ pass = "configure"
  /\ setting' \in Settings
  /\ \E size \in [AllBoxes -> Sizes], plausible \in SUBSET (Faces \X Persons) :
       /\ \A p \in plausible : size[p[1]] # "flat" /\ size[p[2]] # "flat"
       /\ scene' = [size |-> size, plausible |-> plausible]
  /\ pass' = "plan"
  /\ UNCHANGED << boxes, faceOf, known, action, nextFace, regions, span >>

\* FaceProbePlanner::plan: every track starts anonymized and without a face.
Plan ==
  /\ pass = "plan"
  /\ boxes' = Persons
  /\ faceOf' = [b \in AllBoxes |-> NoFace]
  /\ action' = [b \in AllBoxes |-> "anonymize"]
  /\ known' = {}
  /\ pass' = IF setting.faces = "off" THEN "recognize" ELSE "assign"
  /\ UNCHANGED << setting, scene, nextFace, regions, span >>

\* The tracks that may still take the face.
Candidates(f) == {t \in Persons : << f, t >> \in scene.plausible /\ faceOf[t] = NoFace}

\* One face of assign_full_frame_faces.
AssignFace ==
  /\ pass = "assign" /\ nextFace \in Faces
  /\ nextFace' = nextFace + 1
  /\ \/ \E t \in Candidates(nextFace) :
          /\ faceOf' = [faceOf EXCEPT ![t] = nextFace]
          /\ UNCHANGED boxes
     \/ /\ Candidates(nextFace) = {}
        /\ IF setting.faces = "independent"
           THEN /\ boxes' = boxes \cup {nextFace}
                /\ faceOf' = [faceOf EXCEPT ![nextFace] = nextFace]
           ELSE UNCHANGED << boxes, faceOf >>
  /\ UNCHANGED << pass, setting, scene, known, action, regions, span >>

FacesAssigned ==
  /\ pass = "assign" /\ nextFace \notin Faces
  /\ pass' = "recognize"
  /\ UNCHANGED << setting, scene, boxes, faceOf, known, action, nextFace, regions, span >>

\* recognize() writes every box anew.  A track may be known from the cache,
\* whatever its face is now, or, like a face-only box, by a face that matches
\* the gallery (RecognizerCache); if recognize() throws, nothing is known.
Recognize ==
  /\ pass = "recognize"
  /\ \E K \in SUBSET boxes :
       /\ known' = K
       /\ action' = [b \in AllBoxes |-> IF b \in K THEN "allow" ELSE "anonymize"]
  /\ pass' = "decide"
  /\ UNCHANGED << setting, scene, boxes, faceOf, nextFace, regions, span >>

\* The identity decider, and a failed one: nothing is known any more.
Decided(noop) ==
  [b \in AllBoxes |-> IF noop \/ b \notin known THEN "anonymize" ELSE action[b]]

Decide ==
  /\ pass = "decide"
  /\ \E noop \in BOOLEAN :
       /\ action' = Decided(noop)
       /\ known' = IF noop THEN {} ELSE known
  /\ pass' = "anonymize"
  /\ UNCHANGED << setting, scene, boxes, faceOf, nextFace, regions, span >>

BigEnough(f) == f # NoFace /\ scene.size[f] # "flat"
WantsFace(b) == setting.faceOnly /\ BigEnough(faceOf[b])

\* The region of one box, if any.  The mutant does not fall back on the
\* body when the face maps to less than two pixels.
Region_NoFallback(b) ==
  CASE action[b] # "anonymize" \/ scene.size[b] = "flat" -> "none"
    [] WantsFace(b) -> IF scene.size[faceOf[b]] = "visible" THEN "face" ELSE "none"
    [] OTHER -> IF scene.size[b] = "visible" THEN "body" ELSE "none"
Region(b) ==
  CASE action[b] # "anonymize" \/ scene.size[b] = "flat" -> "none"
    [] setting.strict /\ setting.faceOnly /\ ~BigEnough(faceOf[b]) -> "none"
    [] WantsFace(b) /\ scene.size[faceOf[b]] = "visible" -> "face"
    [] OTHER -> IF scene.size[b] = "visible" THEN "body" ELSE "none"

Anonymize ==
  /\ pass = "anonymize"
  /\ regions' = {r \in boxes \X {"face", "body"} : r[2] = Region(r[1])}
  /\ pass' = "done"
  /\ UNCHANGED << setting, scene, boxes, faceOf, known, action, nextFace, span >>

(***************************************************************************)
(* map_box_to_ui_ along one axis, for a display frame of UiLength pixels.  *)
(* Positions and lengths of the box are in half pixels, the inflated box   *)
(* is in 1/80 pixels, and the scale is num/den.                            *)
(***************************************************************************)
UiLength == 24
LRound(n, d) == IF n >= 0 THEN (2 * n + d) \div (2 * d) ELSE -((d - 2 * n) \div (2 * d))
Least(a, b) == IF a <= b THEN a ELSE b
Greatest(a, b) == IF a <= b THEN b ELSE a

\* What the box grows on either side, by 30 and, when occluded, 55 percent.
Margin(w, occluded) == IF occluded THEN 11 * w ELSE 6 * w

\* The inflated box: at least a pixel long, about the middle of the box.
InflatedLength(w, occluded) == Greatest(80, 40 * w + 2 * Margin(w, occluded))
InflatedFrom(x, w, occluded) == (80 * x + 40 * w - InflatedLength(w, occluded)) \div 2

MapAxis(x, w, occluded, num, den) ==
  LET from == LRound(InflatedFrom(x, w, occluded) * num, 80 * den)
      to   == from + LRound(InflatedLength(w, occluded) * num, 80 * den)
  IN [x |-> x, w |-> w, occluded |-> occluded, num |-> num, den |-> den,
      from |-> Greatest(0, from), to |-> Least(UiLength, to)]

\* plausible_face_for_track along one axis: the middle of the face and at
\* least half of it lie in the track, and its size fits.  Along the width
\* that is two pixels to 95 percent of the track, along the height 4 percent,
\* four pixels at least, to 60 percent.
LiesIn(fx, fw, x, w) ==
  /\ 2 * x <= 2 * fx + fw /\ 2 * fx + fw <= 2 * (x + w)
  /\ 2 * (Least(fx + fw, x + w) - Greatest(fx, x)) >= fw
PlausibleWidth(fw, w) == fw >= 4 /\ 20 * fw <= 19 * w
PlausibleHeight(fw, w) ==
  LET least == Greatest(200, w)
  IN 25 * fw >= least /\ 25 * fw <= Greatest(least, 15 * w)

MapBox ==
  /\ pass = "configure"
  /\ \E x \in -8..40, w \in 3..MaxLength, o \in BOOLEAN, s \in {<< 1, 1 >>, << 3, 2 >>, << 1, 2 >>} :
       span' = MapAxis(x, w, o, s[1], s[2])
  /\ pass' = "mapped"
  /\ UNCHANGED << setting, scene, boxes, faceOf, known, action, nextFace, regions >>

PrivacyNext ==
  \/ Configure \/ Plan \/ AssignFace \/ FacesAssigned \/ Recognize \/ Decide
  \/ Anonymize \/ MapBox

PrivacySpec == PrivacyInit /\ [][PrivacyNext]_privacyVars

-----------------------------------------------------------------------------
PrivacyTypeOK ==
  /\ setting \in Settings
  /\ boxes \subseteq AllBoxes /\ known \subseteq boxes
  /\ faceOf \in [AllBoxes -> Faces \cup {NoFace}]
  /\ action \in [AllBoxes -> {"anonymize", "allow"}]
  /\ regions \subseteq AllBoxes \X {"face", "body"}

\* A box with a region: of the face it carries, or of its own extent.
Masked(b) == \E r \in regions : r[1] = b

\* Once a frame is anonymized every box of it that can be seen and carries
\* no identity has a region, unless strict_face_only asks for faces alone
\* and it has none; after the noop decider that is every box (README.md:66).
UnknownIsCovered ==
  pass = "done" =>
    \A b \in boxes :
      \/ Masked(b)
      \/ b \in known
      \/ scene.size[b] # "visible"
      \/ setting.strict /\ setting.faceOnly /\ ~BigEnough(faceOf[b])

\* In independent mode no detected face that can be seen is forgotten.  Some
\* box carries it, a track it is plausible for or a box of its own.  With
\* face_only_when_available the face itself has a region; otherwise that box
\* has, which is the face's own or a body that covers most of the face
\* (FacesStickOutLittle).  It goes uncovered where its track is allowed, by a
\* cached decision even when the face is not that person's
\* (face_policy.cpp:95-120), or shows too little of its body for a region.
FacesAreCovered ==
  pass = "done" /\ setting.faces = "independent" =>
    \A f \in Faces : scene.size[f] = "visible" =>
      \E b \in boxes :
        /\ faceOf[b] = f /\ (b = f \/ << f, b >> \in scene.plausible)
        /\ \/ << b, IF setting.faceOnly THEN "face" ELSE "body" >> \in regions
           \/ b \in known
           \/ ~setting.faceOnly /\ b \in Persons /\ scene.size[b] = "hidden"

\* The region covers the box where it meets the frame, along each axis: all
\* of it when the box is at least seven pixels long on the display, else up
\* to one pixel; and it is the inflated box up to one pixel (position and
\* length are rounded one by one, lines 117-120).
RegionCoversBox ==
  pass = "mapped" =>
    LET p     == 2 * span.den
        left  == span.x * span.num
        right == (span.x + span.w) * span.num
        room  == IF span.w * span.num >= 7 * p THEN 0 ELSE p
        pixel == 80 * span.den
        begin == InflatedFrom(span.x, span.w, span.occluded) * span.num
        end   == begin + InflatedLength(span.w, span.occluded) * span.num
    IN /\ Greatest(left, 0) < Least(right, UiLength * p) =>
            /\ span.from * p <= Greatest(left, 0) + room
            /\ Least(right, UiLength * p) <= span.to * p + room
       /\ span.from * pixel <= Greatest(begin, 0) + pixel
       /\ Least(end, UiLength * pixel) <= span.to * pixel + pixel

\* The inflated body need not cover a face that is plausible for it, but
\* leaves out little on the side where the face sticks out: at most 35 percent
\* of its width and a quarter of its height.  A face of four pixels is
\* plausible even if it has more than 60 percent of the body's height; half
\* of its height may be left out.
FacesStickOutLittle ==
  pass = "mapped" =>
    LET from == InflatedFrom(span.x, span.w, span.occluded)
        to   == from + InflatedLength(span.w, span.occluded)
    IN \A fw \in 4..(span.w + 8) : \A fx \in (span.x - fw)..(span.x + span.w) :
         LiesIn(fx, fw, span.x, span.w) =>
           LET out  == Greatest(from - 40 * fx, 40 * (fx + fw) - to)
               face == 40 * fw
           IN /\ PlausibleWidth(fw, span.w) => 20 * out <= 7 * face
              /\ PlausibleHeight(fw, span.w) =>
                   IF 5 * fw <= 3 * span.w THEN 4 * out <= face ELSE 2 * out <= face

\* From the detected faces to the blurred pixels nobody gets lost.
PeopleAreCovered ==
  /\ PrivacyTypeOK /\ UnknownIsCovered /\ FacesAreCovered
  /\ RegionCoversBox /\ FacesStickOutLittle
===============================================================================
