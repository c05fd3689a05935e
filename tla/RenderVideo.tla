------------------------------ MODULE RenderVideo ------------------------------
(***************************************************************************)
(* veilsight_render_video: one run of the offline renderer, from its       *)
(* arguments to its exit code, and RenderRuleEngine, which turns the       *)
(* tracks of each frame into events.  Any stage of a frame may throw; the  *)
(* loop catches that, writes the frame as it is then, and goes on.         *)
(*                                                                         *)
(* A run has at most one rule and one track, known by the side of the line *)
(* or the polygon its foot point is on.  What FramePrivacy says about the  *)
(* boxes of a frame is abstracted to: the frame has been masked.  Drawing  *)
(* is left out.                                                            *)
(***************************************************************************)
EXTENDS Integers, Sequences, SequencesExt

CONSTANTS
  MinGap,       \* min_gap_ms of a line rule, in frames
  Dwell,        \* dwell_threshold_s of an area rule, in frames; 0 is none
  MaxVideo,     \* bound: frames of the video
  MaxFailures   \* bound: exceptions and failed writes in a run

ASSUME RenderAssumption ==
  /\ MinGap \in Nat /\ Dwell \in Nat /\ MaxVideo \in Nat \ {0} /\ MaxFailures \in Nat

VARIABLES
  stage,      \* where main is
  job,        \* the arguments
  frame,      \* frame_id
  pts,        \* ctx->pts_ns, in frames
  masked,     \* anonymizer.apply has run on ctx->ui
  output,     \* the frames written to the video, masked or not
  events,     \* the lines of the events file
  preview,    \* the last preview written, -1 before
  rule,       \* the engine's state for the track
  manifest,   \* the manifest exists
  exitCode,   \* -1 while running
  failures,   \* history: how many there were
  unmasked    \* history: frames that failed before they were masked

renderVars == << stage, job, frame, pts, masked, output, events, preview, rule,
                 manifest, exitCode, failures, unmasked >>

progress == << frame, pts, masked, output, events, preview, rule, manifest, unmasked >>

\* The arguments that matter: mode face needs the face detector, which may
\* be "none"; previews are written or not; with custom timing the source rate
\* may be 0, which makes the times what the machine's cast makes of infinity.
Jobs == [mode : {"face", "no_detector", "face_body"}, preview : BOOLEAN,
         times : {"frames", "constant", "saturated"}, rule : {"line", "area"}]
PreviewEvery == 2

NoTrack == [previous |-> 0, lastEvent |-> -1, inside |-> FALSE, entered |-> 0, dwelt |-> FALSE]

RenderInit ==
  /\ stage = "args"
  /\ job = [mode |-> "face", preview |-> FALSE, times |-> "frames", rule |-> "line"]
  /\ frame = 0 /\ pts = 0
  /\ masked = FALSE
  /\ output = << >> /\ events = << >>
  /\ preview = -1
  /\ rule = NoTrack
  /\ manifest = FALSE
  /\ exitCode = -1
  /\ failures = 0
  /\ unmasked = {}

Exit(code) == stage' = "exited" /\ exitCode' = code

\* Arguments, an output that may not be replaced, input, configuration,
\* models, rules, files and the first frame: any of them ends the run.
OpenAll ==
  /\ stage = "args"
  /\ job' \in Jobs
  /\ \/ stage' = "frame" /\ exitCode' = exitCode
     \/ Exit(1)
  /\ UNCHANGED << progress, failures >>

\* --preview-frame writes the first frame and nothing else.
PreviewFrame ==
  /\ stage = "args"
  /\ \/ Exit(0) /\ preview' = 0
     \/ Exit(1) /\ UNCHANGED preview
  /\ UNCHANGED << job, frame, pts, masked, output, events, rule, manifest, failures, unmasked >>

\* The time of a frame.  A source rate of 0 divides by zero: casting NaN and
\* infinity gives one number on x86-64, and 0 and the greatest one on ARM.
Time == CASE job.times = "frames" -> frame
          [] job.times = "constant" \/ frame = 0 -> 0
          [] OTHER -> MaxVideo

StartFrame ==
  /\ stage = "frame"
  /\ masked' = FALSE
  /\ pts' = Time
  /\ stage' = "boxes"
  /\ UNCHANGED << job, frame, output, events, preview, rule, manifest, exitCode,
                  failures, unmasked >>

\* Detection, tracking, faces, recognition, identity; then apply().  Without
\* a face detector mode face has no boxes and masks nothing.
Mask ==
  /\ stage = "boxes"
  /\ masked' = (job.mode # "no_detector")
  /\ stage' = "rules"
  /\ UNCHANGED << job, frame, pts, output, events, preview, rule, manifest, exitCode,
                  failures, unmasked >>

(***************************************************************************)
(* RenderRuleEngine::process_frame for the one rule and track.             *)
(***************************************************************************)
Event(kind) == [frame |-> frame, pts |-> pts, kind |-> kind]

\* Sides are -1, 0 on the line, and 1; 0 for previous is "none yet".
Crosses(side) == rule.previous # 0 /\ side # 0 /\ rule.previous # side
GapPassed_Always(now) == TRUE
GapPassed(now) == rule.lastEvent = -1 \/ now - rule.lastEvent >= MinGap

LineEvents(side) ==
  IF Crosses(side) /\ GapPassed(pts)
  THEN << Event(IF side < 0 THEN "to_negative" ELSE "to_positive") >> ELSE << >>

LineState(side) ==
  [rule EXCEPT !.previous = IF side = 0 THEN @ ELSE side,
               !.lastEvent = IF Crosses(side) /\ GapPassed(pts) THEN pts ELSE @]

HasDwelt == Dwell > 0 /\ ~rule.dwelt /\ pts - rule.entered >= Dwell

AreaEvents(inside) ==
  CASE inside /\ ~rule.inside -> << Event("enter") >>
    [] ~inside /\ rule.inside -> << Event("exit") >>
    [] inside /\ rule.inside  -> IF HasDwelt THEN << Event("dwell") >> ELSE << >>
    [] OTHER -> << >>

AreaState(inside) ==
  CASE inside /\ ~rule.inside ->
         [rule EXCEPT !.inside = TRUE, !.entered = pts, !.dwelt = FALSE]
    [] ~inside /\ rule.inside -> [rule EXCEPT !.inside = FALSE, !.dwelt = FALSE]
    [] OTHER -> [rule EXCEPT !.dwelt = @ \/ (inside /\ HasDwelt)]

\* A frame without the track, or with one without an id, changes nothing.
ProcessFrame ==
  /\ stage = "rules"
  /\ \/ job.rule = "line" /\ \E side \in -1..1 :
          events' = events \o LineEvents(side) /\ rule' = LineState(side)
     \/ job.rule = "area" /\ \E inside \in BOOLEAN :
          events' = events \o AreaEvents(inside) /\ rule' = AreaState(inside)
     \/ UNCHANGED << events, rule >>
  /\ stage' = "write"
  /\ UNCHANGED << job, frame, pts, masked, output, preview, manifest, exitCode,
                  failures, unmasked >>

WriteFrame ==
  /\ stage = "write"
  /\ output' = Append(output, [frame |-> frame, masked |-> masked])
  /\ stage' = "preview"
  /\ UNCHANGED << job, frame, pts, masked, events, preview, rule, manifest, exitCode,
                  failures, unmasked >>

PreviewIsDue == job.preview /\ (frame = 0 \/ (frame + 1) % PreviewEvery = 0)

\* A preview that cannot be written is reported; one that throws is caught.
WritePreview ==
  /\ stage = "preview"
  /\ stage' = "read"
  /\ preview' \in IF PreviewIsDue THEN {frame, preview} ELSE {preview}
  /\ UNCHANGED << job, frame, pts, masked, output, events, rule, manifest, exitCode,
                  failures, unmasked >>

\* The stages that throw, and the catch clause: it writes ctx->ui whether or
\* not it has been masked, also when the frame was written before.
MayThrow == {"boxes", "rules", "write"} \cup (IF PreviewIsDue THEN {"preview"} ELSE {})

\* The mutant skips the frame.
Caught_Skips == output
Caught == Append(output, [frame |-> frame, masked |-> masked])

CatchError ==
  /\ stage \in MayThrow /\ failures < MaxFailures
  /\ failures' = failures + 1
  /\ output' = Caught
  /\ unmasked' = IF stage = "boxes" THEN unmasked \cup {frame} ELSE unmasked
  /\ stage' = "read"
  /\ UNCHANGED << job, frame, pts, masked, events, preview, rule, manifest, exitCode >>

\* The end of the loop: the next frame, or the end of the video.
ReadNext ==
  /\ stage = "read"
  /\ frame' = frame + 1
  /\ \/ frame + 1 < MaxVideo /\ stage' = "frame"
     \/ stage' = "finish"
  /\ UNCHANGED << job, pts, masked, output, events, preview, rule, manifest, exitCode,
                  failures, unmasked >>

WriteManifest ==
  /\ stage = "finish"
  /\ \/ Exit(0) /\ manifest' = TRUE /\ UNCHANGED failures
     \/ Exit(1) /\ failures < MaxFailures /\ failures' = failures + 1 /\ UNCHANGED manifest
  /\ UNCHANGED << job, frame, pts, masked, output, events, preview, rule, unmasked >>

RenderNext ==
  \/ OpenAll \/ PreviewFrame \/ StartFrame \/ Mask \/ ProcessFrame \/ WriteFrame
  \/ WritePreview \/ CatchError \/ ReadNext \/ WriteManifest

RenderSpec == RenderInit /\ [][RenderNext]_renderVars

-----------------------------------------------------------------------------
RenderTypeOK ==
  /\ job \in Jobs /\ exitCode \in {-1, 0, 1}
  /\ frame \in 0..MaxVideo /\ preview \in -1..MaxVideo
  /\ masked \in BOOLEAN /\ manifest \in BOOLEAN
  /\ unmasked \subseteq 0..MaxVideo

\* The video has every frame that was read, in order, whatever throws; a
\* frame is in it twice only if something failed after it was written, and
\* unmasked only if detection or what follows it threw before apply(), or
\* nothing detects faces in mode face (main.cpp:506-611).
OutputFollowsInput ==
  /\ RenderTypeOK
  /\ \A i, j \in 1..Len(output) : i < j => output[i].frame <= output[j].frame
  /\ stage = "read" => Range(output) # {} /\ Last(output).frame = frame
  /\ exitCode = 0 /\ manifest =>
       /\ {output[i].frame : i \in 1..Len(output)} = 0..(frame - 1)
       /\ Len(output) <= frame + failures
  /\ \A i \in 1..Len(output) :
       \/ output[i].masked
       \/ output[i].frame \in unmasked
       \/ job.mode = "no_detector"

\* Whatever a source rate of 0 does to the times, crossings of a line are
\* MinGap apart, and an area's events are stays: enter, then dwell at most once and after its
\* threshold, then exit, with nothing lost or doubled by frames that fail or
\* do not show the track (rules.cpp:95-161).
EventsAreStays ==
  /\ events # << >> /\ job.rule = "area" => Head(events).kind = "enter"
  /\ \A i \in 1..(Len(events) - 1) :
       LET e == events[i]
           f == events[i + 1]
       IN IF job.rule = "line" THEN f.pts - e.pts >= MinGap
          ELSE /\ << e.kind, f.kind >> \in
                      {<< "enter", "dwell" >>, << "enter", "exit" >>,
                       << "dwell", "exit" >>, << "exit", "enter" >>}
               /\ f.kind = "dwell" => f.pts - e.pts >= Dwell
               /\ e.frame < f.frame
===============================================================================
