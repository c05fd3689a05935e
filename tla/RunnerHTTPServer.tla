--------------------------- MODULE RunnerHTTPServer ---------------------------
(***************************************************************************)
(* The MJPEG side of RunnerHTTPServer: the frames pushed for one stream,   *)
(* the handlers that serve GET /video/<stream>, and stop().  A handler     *)
(* waits, without a timeout, on the condition variable of its stream until *)
(* there is a frame it has not sent or the server stops.  push_jpeg takes  *)
(* the stream's mutex; stop() does not.                                    *)
(*                                                                         *)
(* The pipeline pushes until it has been destroyed, and only then does the *)
(* destructor of the server call stop() (the members of RunnerManager).    *)
(* Handlers run in the thread pool of httplib, whose listen() returns when *)
(* the last handler has ended (external).                                  *)
(***************************************************************************)
EXTENDS Naturals

CONSTANTS
  Viewers,  \* requests for /video/<stream>
  MaxSeq    \* bound: frames pushed

ASSUME HttpAssumption == MaxSeq \in Nat /\ "free" \notin Viewers

VARIABLES
  registered,  \* the stream has an entry in streams_
  running,     \* running_
  seq,         \* StreamState::seq; the frame with that number is last_jpeg
  pusher,      \* the encoder thread: pushing, about to notify, or gone
  mtx,         \* the viewer that holds StreamState::mtx, or "free"
  handler,     \* where the handler of each viewer is
  lastSent,    \* its last_sent
  shown,       \* the newest frame written to each viewer
  stopper,     \* where stop() is
  missed       \* history: viewers stop() notified too early to wake them

httpVars == << registered, running, seq, pusher, mtx, handler, lastSent,
               shown, stopper, missed >>

Idle == {"none", "refused", "done", "disconnected"}

HttpInit ==
  /\ registered = FALSE
  /\ running = TRUE
  /\ seq = 0
  /\ pusher = "pushing"
  /\ mtx = "free"
  /\ handler = [v \in Viewers |-> "none"]
  /\ lastSent = [v \in Viewers |-> 0]
  /\ shown = [v \in Viewers |-> 0]
  /\ stopper = "none"
  /\ missed = {}

\* The sleepers a notify_all of the stream's condition variable wakes.
Woken(h) == [v \in Viewers |-> IF h[v] = "asleep" THEN "woken" ELSE h[v]]

(***************************************************************************)
(* The pipeline.                                                           *)
(***************************************************************************)
RegisterStream ==
  /\ ~registered
  /\ registered' = TRUE
  /\ UNCHANGED << running, seq, pusher, mtx, handler, lastSent, shown, stopper, missed >>

\* The critical section of push_jpeg: the frame and its number.
PushJpeg ==
  /\ pusher = "pushing" /\ mtx = "free" /\ seq < MaxSeq
  /\ seq' = seq + 1
  /\ registered' = TRUE
  /\ pusher' = "notifying"
  /\ UNCHANGED << running, mtx, handler, lastSent, shown, stopper, missed >>

\* What push_jpeg notifies once it has unlocked, and a mutant that wakes
\* nobody when the frame replaced one that was never sent.
PushWakes_Lost(h) == IF seq > 1 THEN h ELSE Woken(h)
PushWakes(h) == Woken(h)

PushNotify ==
  /\ pusher = "notifying"
  /\ handler' = PushWakes(handler)
  /\ pusher' = "pushing"
  /\ UNCHANGED << registered, running, seq, mtx, lastSent, shown, stopper, missed >>

PipelineEnds ==
  /\ pusher = "pushing"
  /\ pusher' = "gone"
  /\ UNCHANGED << registered, running, seq, mtx, handler, lastSent, shown, stopper, missed >>

(***************************************************************************)
(* A handler of /video/<stream>.                                           *)
(***************************************************************************)
\* Where the handler goes; everything but its place and the mutex is kept.
Go(v, from, to, lock) ==
  /\ handler[v] = from
  /\ handler' = [handler EXCEPT ![v] = to]
  /\ mtx' = lock
  /\ UNCHANGED << registered, running, seq, pusher, lastSent, shown, stopper, missed >>

Request(v) ==
  /\ stopper \in {"none", "notifying"}
  /\ Go(v, "none", IF registered THEN "looping" ELSE "refused", mtx)

Loop(v) ==
  \/ ~running /\ Go(v, "looping", "done", mtx)
  \/ running /\ mtx = "free" /\ Go(v, "looping", "testing", v)

\* The predicate of the wait, and a mutant that does not look at running_.
MayProceed_FrameOnly(v) == seq # lastSent[v]
MayProceed(v) == seq # lastSent[v] \/ ~running

Test(v) == Go(v, "testing", IF MayProceed(v) THEN "taking" ELSE "unready", mtx)

\* wait() releases the mutex and sleeps in one step, but not in one step
\* with the predicate it has just found false.
Sleep(v) == Go(v, "unready", "asleep", "free")

Wake(v) == mtx = "free" /\ Go(v, "woken", "testing", v)

Take(v) ==
  \/ ~running /\ Go(v, "taking", "done", "free")
  \/ /\ running /\ handler[v] = "taking"
     /\ handler' = [handler EXCEPT ![v] = "writing"]
     /\ lastSent' = [lastSent EXCEPT ![v] = seq]
     /\ mtx' = "free"
     /\ UNCHANGED << registered, running, seq, pusher, shown, stopper, missed >>

\* The three writes of the sink: all succeed, or the handler returns false.
Write(v) ==
  \/ Go(v, "writing", "disconnected", mtx)
  \/ /\ handler[v] = "writing"
     /\ handler' = [handler EXCEPT ![v] = "looping"]
     /\ shown' = [shown EXCEPT ![v] = lastSent[v]]
     /\ UNCHANGED << registered, running, seq, pusher, mtx, lastSent, stopper, missed >>

Handle(v) == Loop(v) \/ Test(v) \/ Sleep(v) \/ Wake(v) \/ Take(v) \/ Write(v)

(***************************************************************************)
(* stop().                                                                 *)
(***************************************************************************)
StopCall ==
  /\ stopper = "none" /\ pusher = "gone" /\ running
  /\ running' = FALSE
  /\ stopper' = "notifying"
  /\ UNCHANGED << registered, seq, pusher, mtx, handler, lastSent, shown, missed >>

\* notify_all without the mutex: a viewer that has found its predicate
\* false but does not sleep yet is not woken.
StopNotify ==
  /\ stopper = "notifying"
  /\ handler' = Woken(handler)
  /\ missed' = {v \in Viewers : handler[v] = "unready"}
  /\ stopper' = "joining"
  /\ UNCHANGED << registered, running, seq, pusher, mtx, lastSent, shown >>

Join ==
  /\ stopper = "joining"
  /\ \A v \in Viewers : handler[v] \in Idle
  /\ stopper' = "stopped"
  /\ UNCHANGED << registered, running, seq, pusher, mtx, handler, lastSent, shown, missed >>

HttpNext ==
  \/ RegisterStream \/ PushJpeg \/ PushNotify \/ PipelineEnds
  \/ StopCall \/ StopNotify \/ Join
  \/ \E v \in Viewers : Request(v) \/ Handle(v)

\* Threads that can run do run, and a writer that waits for the mutex gets
\* it: handlers, the notification of a push and a stop that was called.
HttpFairness ==
  /\ \A v \in Viewers : SF_httpVars(Handle(v))
  /\ WF_httpVars(PushNotify)
  /\ WF_httpVars(StopNotify)
  /\ WF_httpVars(Join)

HttpSpec == HttpInit /\ [][HttpNext]_httpVars

-----------------------------------------------------------------------------
Streaming(v) == handler[v] \notin Idle

\* A viewer that sleeps has been sent the newest frame, or the thread that
\* pushed it is about to notify; and the server runs, or stop() is about to
\* notify, or it has missed the viewer.
SleepsInTime(v) ==
  handler[v] = "asleep" =>
    /\ lastSent[v] = seq \/ pusher = "notifying"
    /\ running \/ stopper = "notifying" \/ v \in missed

\* A viewer that stays is sent the newest frame or a newer one, however its
\* wait interleaves with pushes and with other viewers, until the server
\* stops (push_jpeg, runner_http_server.cpp:47-56, and the wait at 209).
ViewersCatchUp ==
  /\ [](\A v \in Viewers : SleepsInTime(v))
  /\ \A v \in Viewers : \A n \in 1..MaxSeq :
       (Streaming(v) /\ seq = n) ~> (shown[v] >= n \/ ~Streaming(v) \/ ~running)

\* Once stop() has notified, every handler ends and stop() returns, except
\* when a viewer was between its predicate and its sleep at that moment:
\* stop() changes running_ and notifies without the stream's mutex, so such
\* a viewer sleeps for ever and join() waits for it (lines 273-281).
StopEnds ==
  stopper = "joining" ~>
    (IF missed = {} THEN stopper = "stopped"
     ELSE \A v \in Viewers \ missed : ~Streaming(v))
===============================================================================
