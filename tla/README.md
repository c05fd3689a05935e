# Veilsight in TLA+

Veilsight anonymizes people in live video. A **Runner** (C++) ingests streams, detects,
tracks and recognizes people, blurs everybody it does not know and sends the result to
browsers. A **Controller** (Python) configures the Runner over gRPC, caches its telemetry,
computes analytics and serves the React UI.

This directory models the parts of the system where threads, queues, losses and failures
meet, and the sequential algorithms whose outcome they rely on. Every definition is
translated from the source; `PROJECT.json` maps each one to its lines. TLC checks small
instances, TLAPS proves every invariant and action property they check for every value of
the constants.

Contents: [the system](#the-system), [the modules](#the-modules), [the runs](#the-runs),
[the proofs](#the-proofs), [a disagreement](#a-disagreement), [what is not
modelled](#what-is-not-modelled), [the plan](#the-plan).

## The system

    source -> ingest thread -> frames_in ----------------------+
                     \-> person detectors -> person results ---+
                                                               v
       face detectors <---------- coordinator thread, one per stream
                       ---------->     |   ^   |   ^
                              recognizers      identity deciders
                                       |
                                       v  commit, in frame order
                              anonymizers -> encoder -> MJPEG, snapshot, WebRTC
                                       \-> TelemetryHub -> gRPC -> Controller

| component | state | operations | what makes it hard | what makes it correct |
|---|---|---|---|---|
| stream coordinator (`stream_coordinator.cpp`) | frames and answers that wait, by frame id; three cursors; the last ids queued per stage | `push_*`, `drain_ready` | answers of several workers in any order, lost answers, early and late face answers, maps at their limit | a frame is in one stage at a time; frames leave once, in order, with boxes that no longer change; a loss delays by the reorder window at most; every pass ends |
| bounded queue (`bounded_queue.hpp`) | items, a stop flag, a drop counter | push, try_pop, pop_for, stop, reset | notifications after the unlock; stop and reset with consumers asleep | FIFO of the newest items; drops add up; nobody sleeps on work or on a stopped queue |
| recognizer (`mobilefacenet_recognizer.cpp`) | per stream: the gallery; per track: unknown, known or in progress | recognize, reload_gallery | lookup and mark under two lock acquisitions, inferences that throw, expiry and reload under a running worker | one worker per track; no mark without a worker; nobody unknown is shown; a reload reaches cached decisions |
| Runner manager (`runner_manager.cpp`) | configuration, the running pipeline, state, last error | start, stop, reload with rollback, reload gallery | starts that fail, in the rollback too; WebRTC peers that come during a stop | state, telemetry and publishers agree between commands; configuration is the last accepted one; no stale peer |
| telemetry hub (`telemetry_hub.cpp`) | subscribers with one bounded queue each, the latest metrics | publish, subscribe, watch, unsubscribe | publishers visit a copy of the list while subscribers come and go | order per publisher, bounded memory, only full queues lose, closed is final, no lost wake-up |
| pipeline runtime (`runtime.cpp`) | the threads, the pools and their queues; the publish path | start, stop, commit | several anonymizer workers per stream; a pool that fails to start after others run | what one worker anonymized leaves in order, nothing leaves as it came; stop joins everything it frees |
| WebRTC publisher (`webrtc_publisher.cpp`) | streams; sessions with a mutex each | register, offer, delete, clear, expire, push | peers are counted and inserted under two acquisitions; a session is listed before it is started; GStreamer calls back while sessions are stopped | the limit holds up to that race; what is listed can be pushed to; what runs is stopped by somebody; calls return |
| HTTP and MJPEG server (`runner_http_server.cpp`) | per stream the last JPEG and its number; a running flag; a handler per viewer | push_jpeg, /video, stop | stop notifies without the lock its waiters use; waits have no timeout | a viewer is sent the newest frame; every handler ends after stop |
| dual source (`gst_dual_source.cpp`) | two bounded buffers of samples | pairing by timestamp, trimming | late and lost samples on either branch; samples without a timestamp | pairs are in order and of one moment; trimming loses no pair that could match |
| detectors (`yolox_detector.cpp`, `uhd_detector.cpp`, `scrfd_detector.cpp`, `yunet_detector.cpp`) | none | decode, rank, suppress | index arithmetic over a pyramid; a limit on candidates | a value is read for what the network computed it for; who is suppressed is represented |
| association (`association.cpp`, `demo_tracker.cpp`) | prices and paths of the assignment | hungarian, greedy, gates | more tracks than detections; infinite costs | the assignment is one-to-one and cheapest |
| ByteTrack (`bytetrack_tracker.cpp`) | tracked and lost tracks, ids | update | tracks move between lists over many frames | a track is in one list, ids are not used twice, a strong detection is returned or overlaps an older track |
| face policy, identity decider, anonymizer | none (decisions), blur memory (anonymizer) | plan, assign, decide, planned_regions | per-face, per-track and per-box decisions made one after the other | whoever is unknown is covered, and the region covers the box |
| configuration (`config.cpp`) | none | parse, validate, expand | about thirty numbers with checks in different places | what is accepted suits the components |
| offline renderer (`render_video/main.cpp`, `rules.cpp`) | frame number, output, rule state per track | one run | any stage may throw | the output follows the input; events are stays and crossings |
| Controller: analytics (`analytics_service.py`) | rules in a database and in an engine, a queue, one worker task | CRUD of rules, events, WebSockets | awaits between reading and writing; nothing restarts the worker | engine and store agree; frames are analysed |
| Controller: rendering (`render_service.py`) | jobs with a subprocess | create, run, cancel | cancel against start and completion | a job ends in one final state and leaves no process |
| Controller: gallery enrollment (`gallery_service.py`) | identities, embeddings, cached candidates | analyse, commit, deactivate, delete, reload | a commit that fails half-way; a reload that fails | the Runner compares with what is stored; a face is stored once |
| Controller: Runner client, telemetry cache, API | latest events | watch, fan out | reconnects, events missed | the cache is the newest event |
| metrics, transforms, web UI, evaluation tools and scripts | counters, tables | | | |

Interaction: stages talk through bounded queues that drop their oldest item, so no stage
can block another; a dropped task or result is an answer that never comes. Everything the
coordinator owns is touched by its thread alone, but the frames themselves are shared
objects that stages write without a lock. `RunnerManager` serializes commands with one
mutex; the WebRTC publisher and the telemetry hub outlive pipelines and have locks of
their own.

`PROJECT.json` lists under `hazards` each of these difficulties at its line with the
properties that cover it, or why none does.

## The modules

Each module has one action per operation, or per critical section where an operation has
several. Definitions named `<Definition>_<WhatIsWrong>` are wrong variants that no
specification uses: they show that the properties tell the code from a plausible mistake
in it.

### The pipeline and the services around it

**StreamCoordinator** is one stream's coordinator thread with the pools around it. A map
from frame ids is the set of its keys; `boxes[f]` is the stage that wrote
`frame->tracked_boxes` last. `pc` is the phase of `drain_ready`, and every iteration of a
loop of the code is a step, so the other threads interleave with them. A task stays in its
set (`recognition_tasks`, ...) until its answer is received. Workers answer in any order;
an answer that is never received is a task or a result a full queue dropped; `Recognize`
and `Decide` are the writes a worker makes on its own thread before it answers, any number
of times and at any moment. `FaceMode` is the configuration: no face detection, probes
planned with the tracked boxes, or probes planned before tracking. Real ids start at 0 per
stream, as here. Abstracted: box geometry, face assignment (one full-frame probe per
frame, as `face_policy.cpp` plans it) and profiling.

**FrameDelivery** is what a stream promises: ids leave in increasing order, each once,
only if ingested, with decided boxes that stay as they are. The coordinator implements it
with `published` mapped to the pairs of a committed frame and its boxes *now*: a late
write to a committed frame would show as a published pair that changes. That is the race
the anonymizer thread would see.

**BoundedQueue** numbers items in the order they are accepted. A push changes the queue
under the lock and notifies in a second step; `pop_for` is a wait that ends by
notification, timeout or spuriously, followed by a new look at the queue. `popped`,
`base`, `accepted` and `taken` are history.

**RecognizerCache** is `recognize` as a sequence of its critical sections (cleanup,
lookup, mark, extract, finish or clear) for several workers, and `reload_gallery` as its
two (swap, clear). Two cached decisions, the mark, the gallery, and the privacy action of
each result are kept. Embeddings are abstracted to "this track's person is in this
gallery"; quality gates and inference may go either way. `enrolled`, `late` and `disowned`
are history.

**RunnerManager** is the body of each command as a sequence of steps between acquiring and
releasing `mutex_`, because WebRTC offers and session ends do not take that mutex. A
configuration is the set of its streams. Every start may fail. `epoch` numbers pipelines,
`accepted` is the last configuration a reload accepted.

**TelemetryHub** is `publish_` (copy the list; then per subscriber lock, push, unlock,
notify), the watcher's `pop_for` and `unsubscribe_`. An event is a pair of its publisher
and a number. Events of one kind and stream have one publishing thread in the code, hence
one sequence number per publisher.

**WebRTCPublisher** is `handle_offer`, `delete_session`, `clear_sessions` and
`publish_frame`, with one action per acquisition of the publisher's `mutex_` and one per
stretch of a `Session` between two things another thread can see. A session's mutex is a
variable, since `push_frame` holds it while it fills a buffer, and so is `callback`: a
GStreamer thread that has read a new connection state and is about to take the mutex to
store it. `elements` is the set of the pointers `pipeline`, `appsrc` and `webrtc` that are
not null. `start()` sets them one after another without the mutex and reads `pipeline`
again each time it needs it, which `ReadPipeline` makes a step of its own; `stop()` takes
whatever is there and halts it, or finds no pipeline and has nothing to halt. `held` and
`removed` are the `shared_ptr` copies of a thread: who returns with the last one runs
`~Session`. A thread starts any call when it has ended the one before, which is more than
the HTTP server, the Runner and the encoders do. `dead`, `raced` and `overtaken` are
history. Left out: SDP, ICE, frame sizes, the choice of an encoder, and a peer that
reconnects before it is expired. The callers of `clear_sessions`, and what it means to the
Runner, are in RunnerManager.

**PipelineRuntime** is `start`, `stop` and the threads in between. `at` says for each
thread where it is in its loop: at the head, where it looks at `running_`, in the body, or
with a frame in hand; `pc` is where `start` or `stop` is. Every factory, tracker, worker
or source may fail to be made, and each has its own way out. Of the stages before the
commit only the threads are here (what they do is in StreamCoordinator), and a started
pool is one thread; a coordinator may commit its next frame at any time, ids counting the
commits. After it, the image is a shared object: `hand` and `result` say which thread may
touch it. `pop_for` may always come back with nothing, as after its timeout, so it does
not matter that `StopQueues` stops all queues at once. A queue is the two operations that
BoundedQueue shows to be what its steps amount to. The Runner makes a new object for each
start, so there is one life. `anonymized` and `last` are history.

**RunnerHTTPServer** is one stream's `StreamState` with `push_jpeg` (its critical section,
then the notification), the handlers of GET /video, which take the mutex, test the
predicate, fall asleep and write in separate steps, and `stop`. The order between the end
of the pipeline and `stop` is that of the members of `RunnerManager`. `missed` is history.

**AnalyticsService**, **RenderJobs** and **GalleryEnrollment** are three services of the
Controller, which runs one asyncio loop: what a coroutine does between two awaits is one
action, and every await is a point where others run. AnalyticsService has the rules in the
database and in the engine, the calls that change them (the database is used in threads,
so a write is a step of its own), the worker, and a restart of the Controller. In
RenderJobs a job is created, run and cancelled, and the process may end at any moment, by
itself, told to or killed. In GalleryEnrollment only `reload_gallery` awaits; commits name
up to two candidates, and the first that cannot be stored ends the request; `auto_refresh`
may be on or off. `raced`, `cancelled`, `raised`, `unsynced` and `repeated` are history:
they mark the cases where the code does not keep what the property asks otherwise.

**ConcurrentParts** puts these four side by side: they share no state, so a behaviour is
one of one of them, which `part` names from the start, and the others stay as they are.

### What one thread computes

**Config** is `parse_config_yaml_node`, `validate_config` and `expand_replicas`: every
number with its key's kind of check (`size`: not negative before it is cast to `size_t`;
`checked`: refused below a minimum; `raised`: set to the minimum; `plain`: left to
`validate_config`), the module choices, where the files of a network come from, and the
ids of replicas, where a list may name any id. Keys of one kind in one section that are
checked alike stand for each other.

**DualSource** is `start`, `stop` and `read`: pulls of the two branches, `try_match_`,
`emit_pair_` and `trim_pending_`, with timestamps as data. GStreamer's appsinks are
external: each delivers its moments in order, with gaps of its own.

**Detection** is one call of a detector. `DecodeRow` compares, for every input size,
level, anchor and field, the index the code computes with the place where the network put
the value (for UHD that place, `UhdHead`, is this model's reading of the output layers the
code patches, so that part says less); `Infer`, `Rank` and `Suppress` are the candidates,
`top_k` and non-maximum suppression over an arbitrary relation of overlap.

**Association** is `hungarian_assignment`, step by step with its prices, slacks and path,
on any matrix of overlaps, and the greedy matching of the demo tracker.

**ByteTracker** is `update` as one action, with any one-to-one matching that its stages
allow (association is in the module above). A track is its id; its frame numbers are kept,
its box is not.

**FramePrivacy** follows the boxes of one frame through the face policy, the recognizer's
decision, the identity decider and `planned_regions`. Geometry is what the code tests of
it: which faces are plausible for which track, and whether a box can be seen.
`map_box_to_ui_` is a step of its own, along one axis, with the code's arithmetic;
`LiesIn`, `PlausibleWidth` and `PlausibleHeight` are what `plausible_face_for_track`
demands along that axis.

**RenderVideo** is `main` of the offline renderer with `RenderRuleEngine` for one rule and
one track. Any stage of a frame may throw.

**SequentialParts** puts these seven side by side, as ConcurrentParts does.

### Reading the code against the model

- `drain_commit_ready_`'s first branch (the cursor starts at the first identity result)
  can never be taken: `process_tracked_frame_` sets the cursor first. The invariant
  `CommitCursor` of the proofs shows it.
- A failed reload starts the old configuration even if the pipeline was stopped before the
  reload, and a rollback that succeeds clears the error message.
- A start that fails publishes the status `stopped` while `state_` is `error`.
- Streams are never unregistered, hence `config \subseteq registered`, not `=`.
- A push to a stopped queue is not counted as a drop.
- `max_peers_per_stream` can be exceeded: peers are counted under one acquisition of
  `mutex_` and the session is inserted under the next. `LimitUnlessRaced`, a part of
  `RoomIsKept`, says by whom.
- An offer whose session is deleted or cleared while it is negotiated is either answered
  201 for a session that is no longer listed (and destroyed when the handler returns),
  fails, or hangs on a promise that is never kept, because `webrtc` is read without the
  mutex and may be null.
- `start()` reads `pipeline` without the mutex too. A `stop()` between the reading and
  `gst_element_set_state` (webrtc_publisher.cpp:324) halts the pipeline and gives it back;
  `start()` then uses an object that may be gone. What that does is open, and playing on
  with nobody left to halt it is one of the outcomes in the model. `NothingRunsUnowned`
  makes these sessions (`overtaken`) its one exception.
- With more than one anonymizer (`anonymizer_workers`, default 1) frames of a stream can
  be published out of order, and nothing downstream looks at `frame_id`. No document
  promises otherwise; `WorkerInOrder`, a part of `FramesLeaveRight`, says what is left.
- `person_detection_count` may be written by a detector while the encoder reads it, if the
  coordinator gave the frame up meanwhile: a data race on an integer that only goes into
  metadata.
- `stop()` joins the ingest thread, so it waits for as long as a source takes to start.
- Ended sessions stay listed, and are pushed to, until the next offer for any stream
  expires them.
- Nothing refuses two streams of one id, a list of replicas' ids that names one twice, or
  an id in such a list that another stream has or that is made up for another replica. The
  pipeline then keeps one `StreamPipe` for both and assigns to threads that run
  (runtime.cpp:471), which ends the process. All these files are accepted in the model as
  in the code; `AcceptedIsUsable` says that two streams share an id for such a file
  (`IdsClash`) and for no other.
- A /video handler that has found its predicate false and does not sleep yet is missed by
  `stop()`, sleeps for ever, and `listen()` does not return
  (runner_http_server.cpp:273-281). `StopEnds` makes it the one exception.
- A detector's output is read as the network's only if the input's sides are multiples of
  32; nothing checks that.
- A track drops out of `update()`'s result in the very frame that matched it when an older
  lost track overlaps it (`DetectionsAreReported`).
- Faces are given to tracks by plausibility, and a track that is allowed from the cache is
  not looked at again: the face of somebody else that was given to it is shown too
  (`FacesAreCovered`). A face given to a track too little of which is in the frame for a
  region is shown as well.
- Unless `face_only_when_available` is set a track's region is its inflated body, and a
  face that is plausible for the track need only lie half in it. Up to 35 percent of its
  width and a quarter of its height can be outside the region (`FacesStickOutLittle`),
  half of the height for faces of four pixels.
- A region's position and length are rounded one by one, so that a box less than seven
  pixels long may stick out by one pixel.
- A face answer that comes after its frame was overdue is stored in `early_face_results_`,
  though nobody will take it; only `trim_pending_` removes it, once `pending_limit_`
  younger ones are there.
- The offline renderer writes a frame whose detection or masking threw as it came, and a
  frame twice if something failed after it was written; a `writer.write` that throws in
  the handler itself (main.cpp:610) ends the process, which the model leaves out:
  `OutputFollowsInput` is about runs that return. With a rate of 0 the times of its events
  are what the machine's cast makes of infinity.
- Two requests that change a rule at a time can leave the engine with a deleted rule, or
  the older version, until a restart; an exception other than `RuntimeError` in a
  broadcast, or any in the analysis, ends the worker for good.
- A cancel that is answered before a job has a process does not keep it from starting, and
  a task that raises overwrites `cancelled` with `failed` (`JobsSettle`).
- A commit that fails half-way keeps what it has stored, tells the Runner nothing, and
  stores it again when it is repeated. With `VEILSIGHT_GALLERY_AUTO_REFRESH` off no change
  is told to the Runner: it compares with the old gallery until an operator's refresh or a
  start (`EnrolledOnceAndLoaded` has both as exceptions).

## The runs

| run | constants | question |
|---|---|---|
| `coordinator_person_bbox` | 3 frames, window 1, limit 1 | `OneStage`, `MapsAreBounded`, and `DrainEnds` under fairness |
| `coordinator_independent` | 4 frames, window 1, limit 2 | `NothingStaysBehind` (the commit cursor and the lag), `ProbesAreKept` (face answers: there while needed, the oldest trimmed), and `DeliversFrames` (refinement) |
| `coordinator_in_order` | 3 frames, window 1, limit 2 | `EveryFrameSettles` in the default deployment |
| `bounded_queue` | 3 threads, capacity 2, 5 items | `QueueIsExact`, `NoLostWakeup`, `StopWakes` |
| `recognizer_cache` | 2 workers, 1 track, 4 frames, TTL 1, 1 reload | `OneExtraction`, `ReloadReaches`, `OnlyEnrolledAllowed`, `MarksResolve` |
| `recognizer_reload_is_final` | the same, 3 frames | `ReloadIsFinal`, which the code violates |
| `runner_commands` | 2 clients, 2 streams, 3 commands | `CommandsAgree` (state, configuration, sessions), `CommandsEnd` |
| `telemetry` | 2 publishers, 2 watchers, capacity 2, 5 steps | `WatchersSeeTheNewest`, `ClosedIsFinal`, `WatchersWake` |
| `webrtc_sessions` | 2 threads, 1 stream, 1 peer, 2 sessions | `RoomIsKept` (the limit and who makes room), `SessionsAreOwned` (listed is live, pushes are safe, what runs is owned, but for the session stopped under its `start()`), `CallsEnd` |
| `pipeline_runtime` | 2 pools, 1 stream, 2 anonymizers, 2 frames, capacities 2 and 1 | `NothingOutlivesStop`, `FramesLeaveRight` (anonymized, one holder, in order), `CallsEnd` |
| `sequential_parts` | see below | `AcceptedIsUsable`, `PairsAreRight`, `DetectionsAreTrue`, `AssociationIsBest`, `TracksAreConsistent`, `RemovedTracksStayRemoved`, `DetectionsAreReported`, `PeopleAreCovered`, `OutputFollowsInput`, `EventsAreStays` |
| `concurrent_parts` | 2 viewers, 2 frames; 1 rule, 2 callers, 2 versions, queue of 1; 2 cancels; 2 candidates, 2 requests | `ViewersCatchUp`, `StopEnds`, `AnalyticsSettles`, `JobsSettle`, `EnrolledOnceAndLoaded` |

A property that names several things is the conjunction of definitions with comments of
their own in its module.

**Bounds.** Coordinator: with a window of 1, three frames are the least for which an
answer is overdue (frame 2 was queued while 0 is awaited), and a fourth lets the stream go
on afterwards. A limit of 1, not above the window, makes `trim_pending_` give up frames
that still wait in the face stage. Queue: with capacity 2 and five items it overflows, is
emptied and overflows again; two threads can wait while a third pushes. Recognizer: two
workers and four frames with TTL 1 are enough for a mark to expire under its worker, for
another worker to mark the track again, and for the first one to clear the mark of the
second. Tracks do not interact except through `Erase`, so one is checked and any number is
proved. Runner: three commands are a running pipeline, a reload that fails with its
rollback, and another client's command after it. Telemetry: `MaxSteps` bounds events and
subscriptions together; five are two watchers and an overflow of a queue of two, or one
watcher whose metrics are replaced and whose list is copied before it closes. WebRTC: two
threads and two sessions are two offers that race for the one place, an offer against a
deletion, a clearing, or a push, and a second peer that comes after the first has ended.
Pipeline: two pools are one that fails after the other runs; with two frames both
anonymizers have one in hand, a queue holds two in order, and the encoder's queue
overflows. That the anonymizers' queue overflows, and that streams share it, is left to
the proofs. `MaxFrames`, `MaxPushes`, `MaxReloads`, `MaxCommands`, `MaxSteps`,
`MaxSubscribers` and `MaxSessions` bound counters in guards and nothing else; the proofs
hold for every value of them.

In `sequential_parts`: *Config* tries every number's key with every value at an edge of a
check, below, at and above it, crossed with the module choices it depends on; all texts;
all keys of a model; and streams alone and in pairs, three ids and lists of up to two ids,
so that every way in which ids clash occurs. `SizeRange` is 65536 instead of 2^64: it is
above every edge, so a negative number that is cast is as large as it is there.
*DualSource*: buffers of 2 and 5 moments, of which each branch drops any, fill, overflow
and age. *Detection*: inputs of 32, 48 and 64 are multiples of 32 and one that is not;
four boxes, a cut at three, and any overlaps. *Association*: all matrices up to 3 by 3 of
three degrees of overlap, with extra costs for up to 4 pairs; three rows are the least for
a path that reassigns two. *ByteTracker*: two detections, three tracks and five frame
numbers, with a buffer of 1, are a track that is lost, one that is found again, one that
expires, and an overlap of either kind. *FramePrivacy*: two tracks and two faces with any
plausibility; at each length, every face that is plausible along it; lengths up to 10
pixels in steps of a half, at three scales. *RenderVideo*: four frames and one failure,
gap and dwell of 2. In `concurrent_parts`: two of each actor is what a race takes; two
frames are one that waits and one that a full queue drops; three copies are a candidate
named twice in a retry.

**Deadlock** is checked where a bound cannot stop the system by itself (the coordinator
loops forever, a queue can always be reset); the other models stop when their bounded
inputs are used up.

**Fairness.** The coordinator thread never blocks inside `drain_ready` (its callbacks push
to queues that drop), hence weak fairness of `Drain`. Threads inside a call of a queue, of
the recognizer, of the Runner, or of `publish_` go on: weak fairness of their steps. A
consumer's wait is *not* assumed to time out, although it does in the code: so `StopWakes`
and `WatchersWake` say that notifications alone suffice. `EveryFrameSettles` is about the
default deployment (`InOrderSpec`): one worker per pool (`config.hpp` 64, 143, 150, 171),
so a pool answers in the order it was asked, and no losses. Each pass of
`coordinator_loop_` empties all queues before it drains, hence strong fairness of the
receiving steps, which are enabled only between drains. `CallsEnd` needs strong fairness
of a thread that waits for a session's mutex: the encoder, which takes it once per frame
with `try_lock`, does not keep others out forever. It also needs that callbacks end
(`Store`). Offers that hang as described above are its named exception. The pipeline's
`CallsEnd` needs that each thread returns to the head of its loop: bodies end (`pop_for`
times out, the coordinator does not block), and a source's start returns. A `stop` is
never owed, and commits are not. In ConcurrentParts a /video handler is not kept out for
ever (strong fairness: it needs the mutex), a notification and a join that were begun go
on, the analytics worker runs when it has work (weak fairness of `Work`; a database write
ends), a killed process ends, and a cancel's wait ends by its timer or by the process's
end. Frames, requests, restarts and a process that ends by itself are not owed. With
losses at the end of a stream `EveryFrameSettles` is false and the code does not promise
it: the last frames wait for a successor to make them overdue.

## The proofs

Eight modules hold the proofs:

| proofs | about |
|---|---|
| `StreamCoordinatorProofs` | StreamCoordinator, FrameDelivery |
| `PipelineRuntimeProofs` | PipelineRuntime |
| `WebRTCPublisherProofs` | WebRTCPublisher |
| `TelemetryHubProofs` | TelemetryHub |
| `WakeupProofs` | BoundedQueue, RunnerHTTPServer: threads that sleep on a condition variable |
| `RecognitionProofs` | RecognizerCache, GalleryEnrollment: what the Runner compares with |
| `ControlProofs` | RunnerManager, AnalyticsService, RenderJobs: requests and what they leave behind |
| `SequentialPartsProofs` | Config, DualSource, Detection, Association, ByteTracker, FramePrivacy, RenderVideo and their composition |

They hold for all values of the constants that satisfy the assumptions named in the
models: bounds are natural numbers, and positive where a bound of zero would leave nothing
(the pending limit, the track buffer, the peers, the frames of a video); the face mode is
one of three; threads are a finite set; nobody is the free lock; there is a stream; queues
have a capacity; no frame is not a frame; persons are not faces; `SizeRange` is above
every number the parser compares with; and any overlap with the grid's extra cost is less
than `Infinity`, as 1e9 is more than any cost in the code. Every invariant and action
property that a passing run checks is proved; what is proved beyond type correctness is
this.

*Coordinator.* `OneStageHolds`, `NothingIsLeft` (from `CommitStaysBehind` and
`LagBounded`), `ProbesHold`, `MapsStayBounded` and `Implements` (the refinement of
`FrameDelivery`). `OneStage` is not inductive alone: that a frame put into the face stage
is in no later stage needs to know that the tracker has not seen it. `IInv` therefore adds
`TrackerSplits` (the tracker's cursor separates what is queued and pending from everything
downstream and committed), `CommitCursor` (the commit cursor is between the committed
frames and the tracker's cursor), `Increasing` and `Decided` (the published order and
boxes) and `Lag`: what `LagIsBounded` says, with the phases of `drain_ready` during which
each part has been established and not yet disturbed. The lemma for a step has one case
per action. For `Implements`, a step of the coordinator is a `Commit`, an `Ingest` or a
stutter; that a worker's write is a stutter uses `OneStage`: a task's frame is not
committed. `ProbesHold` needs what the code relies on without saying: a probe whose frame
no longer waits is behind every frame still to come, so an early answer is for a frame
that waits, or kept for one that has not been tracked, or left over from a frame that went
on without it. The left-over ones are older than all others (`LeftoversAreOldest`), which
is why `trim_pending_`, which bounds the answers and takes the oldest, takes none that is
needed. `MapsStayBounded` counts: trimming keeps the newest `pending_limit_` of a map
(`NewestIsBounded`, with `NewestKeeps` and `NewestTakesOldest` for what it gives up).

*Queue.* `QueueHolds` is `ItemsInOrder` and `ItemsAddUp`, which are inductive together
once steps are summarized by what they do to the items. `WakeupsArrive` (`NoLostWakeup`)
counts: a push adds an item and a thread that will notify; a notification turns a notifier
into a woken thread; a woken thread takes an item or found none. `StopIsSeen` is
inductive.

*Recognizer.* `MarksAreOwned` and `ExtractionIsExclusive` need each other and that workers
at an undisturbed track keep its mark. `FailsClosed` needs that galleries, snapshots and
known tracks are subsets of what was ever enrolled. `ReloadsReach` is inductive.

*Runner.* `IInv` says who is inside the mutex, what a command has established at each of
its steps (`Progress`), and that the published facts agree unless a command is between
stopping the pipeline and clearing sessions (`Calm`). `SettledHolds`, `ConfigIsKept` and
`SessionsAreFresh` read it off for a free mutex; together they are `CommandsLeaveOrder`.

*WebRTC.* `IInv` follows a session's life. `Made`, `OneMaker` and `Unlisted`: nobody but
its offer knows a session before it is listed. `Hands`: who pushes holds the mutex, who
halts has taken the elements, from which `PushesAreSafe`. `Stopping` and `Erased`:
sessions leave `sessions_` before they are stopped, and what was taken plays only until it
is halted, from which `ListedSessionsAreLive` and `RunningIsOwned`. `Starting`, `Built`
and `Reading` say what `start()` has set and read so far, and that who has read a pipeline
that was taken since is in `overtaken`, the exception of `RunningIsOwned`. `Room`: what
`expire_idle_sessions` found ended is deleted before peers are counted. `LimitHolds` needs
`Counted`: an offer that nobody overtook between counting and insertion still has the room
it counted; its step lemma argues with cardinalities, the other actions by `Shrinks`.
`RoomHolds` and `OwnershipHolds` state what the run checks.

*Pipeline.* `StopFreesUnused` follows from `Life`: which threads exist at each step of
`start` and `stop`. For `PublishedInOrder` the invariant follows a frame on its way.
`Queued`: the anonymizers' queue holds each stream's frames in the order of their ids.
`Passed`: what left it is older than what is in it or still to come. `Ordered`: the frames
of one stream and one anonymizer are in order from the publisher over the encoder's hand
and queue back to the anonymizer's hand. `HeldOnce` rests on the first two: a frame that
is taken is in nobody's hands. That a push keeps an order and drops only from the front is
the lemma `PushedItems`; each action that moves a frame has a lemma of its own
(`CommitPath`, `TakeFramePath`, ...). `FramesLeave` is these three and what the encoder
takes, as the run states them.

*Tracks.* `TrackerIInv` adds to the types that `frameId` follows the numbers given
(`NumbersFollow`); `TracksHold` (`TracksAreConsistent`) is then inductive, and
`RemovedStay` and `DetectionsReach` follow from one step. The lemmas `UpdateAdvances` and
`AdvanceLists` summarize the one large action by what it does to the lists: that a
matching is one-to-one matters only for `DetectionsReach`.

*Privacy.* `NobodyGetsLost` (`PeopleAreCovered`), for any tracks, faces and lengths. Its
invariant says that a face is on a box or still to be assigned (`FacesHaveBoxes`), that
who has no identity is anonymized (`UnknownAnonymized`) and that the regions are those
`Region` plans (`RegionsArePlanned`). The axis has a lemma per scale (`AxisFullScale`,
`AxisLarger`, `AxisSmaller`): the quotients of `LRound` are introduced as numbers with
their bounds, since the prover has no division. That faces stick out little
(`FaceSticksOut`) follows along an axis from where `LiesIn` lets them be: the middle of
the face is in the box and 15 percent of the box is added on each side, while the face has
at most 95 or 60 percent of the box's length.

*Telemetry.* `WatchersSeeTheNewestHolds` and `ClosedIsFinalHolds` rest on `HubInv`. That
only full queues lose events is not inductive: a publisher works on a copy of the list, so
what is missing in a queue may still be on its way. `Owes(p, s)` says that it is;
`Numbered` that nobody has an event that is not published or is still owed; `UpToDate`
that whoever has got anything of a publisher, and may get more, has got its newest event,
or the one before while the newest is owed. `IdsAreFresh` adds that a new subscriber is in
no copy of the list. A publisher's steps and a watcher's have a lemma each.

*Viewers.* `SleepersWakeInTime` is the safety part of `ViewersCatchUp`. A viewer tests,
finds nothing and falls asleep in three steps with the mutex held (`LockIsHeld`), so a
push cannot come in between, but `stop()` can: `UnreadyIsUpToDate` says that a viewer on
its way to sleep has been sent the newest frame, and that either nobody has stopped the
server, or its notification is still to come, or it is in `missed`.

*Gallery.* `EnrolledOnceAndLoadedHolds` needs `OpenMeansUnstored`: while an image's
enrollment is cached, only what a commit that ended half-way has left of it is stored; and
that nothing is stored of an identity that does not exist. What a deactivation or a
deletion does to what can be loaded has its lemmas, and so has what a change does that
asks for a reload or, with `auto_refresh` off, asks for none.

*Rules.* `EngineFollowsHolds` is the safety part of `AnalyticsSettles`. A rule that is not
in `raced` has one request at a time (`OneAtATime`); its engine copy is the stored rule
unless that request is between its write and its apply (`CopyFollows`), and there the
request is about to apply what is stored (`RequestFits`).

*Render jobs.* `JobIsSafe` is the safety part of `JobsSettle`: `ProcessInv` ties the task
to its process, `StatusInv` the status to the task, `CancelInv` says from when a cancel
counts.

*Configuration.* `AcceptedIsUsableHolds`, for any `SizeRange`. `ConfigInv` says what each
pass of the parser has established (`NumbersFit`, `ModelsFit`, `StreamsFit`, `ChecksHold`)
and that later ones leave it alone. That streams share an id exactly when the file has ids
clash is a fact about `FlattenSeq` of the replicas' ids: its elements are those of the
streams' lists in their places (`ReplicasInOrder`), and which ids a list has and where it
has one twice are lemmas about `ReplicaIds`; that a key has one entry in the tables, which
are read with `CHOOSE`, is `InfoRecord` and its lemmas.

*Dual source.* `PairsAreRightHolds`. `SourceInv` says of each branch (`Side`) that its
queue ascends, that what it has delivered is queued, aged, capped or has left with its
partner, and that what was aged is behind something the other branch has delivered. At
most one moment is in both queues, and only right after a pull (`OneToPair`): without it
`try_match_`, which pairs the fronts, could pass one over. What `trim_pending_`'s loop
does, whose turns are a recursive function on the pair of queues, is proved by induction
over their total length (`Thins`).

*Detection.* `DetectionsAreTrueHolds`. The decoding is arithmetic on quotients and
remainders by the strides, for inputs of every size and not only the run's three.
`RankInv`: a candidate is in the order or lost its place to `TopK` at least as good.
`SuppressInv`: of the order's beginning each is kept, or overlaps one that is kept and
scores as high.

*Association.* `AssociationIsBestHolds`, for matrices of every size. It is the duality
proof of the Hungarian method: `Prices` (row and column prices are a dual solution) and
`Tight` (assigned pairs cost exactly their prices) are kept by every step of the search,
and at the end the sum of the prices is what the assignment costs and what any other costs
at least. The search's own part of the invariant is a tree of tight edges over the columns
used (`OnTree`, with a rank that falls along `way`, so that `augment` ends in column 0),
and `slack` as the least excess over that tree. The sums are community-module folds over
sets; that such a fold exists, and does not depend on the order in which the elements are
chosen, is proved first (`IsFold`, `IsSum`), by induction on cardinality. For the greedy
matching `GreedyInv`: a pair above the threshold is left, or shares a track or a detection
with a match that overlaps as much.

*Offline renderer.* `OutputFollowsInputHolds`: `OutputIsVideo` says which frames the
output holds at each stage, a frame that failed included, and `StagesInOrder` from where
on a frame is masked. `EventsAreStaysHolds`: `RuleFollowsEvents`, what the engine
remembers of a track is what its last event says.

*All of them.* `PartsHold` carries the ten properties of `sequential_parts` over to the
composition the run checks: a step of SequentialParts is a step of one component and a
stutter of the others.

`StopReachesWaiters` (`StopIsSeen`), `RunningHasStreams` (`StartsAStream`) and type
correctness are proved and not among the runs' properties.

The library's induction rules take an operator, which the provers cannot instantiate; the
induction in these proofs is over a set of numbers (`Counting`, from the fact that `<` is
well-founded), and each use names the set.

Only model-checked is liveness, with which the prover cannot deal: `DrainEnds`,
`EveryFrameSettles`, `StopWakes`, `MarksResolve`, `CommandsEnd`, `WatchersWake`,
`CallsEnd` of WebRTCPublisher and of PipelineRuntime, `StopEnds`, and what
`ViewersCatchUp`, `AnalyticsSettles` and `JobsSettle` say will happen. The composition in
ConcurrentParts is checked; its components are proved one by one.

## A disagreement

`ReloadIsFinal` is violated. A recognizer takes the gallery, compares, and stores its
decision in `finish_decision`; `reload_gallery` swaps the gallery and clears the cache. If
the reload happens between taking and storing, the decision of the old gallery is stored
after the clearing. If a person was removed by that reload, the track stays "known" with
`privacy_action: "allow"`: lookups renew `last_seen_frame`, so the entry does not expire
while the track is seen. The README of the repository (138-143) says that known matches of
the gallery's active identities are allowed and the others anonymized. `ReloadReaches` is
what does hold: all decisions except those of workers caught in this window follow the new
gallery.

## What is not modelled

- Pixels, tensors and most geometry: what networks compute, embeddings, blurring, Kalman
  filters, the scene grid's statistics, lines and polygons. They are numerical; what
  control flow depends on is a choice.
- Metrics and transforms: counters and histograms that only people read, and two formulas.
- The web UI, evaluation tools and scripts: they show what services answer, or loop over
  files and write tables.
- `DemoTracker`'s counting of missed frames, `AnalyticsEngine` (the rules of
  `render/rules.cpp`, which RenderVideo models, in Python), the Runner client and the
  telemetry cache (a reconnecting copy of what TelemetryHub sends), `mjpeg_server.cpp`
  (not part of the build).
- YAML, protobuf and JSON conversion of texts that are only passed on.
- libwebrtc, GStreamer, gRPC and HTTP libraries, except for what the code sees of them.
- The status a gRPC command answers with is read in a second critical section; the code
  promises nothing about it, and nothing is checked.
- The destructor of TelemetryHub, which runs when nobody is left.

## The plan

Done: (1) StreamCoordinator with FrameDelivery, (2) BoundedQueue, (3) RecognizerCache, (4)
RunnerManager, (5) TelemetryHub, (6, 7) PipelineRuntime with the publish path, (8)
WebRTCPublisher, (9) RunnerHTTPServer, (10) DualSource, (11) ByteTracker, (12)
AnalyticsService, RenderJobs and GalleryEnrollment, (13) Config, Detection, Association,
FramePrivacy and RenderVideo; each with the proofs of its invariants.

Next, in this order:

14. **RunnerClient** with the telemetry cache: reconnects and events missed, against
    TelemetryHub.
15. **AnalyticsEngine** with several rules and tracks: areas that overlap and tracks that
    end inside.
16. **DemoTracker**'s missed frames, beside ByteTracker.
