---------------------------- MODULE WebRTCPublisher ----------------------------
(***************************************************************************)
(* WebRTCPublisher: the sessions of the peers that watch a stream.  HTTP   *)
(* handlers run handle_offer and delete_session, RunnerManager runs        *)
(* clear_sessions, encoder threads run publish_frame, and GStreamer calls  *)
(* back from threads of its own.  What the code does under mutex_ is one   *)
(* step; a Session's mutex is a variable, because push_frame holds it for  *)
(* as long as it fills a buffer.  A session is negotiated after it was     *)
(* listed and without its mutex, so everybody else may meet it half made.  *)
(***************************************************************************)
EXTENDS Integers, FiniteSets

CONSTANTS
  Threads,     \* the threads that call the publisher
  Free,        \* the holder of a mutex nobody holds
  Streams,     \* the stream keys
  MaxPeers,    \* webrtc.max_peers_per_stream
  MaxSessions  \* bound: the number of sessions ever made

ASSUME StreamsAssumption == Streams # {}
ASSUME ThreadsAssumption == IsFiniteSet(Threads) /\ Free \notin Threads
ASSUME MaxPeersAssumption == MaxPeers \in Nat \ {0}
ASSUME MaxSessionsAssumption == MaxSessions \in Nat

VARIABLES
  \* the publisher
  streams_, sessions_, next_id,
  \* each Session
  stream_key,
  elements,          \* which of pipeline, appsrc and webrtc are set
  mutex,             \* who holds its mutex
  ended,             \* connection_state is FAILED, CLOSED or DISCONNECTED
  idle,              \* listed sessions: whether last_seen is session_idle_timeout_s ago
  \* GStreamer
  playing,           \* whether the session's pipeline runs
  callback,          \* whether a callback is about to store that the connection ended
  \* each thread
  pc,
  stream,            \* the stream of its offer
  session,           \* the session its offer makes, 0 without one
  read,              \* whether its start() has read a pipeline that it is about to use
  held,              \* the shared_ptr<Session> it holds until it returns
  todo,              \* ids it is still to delete, or to push its frame to
  removed,           \* sessions it took out of sessions_ and is to stop
  current,           \* the session it is pushing to or halting
  then,              \* where it goes on after deleting
  \* history
  dead,              \* the ended sessions a thread's offer came upon
  raced,             \* the sessions inserted after another was, since they were accepted
  overtaken          \* the sessions stopped after start() had read the pipeline it is to play

publisher == <<streams_, sessions_, next_id>>
gstreamer == <<playing, callback>>
peer == <<ended, idle>>
offer == <<stream, session, dead, raced>>
start == <<read, overtaken>>
vars == <<publisher, stream_key, elements, start, mutex, peer, gstreamer,
          pc, offer, held, todo, removed, current, then>>

Ids == 1 .. MaxSessions
Elements == {"pipeline", "appsrc", "webrtc"}

(* The steps of handle_offer and its start(), of publish_frame, and of     *)
(* stopping sessions.                                                      *)
At == {"idle", "check", "insert", "build", "appsrc", "webrtc", "found", "play",
       "remote_offer", "answer", "fail", "hung", "publish", "push", "return", "delete", "halt"}

TypeOK ==
  /\ streams_ \in SUBSET Streams
  /\ sessions_ \in SUBSET Ids
  /\ next_id \in 1 .. MaxSessions + 1
  /\ stream_key \in [Ids -> Streams]
  /\ elements \in [Ids -> SUBSET Elements]
  /\ mutex \in [Ids -> Threads \cup {Free}]
  /\ ended \in [Ids -> BOOLEAN]
  /\ idle \in [Ids -> BOOLEAN]
  /\ playing \in [Ids -> BOOLEAN]
  /\ callback \in [Ids -> BOOLEAN]
  /\ pc \in [Threads -> At]
  /\ stream \in [Threads -> Streams]
  /\ session \in [Threads -> Ids \cup {0}]
  /\ read \in [Threads -> BOOLEAN]
  /\ held \in [Threads -> SUBSET Ids]
  /\ todo \in [Threads -> SUBSET Ids]
  /\ removed \in [Threads -> SUBSET Ids]
  /\ current \in [Threads -> Ids \cup {0}]
  /\ then \in [Threads -> {"idle", "check", "return"}]
  /\ dead \in [Threads -> SUBSET Ids]
  /\ raced \in SUBSET Ids
  /\ overtaken \in SUBSET Ids

(* What a field holds that nobody reads before it is set. *)
AnyStream == CHOOSE s \in Streams : TRUE

Init ==
  /\ streams_ = {} /\ sessions_ = {} /\ next_id = 1
  /\ stream_key = [i \in Ids |-> AnyStream]
  /\ elements = [i \in Ids |-> {}] /\ mutex = [i \in Ids |-> Free]
  /\ ended = [i \in Ids |-> FALSE] /\ idle = [i \in Ids |-> FALSE]
  /\ playing = [i \in Ids |-> FALSE] /\ callback = [i \in Ids |-> FALSE]
  /\ pc = [t \in Threads |-> "idle"]
  /\ stream = [t \in Threads |-> AnyStream]
  /\ session = [t \in Threads |-> 0] /\ read = [t \in Threads |-> FALSE]
  /\ held = [t \in Threads |-> {}] /\ todo = [t \in Threads |-> {}]
  /\ removed = [t \in Threads |-> {}] /\ dead = [t \in Threads |-> {}]
  /\ current = [t \in Threads |-> 0] /\ then = [t \in Threads |-> "idle"]
  /\ raced = {} /\ overtaken = {}

Goto(t, label) == pc' = [pc EXCEPT ![t] = label]

(* The sessions that watch stream s. *)
Peers(s) == {i \in sessions_ : stream_key[i] = s}

(* The shared_ptr copies a thread has; sessions_ has one for each of its   *)
(* members, and the last copy to go destroys the session.                  *)
Holds(t) == held[t] \cup removed[t]

-----------------------------------------------------------------------------
(* Stopping sessions: erase what is to be deleted from sessions_, then     *)
(* stop() it, its elements first under its mutex and GStreamer's threads   *)
(* afterwards without, and go on where `then` says.                        *)
Erase(t, i) ==
  /\ pc[t] = "delete" /\ removed[t] = {}
  /\ i \in todo[t]
  /\ todo' = [todo EXCEPT ![t] = @ \ {i}]
  /\ sessions_' = sessions_ \ {i}
  /\ removed' = [removed EXCEPT ![t] = {i} \cap sessions_]
  /\ raced' = raced \ removed'[t]
  /\ idle' = [idle EXCEPT ![i] = FALSE]
  /\ UNCHANGED <<streams_, next_id, stream_key, elements, start, mutex, ended, gstreamer,
                 pc, stream, session, dead, held, current, then>>

(* Wrong: stop() keeps the mutex while it halts the pipeline. *)
AfterTake_Locked(t) == t

(* Who holds the session's mutex once stop() has taken its elements. *)
AfterTake(t) == Free

Takable(i) == mutex[i] = Free

(* An offer's start() is about to play the pipeline it has read. *)
BeingPlayed(i) ==
  \E t \in Threads : pc[t] = "play" /\ session[t] = i /\ read[t]

Take(t, i) ==
  /\ pc[t] = "delete" /\ i \in removed[t]
  /\ Takable(i) /\ "pipeline" \in elements[i]
  /\ elements' = [elements EXCEPT ![i] = {}]
  /\ mutex' = [mutex EXCEPT ![i] = AfterTake(t)]
  /\ current' = [current EXCEPT ![t] = i]
  /\ Goto(t, "halt")
  /\ overtaken' = IF BeingPlayed(i) THEN overtaken \cup {i} ELSE overtaken
  /\ UNCHANGED <<publisher, stream_key, read, peer, gstreamer,
                 offer, held, todo, removed, then>>

(* stop() finds no pipeline, not yet or no longer, and nothing to halt.    *)
TakeRest(t, i) ==
  /\ pc[t] = "delete" /\ i \in removed[t]
  /\ Takable(i) /\ "pipeline" \notin elements[i]
  /\ elements' = [elements EXCEPT ![i] = {}]
  /\ removed' = [removed EXCEPT ![t] = @ \ {i}]
  /\ UNCHANGED <<publisher, stream_key, start, mutex, peer, gstreamer,
                 pc, offer, held, todo, current, then>>

(* gst_element_set_state(NULL) waits for the pipeline's threads, one of    *)
(* which may be inside a callback.                                         *)
Halt(t) ==
  /\ pc[t] = "halt"
  /\ ~callback[current[t]]
  /\ playing' = [playing EXCEPT ![current[t]] = FALSE]
  /\ mutex' = [mutex EXCEPT ![current[t]] = IF @ = t THEN Free ELSE @]
  /\ removed' = [removed EXCEPT ![t] = @ \ {current[t]}]
  /\ current' = [current EXCEPT ![t] = 0]
  /\ Goto(t, "delete")
  /\ UNCHANGED <<publisher, stream_key, elements, start, peer, callback, offer, held, todo, then>>

EndDelete(t) ==
  /\ pc[t] = "delete" /\ removed[t] = {} /\ todo[t] = {}
  /\ Goto(t, then[t])
  /\ then' = [then EXCEPT ![t] = "idle"]
  /\ UNCHANGED <<publisher, stream_key, elements, start, mutex, peer, gstreamer,
                 offer, held, todo, removed, current>>

(* Wrong: ~Session does not stop what it destroys. *)
Destroyed_Running(t) == {}

(* The sessions of which t holds the last copy when it returns. *)
Destroyed(t) ==
  {i \in held[t] \ sessions_ : \A u \in Threads \ {t} : i \notin Holds(u)}

(* t returns from handle_offer or publish_frame; ~Session calls stop().    *)
Return(t) ==
  /\ pc[t] = "return"
  /\ removed' = [removed EXCEPT ![t] = Destroyed(t)]
  /\ held' = [held EXCEPT ![t] = {}]
  /\ session' = [session EXCEPT ![t] = 0]
  /\ Goto(t, IF Destroyed(t) = {} THEN "idle" ELSE "delete")
  /\ UNCHANGED <<publisher, stream_key, elements, start, mutex, peer, gstreamer,
                 stream, dead, raced, todo, current, then>>

(* delete_session of a session whose answer the peer has got. *)
DeleteSession(t, i) ==
  /\ pc[t] = "idle"
  /\ i < next_id /\ \A u \in Threads : session[u] # i
  /\ todo' = [todo EXCEPT ![t] = {i}]
  /\ Goto(t, "delete")
  /\ UNCHANGED <<publisher, stream_key, elements, start, mutex, peer, gstreamer,
                 offer, held, removed, current, then>>

ClearSessions(t) ==
  /\ pc[t] = "idle"
  /\ sessions_ # {}
  /\ removed' = [removed EXCEPT ![t] = sessions_]
  /\ sessions_' = {}
  /\ raced' = raced \ sessions_
  /\ idle' = [i \in Ids |-> FALSE]
  /\ Goto(t, "delete")
  /\ UNCHANGED <<streams_, next_id, stream_key, elements, start, mutex, ended, gstreamer,
                 stream, session, dead, held, todo, current, then>>

-----------------------------------------------------------------------------
(* handle_offer. *)

(* Wrong: forgets the peers that closed their connection. *)
ShouldExpire_IdleOnly(i) == idle[i]

ShouldExpire(i) == ended[i] \/ idle[i]

(* expire_idle_sessions, up to the deletions.                              *)
Offer(t, s) ==
  /\ pc[t] = "idle"
  /\ \A i \in sessions_ : mutex[i] = Free
  /\ stream' = [stream EXCEPT ![t] = s]
  /\ todo' = [todo EXCEPT ![t] = {i \in sessions_ : ShouldExpire(i)}]
  /\ dead' = [dead EXCEPT ![t] = {i \in sessions_ : ended[i] \/ idle[i]}]
  /\ then' = [then EXCEPT ![t] = "check"]
  /\ Goto(t, "delete")
  /\ UNCHANGED <<publisher, stream_key, elements, start, mutex, peer, gstreamer,
                 session, raced, held, removed, current>>

HasRoom(s) == Cardinality(Peers(s)) < MaxPeers

(* The offer is fit, its stream known, and there is room: a session gets   *)
(* its id.                                                                 *)
Accept(t) ==
  /\ pc[t] = "check"
  /\ stream[t] \in streams_
  /\ HasRoom(stream[t])
  /\ next_id <= MaxSessions
  /\ next_id' = next_id + 1
  /\ stream_key' = [stream_key EXCEPT ![next_id] = stream[t]]
  /\ session' = [session EXCEPT ![t] = next_id]
  /\ held' = [held EXCEPT ![t] = {next_id}]
  /\ dead' = [dead EXCEPT ![t] = {}]
  /\ Goto(t, "insert")
  /\ UNCHANGED <<streams_, sessions_, elements, start, mutex, peer, gstreamer,
                 stream, raced, todo, removed, current, then>>

(* 400, 404, 406, 429 or 503. *)
Refuse(t) ==
  /\ pc[t] = "check"
  /\ dead' = [dead EXCEPT ![t] = {}]
  /\ Goto(t, "idle")
  /\ UNCHANGED <<publisher, stream_key, elements, start, mutex, peer, gstreamer,
                 stream, session, raced, held, todo, removed, current, then>>

Insert(t) ==
  /\ pc[t] = "insert"
  /\ sessions_' = sessions_ \cup {session[t]}
  /\ raced' = raced \cup {session[u] : u \in {v \in Threads \ {t} :
                                        pc[v] = "insert" /\ stream[v] = stream[t]}}
  /\ Goto(t, "build")
  /\ UNCHANGED <<streams_, next_id, stream_key, elements, start, mutex, peer, gstreamer,
                 stream, session, dead, held, todo, removed, current, then>>

(* start(): the pipeline. *)
Build(t) ==
  /\ pc[t] = "build"
  /\ \/ Goto(t, "appsrc") /\ elements' = [elements EXCEPT ![session[t]] = {"pipeline"}]
     \/ Goto(t, "fail") /\ UNCHANGED elements
  /\ UNCHANGED <<publisher, stream_key, start, mutex, peer, gstreamer,
                 offer, held, todo, removed, current, then>>

(* start() reads pipeline, without the mutex, each time it needs it: to    *)
(* find appsrc, to find webrtc and to play.  stop() may take the pipeline  *)
(* before that, and then there is nothing to use, or between the reading   *)
(* and the use.                                                            *)
ReadPipeline(t) ==
  /\ pc[t] \in {"appsrc", "webrtc", "play"} /\ ~read[t]
  /\ "pipeline" \in elements[session[t]]
  /\ read' = [read EXCEPT ![t] = TRUE]
  /\ UNCHANGED <<publisher, stream_key, elements, overtaken, mutex, peer, gstreamer,
                 pc, offer, held, todo, removed, current, then>>

ReadNothing(t) == ~read[t] /\ "pipeline" \notin elements[session[t]]

(* start(): an element is found, if at all, in the pipeline that was read. *)
FindElement(t) ==
  /\ pc[t] \in {"appsrc", "webrtc"}
  /\ \/ /\ read[t]
        /\ elements' = [elements EXCEPT ![session[t]] = @ \cup {pc[t]}]
     \/ /\ read[t] \/ ReadNothing(t)
        /\ UNCHANGED elements
  /\ read' = [read EXCEPT ![t] = FALSE]
  /\ Goto(t, IF pc[t] = "appsrc" THEN "webrtc" ELSE "found")
  /\ UNCHANGED <<publisher, stream_key, overtaken, mutex, peer, gstreamer,
                 offer, held, todo, removed, current, then>>

(* start() fails: it calls stop() itself, and the session is deleted.      *)
GiveUp(t) ==
  /\ removed' = [removed EXCEPT ![t] = {session[t]}]
  /\ todo' = [todo EXCEPT ![t] = {session[t]}]
  /\ then' = [then EXCEPT ![t] = "return"]
  /\ Goto(t, "delete")

(* start(): appsrc and webrtc have to be there.                            *)
Found(t) ==
  /\ pc[t] = "found"
  /\ \/ /\ {"appsrc", "webrtc"} \subseteq elements[session[t]]
        /\ Goto(t, "play")
        /\ UNCHANGED <<todo, removed, then>>
     \/ /\ ~({"appsrc", "webrtc"} \subseteq elements[session[t]])
        /\ GiveUp(t)
  /\ UNCHANGED <<publisher, stream_key, elements, start, mutex, peer, gstreamer,
                 offer, held, current>>

(* start(): the pipeline that was read plays, also one that was halted     *)
(* and given back since, unless it is gone or the change of state fails.   *)
Play(t) ==
  /\ pc[t] = "play"
  /\ \/ /\ read[t]
        /\ playing' = [playing EXCEPT ![session[t]] = TRUE]
        /\ Goto(t, "remote_offer")
        /\ UNCHANGED <<todo, removed, then>>
     \/ /\ read[t] \/ ReadNothing(t)
        /\ GiveUp(t)
        /\ UNCHANGED playing
  /\ read' = [read EXCEPT ![t] = FALSE]
  /\ UNCHANGED <<publisher, stream_key, elements, overtaken, mutex, peer, callback,
                 offer, held, current>>

Negotiated(label) == IF label = "remote_offer" THEN "answer" ELSE "return"

(* set_remote_offer and create_answer: a promise that is kept or not.  One *)
(* emitted on an element that was taken in the meantime may never be       *)
(* replied to.                                                             *)
Negotiate(t) ==
  /\ pc[t] \in {"remote_offer", "answer"}
  /\ \/ "webrtc" \in elements[session[t]] /\ Goto(t, Negotiated(pc[t]))
     \/ "webrtc" \notin elements[session[t]] /\ Goto(t, "hung")
     \/ Goto(t, "fail")
  /\ UNCHANGED <<publisher, stream_key, elements, start, mutex, peer, gstreamer,
                 offer, held, todo, removed, current, then>>

(* The session a failed offer deletes. *)
Failed(t) == {session[t]}

Fail(t) ==
  /\ pc[t] = "fail"
  /\ todo' = [todo EXCEPT ![t] = Failed(t)]
  /\ then' = [then EXCEPT ![t] = "return"]
  /\ Goto(t, "delete")
  /\ UNCHANGED <<publisher, stream_key, elements, start, mutex, peer, gstreamer,
                 offer, held, removed, current>>

-----------------------------------------------------------------------------
(* publish_frame: the stream's sessions are copied and then pushed to. *)

RegisterStream(s) ==
  /\ streams_' = streams_ \cup {s}
  /\ UNCHANGED <<sessions_, next_id, stream_key, elements, start, mutex, peer, gstreamer,
                 pc, offer, held, todo, removed, current, then>>

PublishFrame(t, s) ==
  /\ pc[t] = "idle" /\ s \in streams_ /\ Peers(s) # {}
  /\ held' = [held EXCEPT ![t] = Peers(s)]
  /\ todo' = [todo EXCEPT ![t] = Peers(s)]
  /\ Goto(t, "publish")
  /\ UNCHANGED <<publisher, stream_key, elements, start, mutex, peer, gstreamer,
                 offer, removed, current, then>>

(* push_frame passes a session whose mutex it does not get at once or      *)
(* whose appsrc is not there.                                              *)
PassSession(t, i) ==
  /\ pc[t] = "publish" /\ i \in todo[t]
  /\ mutex[i] # Free \/ "appsrc" \notin elements[i]
  /\ todo' = [todo EXCEPT ![t] = @ \ {i}]
  /\ UNCHANGED <<publisher, stream_key, elements, start, mutex, peer, gstreamer,
                 pc, offer, held, removed, current, then>>

BeginPush(t, i) ==
  /\ pc[t] = "publish" /\ i \in todo[t]
  /\ mutex[i] = Free /\ "appsrc" \in elements[i]
  /\ mutex' = [mutex EXCEPT ![i] = t]
  /\ current' = [current EXCEPT ![t] = i]
  /\ todo' = [todo EXCEPT ![t] = @ \ {i}]
  /\ Goto(t, "push")
  /\ UNCHANGED <<publisher, stream_key, elements, start, peer, gstreamer, offer, held, removed, then>>

EndPush(t) ==
  /\ pc[t] = "push"
  /\ idle' = [idle EXCEPT ![current[t]] = FALSE]
  /\ mutex' = [mutex EXCEPT ![current[t]] = Free]
  /\ current' = [current EXCEPT ![t] = 0]
  /\ Goto(t, "publish")
  /\ UNCHANGED <<publisher, stream_key, elements, start, ended, gstreamer,
                 offer, held, todo, removed, then>>

EndPublish(t) ==
  /\ pc[t] = "publish" /\ todo[t] = {}
  /\ Goto(t, "return")
  /\ UNCHANGED <<publisher, stream_key, elements, start, mutex, peer, gstreamer,
                 offer, held, todo, removed, current, then>>

-----------------------------------------------------------------------------
(* GStreamer and time. *)

(* notify::connection-state with a state that should_expire looks for: it  *)
(* is read here and stored under the session's mutex below.  A pipeline    *)
(* that is being halted starts no more callbacks.  A peer that reconnects  *)
(* before it was expired is left out: it is one that had not gone.         *)
Notify(i) ==
  /\ playing[i] /\ ~callback[i] /\ ~ended[i]
  /\ ~\E t \in Threads : pc[t] = "halt" /\ current[t] = i
  /\ callback' = [callback EXCEPT ![i] = TRUE]
  /\ UNCHANGED <<publisher, stream_key, elements, start, mutex, peer, playing,
                 pc, offer, held, todo, removed, current, then>>

Store(i) ==
  /\ callback[i]
  /\ mutex[i] = Free
  /\ ended' = [ended EXCEPT ![i] = TRUE]
  /\ callback' = [callback EXCEPT ![i] = FALSE]
  /\ UNCHANGED <<publisher, stream_key, elements, start, mutex, idle, playing,
                 pc, offer, held, todo, removed, current, then>>

(* No frame was pushed for session_idle_timeout_s; only the sessions that  *)
(* are listed are ever asked.                                              *)
GrowIdle(i) ==
  /\ i \in sessions_
  /\ idle' = [idle EXCEPT ![i] = TRUE]
  /\ UNCHANGED <<publisher, stream_key, elements, start, mutex, ended, gstreamer,
                 pc, offer, held, todo, removed, current, then>>

(* What a thread does inside a call. *)
Step(t) ==
  \/ Halt(t) \/ EndDelete(t) \/ Return(t)
  \/ Accept(t) \/ Refuse(t) \/ Insert(t) \/ Negotiate(t) \/ Fail(t)
  \/ Build(t) \/ ReadPipeline(t) \/ FindElement(t) \/ Found(t) \/ Play(t)
  \/ EndPush(t) \/ EndPublish(t)
  \/ \E i \in Ids : \/ Erase(t, i) \/ Take(t, i) \/ TakeRest(t, i)
                     \/ PassSession(t, i) \/ BeginPush(t, i)

Next ==
  \/ \E t \in Threads :
       \/ Step(t) \/ ClearSessions(t)
       \/ \E i \in Ids : DeleteSession(t, i)
       \/ \E s \in Streams : Offer(t, s) \/ PublishFrame(t, s)
  \/ \E s \in Streams : RegisterStream(s)
  \/ \E i \in Ids : Notify(i) \/ Store(i) \/ GrowIdle(i)

Spec == Init /\ [][Next]_vars

(* Threads go on inside their calls, and so do callbacks.  The encoder,    *)
(* which takes a session's mutex once per frame, does not keep a thread    *)
(* out of it that waits for it, which is the fairness for Take.            *)
FairSpec ==
  /\ Spec
  /\ \A t \in Threads : WF_vars(Step(t)) /\ SF_vars(\E i \in Ids : Take(t, i))
  /\ \A i \in Ids : WF_vars(Store(i))

-----------------------------------------------------------------------------
(* Peers are counted under one acquisition of mutex_ and the session is    *)
(* inserted under another, so that a stream can get more peers than        *)
(* max_peers_per_stream.  Only sessions between whose counting and         *)
(* insertion another one was inserted are ever too many: the others keep   *)
(* to the limit, however peers come and go.                                *)
LimitUnlessRaced ==
  \A s \in Streams : Cardinality(Peers(s) \ raced) <= MaxPeers

(* Where an offer's session may be listed and not be live. *)
Unready == {"build", "appsrc", "webrtc", "found", "play", "fail", "delete", "halt"}

(* A listed session is ready to be pushed to, from the end of start() on   *)
(* until it is erased, whoever stops sessions meanwhile: its elements are  *)
(* there and its pipeline plays.  Only the offer that made it may find     *)
(* otherwise, while it starts it or deletes it after a failure.            *)
ListedIsLive ==
  \A i \in sessions_ :
    \/ elements[i] = Elements /\ playing[i]
    \/ \E t \in Threads : session[t] = i /\ pc[t] \in Unready

(* While push_frame fills a buffer, nobody gives its session's appsrc back. *)
PushIsSafe == \A t \in Threads : pc[t] = "push" => "appsrc" \in elements[current[t]]

(* A pipeline that runs belongs to a listed session or to a call that will *)
(* stop it: nothing encodes for a session that was deleted or cleared, not *)
(* even one whose offer was answered after that.  The one exception is a   *)
(* session stopped at the moment its start() had read the pipeline and had *)
(* not played it yet: that pipeline may play with nobody left to halt it.  *)
NothingRunsUnowned ==
  \A i \in Ids : playing[i] =>
    i \in sessions_ \cup overtaken \/ \E t \in Threads : i \in Holds(t)

(* No peer is refused for the sake of a session that had ended, or was     *)
(* idle, when its offer came.                                              *)
EndedMakeRoom == \A t \in Threads : pc[t] = "check" => dead[t] \cap sessions_ = {}

(* Room for peers: sessions that were not raced keep to the limit, ended   *)
(* ones do not use it up (create_session, cleanup_expired_sessions_).      *)
RoomIsKept == LimitUnlessRaced /\ EndedMakeRoom

(* Whoever knows a session knows one it can use, and a session nobody knows *)
(* does not run (create_session, delete_session, clear_sessions, push).     *)
SessionsAreOwned == ListedIsLive /\ PushIsSafe /\ NothingRunsUnowned

(* Every call returns: stopping a session waits for callbacks, callbacks   *)
(* wait for its mutex, and neither waits for the other.  Only an offer     *)
(* whose session was stopped under it may hang.                            *)
CallsEnd == \A t \in Threads : (pc[t] # "idle") ~> (pc[t] \in {"idle", "hung"})
=============================================================================
