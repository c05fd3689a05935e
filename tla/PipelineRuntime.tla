---------------------------- MODULE PipelineRuntime ----------------------------
(***************************************************************************)
(* PipelineRuntime: start() makes pools and pipes and starts their threads,*)
(* any of which may fail to start; stop() ends and joins whatever runs and *)
(* then frees what the threads used.  In between, frames that the          *)
(* coordinators commit (see FrameDelivery) pass the anonymizers, which all *)
(* streams share, and their stream's encoder.  Stages before the commit    *)
(* are in StreamCoordinator; here their threads only run and end.  The     *)
(* Runner makes a new object for every start.                              *)
(***************************************************************************)
EXTENDS Integers, Sequences, FiniteSets

CONSTANTS
  Pools,        \* the worker pools of the stages; one thread each
  Streams,      \* streams_
  Workers,      \* the threads of anonymizer_pool_
  None,         \* no frame
  AnonymizerCapacity, EncoderCapacity,   \* of the queues
  MaxFrames     \* bound: the number of frames each stream commits

ASSUME AnonymizerCapacityAssumption == AnonymizerCapacity \in Nat \ {0}
ASSUME EncoderCapacityAssumption == EncoderCapacity \in Nat \ {0}
ASSUME MaxFramesAssumption == MaxFrames \in Nat

VARIABLES
  running_,
  stages,         \* whether the stages, anonymizer_, metrics_ and pipes exist
  pipes,          \* the streams with a StreamPipe
  pc,             \* where start() or stop() is
  at,             \* where each thread is
  todo,           \* the streams start() is still to start
  stopped,        \* whether the queues are
  anonymizer_in, encoder_in,
  hand,           \* the frame an anonymizer has in hand
  result,         \* what an encoder has in hand: a frame and who anonymized it
  committed,      \* the number of frames each stream has committed
  \* history
  anonymized,     \* the frames that are
  last            \* the last frame of each stream and anonymizer that was published

lifecycle == <<running_, stages, pipes, pc, todo, stopped>>
path == <<anonymizer_in, encoder_in, hand, result, committed, anonymized, last>>
vars == <<lifecycle, at, path>>

(* A thread is named by what it does and for which stream, or by its pool. *)
PoolThreads == {"pool"} \X Pools
Anonymizers == {"anonymizer"} \X Workers
Metrics == <<"metrics", "thread">>
PipeThreads == {"ingest", "coordinator", "encoder"} \X Streams
Threads == PoolThreads \cup Anonymizers \cup {Metrics} \cup PipeThreads

Frames == [stream : Streams, id : 0 .. MaxFrames - 1]
Results == [frame : Frames, by : Workers]

ASSUME NoneAssumption == None \notin Frames \cup Results

TypeOK ==
  /\ running_ \in BOOLEAN /\ stages \in BOOLEAN /\ stopped \in BOOLEAN
  /\ pipes \in SUBSET Streams /\ todo \in SUBSET Streams
  /\ pc \in {"new", "pools", "streams", "running", "stop", "queues", "join", "clear", "done"}
  /\ at \in [Threads -> {"none", "opening", "loop", "body", "work", "ready", "failed", "ended"}]
  /\ anonymizer_in \in Seq(Frames)
  /\ encoder_in \in [Streams -> Seq(Results)]
  /\ hand \in [Workers -> Frames \cup {None}]
  /\ result \in [Streams -> Results \cup {None}]
  /\ committed \in [Streams -> 0 .. MaxFrames]
  /\ anonymized \in SUBSET Frames
  /\ last \in [Streams -> [Workers -> -1 .. MaxFrames - 1]]

Init ==
  /\ running_ = FALSE /\ stages = FALSE /\ stopped = FALSE
  /\ pipes = {} /\ todo = {}
  /\ pc = "new"
  /\ at = [th \in Threads |-> "none"]
  /\ anonymizer_in = <<>>
  /\ encoder_in = [s \in Streams |-> <<>>]
  /\ hand = [w \in Workers |-> None]
  /\ result = [s \in Streams |-> None]
  /\ committed = [s \in Streams |-> 0]
  /\ anonymized = {}
  /\ last = [s \in Streams |-> [w \in Workers |-> -1]]

Goto(label) == pc' = label
Turn(th, label) == at' = [at EXCEPT ![th] = label]

-----------------------------------------------------------------------------
(* start(). *)

(* The factories or the anonymizer cannot be made.                         *)
FailEarly ==
  /\ pc = "new"
  /\ Goto("done")
  /\ UNCHANGED <<running_, stages, pipes, todo, stopped, at, path>>

(* A stream whose tracker cannot be made gets no pipe.                     *)
Prepare ==
  /\ pc = "new"
  /\ pipes' \in SUBSET Streams
  /\ stages' = TRUE
  /\ running_' = TRUE
  /\ Goto("pools")
  /\ UNCHANGED <<todo, stopped, at, path>>

StartPool(p) ==
  /\ pc = "pools"
  /\ at[<<"pool", p>>] = "none"
  /\ Turn(<<"pool", p>>, "loop")
  /\ UNCHANGED <<lifecycle, path>>

(* A worker cannot be made, maybe after others were.                       *)
FailPool ==
  /\ pc = "pools"
  /\ \E p \in Pools : at[<<"pool", p>>] = "none"
  /\ Goto("stop")
  /\ UNCHANGED <<running_, stages, pipes, todo, stopped, at, path>>

StartAnonymizers ==
  /\ pc = "pools"
  /\ \A th \in PoolThreads : at[th] # "none"
  /\ at' = [th \in Threads |-> IF th \in Anonymizers THEN "loop" ELSE at[th]]
  /\ todo' = pipes
  /\ Goto("streams")
  /\ UNCHANGED <<running_, stages, pipes, stopped, path>>

StartStream(s) ==
  /\ pc = "streams" /\ s \in todo
  /\ todo' = todo \ {s}
  /\ at' = [at EXCEPT ![<<"ingest", s>>] = "opening",
                      ![<<"coordinator", s>>] = "loop", ![<<"encoder", s>>] = "loop"]
  /\ UNCHANGED <<running_, stages, pipes, pc, stopped, path>>

(* Its source cannot be made.                                              *)
SkipStream(s) ==
  /\ pc = "streams" /\ s \in todo
  /\ todo' = todo \ {s}
  /\ UNCHANGED <<running_, stages, pipes, pc, stopped, at, path>>

(* The streams that were started. *)
Started == {s \in Streams : at[<<"coordinator", s>>] # "none"}

SomeStarted == Started # {}

EndStart ==
  /\ pc = "streams" /\ todo = {}
  /\ SomeStarted
  /\ \/ Turn(Metrics, "loop")
     \/ UNCHANGED at                     \* metrics.enabled is false
  /\ Goto("running")
  /\ UNCHANGED <<running_, stages, pipes, todo, stopped, path>>

StartNothing ==
  /\ pc = "streams" /\ todo = {}
  /\ ~SomeStarted
  /\ Goto("stop")
  /\ UNCHANGED <<running_, stages, pipes, todo, stopped, at, path>>

-----------------------------------------------------------------------------
(* stop(). *)

Stop ==
  /\ pc = "running"
  /\ Goto("stop")
  /\ UNCHANGED <<running_, stages, pipes, todo, stopped, at, path>>

(* Wrong: the threads are not told. *)
Signalled_Not == running_

Signalled == FALSE

Signal ==
  /\ pc = "stop"
  /\ running_' = Signalled
  /\ Goto("queues")
  /\ UNCHANGED <<stages, pipes, todo, stopped, at, path>>

(* One queue after the other in the code.  A consumer that finds its queue *)
(* stopped before the others comes back with nothing, see EndBody.         *)
StopQueues ==
  /\ pc = "queues"
  /\ stopped' = TRUE
  /\ Goto("join")
  /\ UNCHANGED <<running_, stages, pipes, todo, at, path>>

(* Wrong: the metrics thread is forgotten. *)
Joined_NoMetrics == Threads \ {Metrics}

(* The threads that stop() joins. *)
Joined == Threads

Join ==
  /\ pc = "join"
  /\ \A th \in Joined : at[th] \in {"none", "failed", "ended"}
  /\ Goto("clear")
  /\ UNCHANGED <<running_, stages, pipes, todo, stopped, at, path>>

Clear ==
  /\ pc = "clear"
  /\ stages' = FALSE
  /\ pipes' = {}
  /\ encoder_in' = [s \in Streams |-> <<>>]
  /\ Goto("done")
  /\ UNCHANGED <<running_, todo, stopped, at, anonymizer_in, hand, result,
                 committed, anonymized, last>>

-----------------------------------------------------------------------------
(* Threads. *)

(* A source starts, or the ingest thread ends at once. *)
OpenSource(s) ==
  /\ at[<<"ingest", s>>] = "opening"
  /\ \E outcome \in {"loop", "failed"} : Turn(<<"ingest", s>>, outcome)
  /\ UNCHANGED <<lifecycle, path>>

(* A thread finds running_ false at the head of its loop. *)
Leave(th) ==
  /\ at[th] = "loop" /\ ~running_
  /\ Turn(th, "ended")
  /\ UNCHANGED <<lifecycle, path>>

(* The threads whose loop bodies are modelled. *)
Bodies == Anonymizers \cup {"coordinator", "encoder"} \X Streams

Enter(th) ==
  /\ th \in Bodies
  /\ at[th] = "loop" /\ running_
  /\ Turn(th, "body")
  /\ UNCHANGED <<lifecycle, path>>

(* pop_for comes back with nothing; a pass of the coordinator ends.        *)
EndBody(th) ==
  /\ th \in Bodies
  /\ at[th] = "body"
  /\ Turn(th, "loop")
  /\ UNCHANGED <<lifecycle, path>>

(* Wrong: a popped item stays. *)
Rest_Kept(q) == q

(* A queue whose first item was popped. *)
Rest(q) == Tail(q)

(* push_drop_oldest, see BoundedQueue. *)
Pushed(q, x, capacity) ==
  IF stopped THEN q ELSE Append(IF Len(q) >= capacity THEN Tail(q) ELSE q, x)

(* commit_frame_, from drain_ready. *)
Commit(s) ==
  /\ at[<<"coordinator", s>>] = "body"
  /\ at[<<"ingest", s>>] \notin {"opening", "failed"}
  /\ committed[s] < MaxFrames
  /\ anonymizer_in' =
       Pushed(anonymizer_in, [stream |-> s, id |-> committed[s]], AnonymizerCapacity)
  /\ committed' = [committed EXCEPT ![s] = @ + 1]
  /\ UNCHANGED <<lifecycle, at, encoder_in, hand, result, anonymized, last>>

TakeFrame(w) ==
  /\ at[<<"anonymizer", w>>] = "body"
  /\ ~stopped /\ anonymizer_in # <<>>
  /\ hand' = [hand EXCEPT ![w] = Head(anonymizer_in)]
  /\ anonymizer_in' = Rest(anonymizer_in)
  /\ Turn(<<"anonymizer", w>>, "work")
  /\ UNCHANGED <<lifecycle, encoder_in, result, committed, anonymized, last>>

Anonymize(w) ==
  /\ at[<<"anonymizer", w>>] = "work"
  /\ anonymized' = anonymized \cup {hand[w]}
  /\ Turn(<<"anonymizer", w>>, "ready")
  /\ UNCHANGED <<lifecycle, anonymizer_in, encoder_in, hand, result, committed, last>>

(* Where an anonymizer may send its result. *)
Sendable == {"ready"}

SendResult(w) ==
  /\ at[<<"anonymizer", w>>] \in Sendable
  /\ LET s == hand[w].stream
     IN encoder_in' = [encoder_in EXCEPT ![s] =
                         Pushed(@, [frame |-> hand[w], by |-> w], EncoderCapacity)]
  /\ hand' = [hand EXCEPT ![w] = None]
  /\ Turn(<<"anonymizer", w>>, "loop")
  /\ UNCHANGED <<lifecycle, anonymizer_in, result, committed, anonymized, last>>

TakeResult(s) ==
  /\ at[<<"encoder", s>>] = "body"
  /\ ~stopped /\ encoder_in[s] # <<>>
  /\ result' = [result EXCEPT ![s] = Head(encoder_in[s])]
  /\ encoder_in' = [encoder_in EXCEPT ![s] = Rest(@)]
  /\ Turn(<<"encoder", s>>, "work")
  /\ UNCHANGED <<lifecycle, anonymizer_in, hand, committed, anonymized, last>>

(* The frame and its metadata go to the publisher. *)
Publish(s) ==
  /\ at[<<"encoder", s>>] = "work"
  /\ last' = [last EXCEPT ![s][result[s].by] = result[s].frame.id]
  /\ result' = [result EXCEPT ![s] = None]
  /\ Turn(<<"encoder", s>>, "loop")
  /\ UNCHANGED <<lifecycle, anonymizer_in, encoder_in, hand, committed, anonymized>>

Main ==
  \/ FailEarly \/ Prepare \/ FailPool \/ StartAnonymizers \/ EndStart \/ StartNothing
  \/ Signal \/ StopQueues \/ Join \/ Clear
  \/ \E p \in Pools : StartPool(p)
  \/ \E s \in Streams : StartStream(s) \/ SkipStream(s)

Worker(w) == TakeFrame(w) \/ Anonymize(w) \/ SendResult(w)
Stream(s) == OpenSource(s) \/ Commit(s) \/ TakeResult(s) \/ Publish(s)
Loop(th) == Leave(th) \/ Enter(th) \/ EndBody(th)

Next ==
  \/ Main \/ Stop
  \/ \E w \in Workers : Worker(w)
  \/ \E s \in Streams : Stream(s)
  \/ \E th \in Threads : Loop(th)

Spec == Init /\ [][Next]_vars

FairSpec ==
  /\ Spec
  /\ WF_vars(Main)
  /\ \A w \in Workers : WF_vars(Worker(w))
  /\ \A s \in Streams : WF_vars(OpenSource(s)) /\ WF_vars(Publish(s))
  /\ \A th \in Threads : WF_vars(Loop(th))

-----------------------------------------------------------------------------
(* When stop() frees stages, queues and metrics, also after a start that   *)
(* failed halfway, no thread is left that would use them.                  *)
NothingOutlivesStop ==
  ~stages => \A th \in Threads : at[th] \in {"none", "failed", "ended"}

(* start() succeeds only if a stream was started: whatever failed on the   *)
(* way, a pipeline without any is stopped again.                           *)
RunningHasStreams == pc = "running" => Started # {}

(* Whatever an encoder has in its queue or in hand was anonymized.         *)
OnlyAnonymizedLeaves ==
  \A s \in Streams :
    /\ \A i \in 1 .. Len(encoder_in[s]) : encoder_in[s][i].frame \in anonymized
    /\ result[s] # None => result[s].frame \in anonymized

(* A frame's image is written by one anonymizer, and by none once it can   *)
(* be encoded: nobody takes a frame that somebody else has or will get.    *)
OneHolder ==
  \A w \in Workers : hand[w] # None =>
    /\ \A v \in Workers \ {w} : hand[v] # hand[w]
    /\ \A i \in 1 .. Len(anonymizer_in) : anonymizer_in[i] # hand[w]
    /\ \A s \in Streams :
         /\ \A i \in 1 .. Len(encoder_in[s]) : encoder_in[s][i].frame # hand[w]
         /\ result[s] # None => result[s].frame # hand[w]

(* Frames of one stream are published out of order only if they were       *)
(* anonymized by different threads: those of one thread, hence all of them *)
(* if there is but one, leave in the order in which they were committed.   *)
WorkerInOrder ==
  [][\A s \in Streams, w \in Workers : last'[s][w] >= last[s][w]]_vars

(* From the anonymizers to the encoders: one thread at a time writes an     *)
(* image, it is encoded after that, and in order as far as it can be.      *)
FramesLeaveRight == [](OnlyAnonymizedLeaves /\ OneHolder) /\ WorkerInOrder

(* start() and stop() return, whichever threads run. *)
CallsEnd == (pc \notin {"running", "done"}) ~> (pc \in {"running", "done"})
=============================================================================
