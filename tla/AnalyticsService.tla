---------------------------- MODULE AnalyticsService ----------------------------
(***************************************************************************)
(* The Controller's AnalyticsService: calls that create, update and delete *)
(* rules, and the one worker that analyses the frames the Runner streams.  *)
(* The service is one asyncio loop: between two awaits a coroutine runs    *)
(* alone, and every await lets the others run.  The database is used in    *)
(* threads, and the rules the engine applies are a copy of the stored ones *)
(* that each call changes after its write.                                 *)
(*                                                                         *)
(* A rule is its version (0: there is none).  The geometry of rules, the   *)
(* engine and the text of snapshots are left out: a snapshot is the number *)
(* of the frame it was made from.                                          *)
(***************************************************************************)
EXTENDS Naturals, Sequences, SequencesExt

CONSTANTS
  Rules,       \* the ids uuid4 gives
  Callers,     \* requests under way at a time
  MaxVersion,  \* bound: writes of a rule
  Capacity,    \* ingest_queue_capacity
  MaxFrames    \* bound: frames received

ASSUME CapacityAssumption == Capacity \in Nat \ {0}

VARIABLES
  kept,        \* the rules of the database
  engine,      \* AnalyticsEngine.rules
  version,     \* the last version written
  call,        \* the request of each caller
  raced,       \* history: rules two requests were changing at a time
  received,    \* the last frame handed to handle_event
  pending,     \* AnalyticsService.queue
  worker,      \* where _worker is, and the frame it has
  latest,      \* the frame of _latest_snapshots
  lost,        \* the frames ingest_dropped counts, or a restart lost
  dropOldest   \* ingest_drop_policy is "drop_oldest"

ruleVars == << kept, engine, version, raced >>
frameVars == << received, pending, worker >>
analyticsVars == << ruleVars, call, frameVars, latest, lost, dropOldest >>

NoCall == [op |-> "none", rule |-> CHOOSE r \in Rules : TRUE, at |-> "idle",
           read |-> 0, write |-> 0, seen |-> 0]

AnalyticsInit ==
  /\ kept = [r \in Rules |-> 0]
  /\ engine = kept
  /\ version = 0
  /\ call = [c \in Callers |-> NoCall]
  /\ raced = {}
  /\ received = 0
  /\ pending = << >>
  /\ worker = [at |-> "waiting", frame |-> 0]
  /\ latest = 0
  /\ lost = {}
  /\ dropOldest \in BOOLEAN

(***************************************************************************)
(* Requests.                                                               *)
(***************************************************************************)
Changing(r) == {c \in Callers : call[c].rule = r /\ call[c].at \in {"read", "write", "apply"}}

Goes(c, at) == call' = [call EXCEPT ![c].at = at]
Ends(c) == call' = [call EXCEPT ![c] = NoCall]

\* A request arrives: a new rule goes straight to its insertion.
CallRule(c, op, r) ==
  /\ call[c].at = "idle"
  /\ op = "create" => r \notin raced /\ kept[r] = 0 /\ engine[r] = 0 /\ Changing(r) = {}
  /\ op = "delete" \/ version < MaxVersion
  /\ version' = IF op = "delete" THEN version ELSE version + 1
  /\ call' = [call EXCEPT ![c] = [op |-> op, rule |-> r,
       at |-> IF op = "create" THEN "write" ELSE "read",
       read |-> 0, write |-> version', seen |-> 0]]
  /\ raced' = IF Changing(r) = {} THEN raced ELSE raced \cup {r}
  /\ UNCHANGED << kept, engine, frameVars, latest, lost, dropOldest >>

\* The thread of get_rule: an update of no rule answers None.
ReadRule(c) ==
  LET now == kept[call[c].rule] IN
  /\ call[c].at = "read"
  /\ IF call[c].op = "update" /\ now = 0 THEN Ends(c)
     ELSE call' = [call EXCEPT ![c].read = now, ![c].at = "write"]
  /\ UNCHANGED << ruleVars, frameVars, latest, lost, dropOldest >>

\* The thread of create_rule, update_rule or delete_rule of the store.  An
\* UPDATE of a row that has gone changes nothing, and is not noticed.
Written(k) ==
  CASE k.op = "delete" -> 0
    [] k.op = "update" /\ kept[k.rule] = 0 -> 0
    [] OTHER -> k.write

WriteRule(c) ==
  LET k == call[c] IN
  /\ k.at = "write"
  /\ kept' = [kept EXCEPT ![k.rule] = Written(k)]
  /\ IF k.op = "delete" /\ kept[k.rule] = 0 THEN Ends(c) ELSE Goes(c, "apply")
  /\ UNCHANGED << engine, version, raced, frameVars, latest, lost, dropOldest >>

\* What the engine gets, and a mutant that gives it the rule as it was read.
Applied_Read(k) == IF k.op = "delete" THEN 0 ELSE k.read
Applied(k) == IF k.op = "delete" THEN 0 ELSE k.write

\* The loop again: the engine's copy, and _refresh_rule_snapshots as far as
\* its await; a delete that had read no rule refreshes nothing.
ApplyRule(c) ==
  LET k == call[c] IN
  /\ k.at = "apply"
  /\ engine' = [engine EXCEPT ![k.rule] = Applied(k)]
  /\ IF latest = 0 \/ (k.op = "delete" /\ k.read = 0) THEN Ends(c)
     ELSE call' = [call EXCEPT ![c].at = "refresh", ![c].seen = latest]
  /\ UNCHANGED << kept, version, raced, frameVars, latest, lost, dropOldest >>

\* The snapshot read before the await is stored after it.
Refresh(c) ==
  /\ call[c].at = "refresh"
  /\ latest' = call[c].seen
  /\ Ends(c)
  /\ UNCHANGED << ruleVars, frameVars, lost, dropOldest >>

(***************************************************************************)
(* Frames.                                                                 *)
(***************************************************************************)
\* handle_event: a full queue loses its oldest frame, or the new one.
Enqueued(q, f) ==
  CASE Len(q) < Capacity -> Append(q, f)
    [] Len(q) = Capacity /\ dropOldest -> Append(Tail(q), f)
    [] OTHER -> q

HandleEvent ==
  /\ received < MaxFrames
  /\ received' = received + 1
  /\ pending' = Enqueued(pending, received')
  /\ lost' = lost \cup ((Range(pending) \cup {received'}) \ Range(pending'))
  /\ UNCHANGED << ruleVars, call, worker, latest, dropOldest >>

WorkerGoes(at, f) == worker' = [at |-> at, frame |-> f]

\* An exception leaves the loop of _worker: the task is not started again.
TakeFrame ==
  /\ worker.at = "waiting" /\ pending # << >>
  /\ pending' = Tail(pending)
  /\ \E at \in {"persisting", "dead"} : WorkerGoes(at, Head(pending))
  /\ UNCHANGED << ruleVars, call, received, latest, lost, dropOldest >>

Persisted ==
  /\ worker.at = "persisting"
  /\ \/ latest' = worker.frame /\ WorkerGoes("broadcasting", worker.frame)
     \/ latest' = latest /\ WorkerGoes("dead", worker.frame)
  /\ UNCHANGED << ruleVars, call, received, pending, lost, dropOldest >>

\* Sockets that raise a RuntimeError are dropped; any other error is not caught.
Broadcast ==
  /\ worker.at = "broadcasting"
  /\ \E at \in {"waiting", "dead"} : WorkerGoes(at, worker.frame)
  /\ UNCHANGED << ruleVars, call, received, pending, latest, lost, dropOldest >>

Work == TakeFrame \/ Persisted \/ Broadcast

\* The Controller is killed and started again: start() reads the database.
Restart ==
  /\ engine' = kept
  /\ call' = [c \in Callers |-> NoCall]
  /\ raced' = {}
  /\ lost' = lost \cup Range(pending)
                  \cup {f \in {worker.frame} : worker.at = "persisting"}
  /\ pending' = << >>
  /\ worker' = [at |-> "waiting", frame |-> 0]
  /\ latest' = 0
  /\ UNCHANGED << kept, version, received, dropOldest >>

AnalyticsNext ==
  \/ \E c \in Callers :
       \/ \E r \in Rules : \E op \in {"create", "update", "delete"} : CallRule(c, op, r)
       \/ ReadRule(c) \/ WriteRule(c) \/ ApplyRule(c) \/ Refresh(c)
  \/ HandleEvent \/ Work \/ Restart

AnalyticsSpec == AnalyticsInit /\ [][AnalyticsNext]_analyticsVars

-----------------------------------------------------------------------------
\* A queued frame reaches the snapshot, unless a full queue or a restart
\* loses it or an exception has ended the worker (lines 69-81, 196-218).
FramesAreAnalyzed ==
  \A f \in 1..MaxFrames :
    Contains(pending, f) ~> latest >= f \/ f \in lost \/ worker.at = "dead"

\* The engine applies the stored rule once no request changes it, unless two
\* requests changed it at a time: then an update may put a deleted rule back
\* into the engine, or the older of two updates win (lines 105-129).
EngineFollows(r) == Changing(r) = {} => r \in raced \/ engine[r] = kept[r]

\* What the service promises of its rules and of its frames.
AnalyticsSettles == [](\A r \in Rules : EngineFollows(r)) /\ FramesAreAnalyzed
===============================================================================
