----------------------------- MODULE TelemetryHub -----------------------------
(***************************************************************************)
(* TelemetryHub: pipeline threads publish events, and every WatchTelemetry *)
(* call has a queue of its own that drops its oldest event when it is full *)
(* and holds no two metrics snapshots.  A publisher copies the list of     *)
(* subscribers and then visits them one by one, without the hub's lock;    *)
(* subscribers come and go in the meantime.  An event is <<p, n>>, the     *)
(* n-th of publisher p.  Frame analytics of one stream, metrics, and the   *)
(* statuses of RunnerManager have one publisher each.                      *)
(***************************************************************************)
EXTENDS Integers, Sequences, FiniteSets, FiniteSetsExt

CONSTANTS
  Publishers,     \* the publishing threads
  MetricsThread,  \* the one that publishes metrics snapshots
  Capacity,       \* subscriber_capacity_, which is 512
  MaxSteps,       \* bound: events and subscriptions, taken together
  MaxSubscribers  \* bound: the number of subscriptions

ASSUME MetricsThreadAssumption == MetricsThread \in Publishers
ASSUME CapacityAssumption == Capacity \in Nat \ {0}
ASSUME MaxStepsAssumption == MaxSteps \in Nat
ASSUME MaxSubscribersAssumption == MaxSubscribers \in Nat

VARIABLES
  \* the hub
  subscribers, next_subscriber_id, latest_metrics,
  \* each Subscriber
  queue, closed,
  \* each publisher, in publish_
  published,   \* the number of its event
  pc,
  targets,     \* the subscribers still to be visited
  \* each watcher, in WatchTelemetry
  reader,
  \* history
  last,        \* the last event of each publisher a watcher got, 0 before
  overflowed   \* the subscribers that lost an event for want of capacity

hub == <<subscribers, next_subscriber_id, latest_metrics>>
publisher == <<published, pc, targets>>
watcher == <<reader, last>>
vars == <<hub, queue, closed, publisher, watcher, overflowed>>

Ids == 1 .. MaxSubscribers

(* Fewer watchers see more events within one bound. *)
WithinBound ==
  MapThenSumSet(LAMBDA p : published[p], Publishers) + next_subscriber_id <= MaxSteps

TypeOK ==
  /\ subscribers \in SUBSET Ids
  /\ next_subscriber_id \in 1 .. MaxSubscribers + 1
  /\ latest_metrics \in Nat
  /\ queue \in [Ids -> Seq(Publishers \X Nat)]
  /\ closed \in [Ids -> BOOLEAN]
  /\ published \in [Publishers -> Nat]
  /\ pc \in [Publishers -> {"idle", "collect", "push", "notify"}]
  /\ targets \in [Publishers -> SUBSET Ids]
  /\ \A p \in Publishers : pc[p] \in {"push", "notify"} => targets[p] # {}
  /\ reader \in [Ids -> {"none", "busy", "waiting", "notified", "timed_out", "closing", "gone"}]
  /\ last \in [Ids -> [Publishers -> Nat]]
  /\ overflowed \in SUBSET Ids

Init ==
  /\ subscribers = {} /\ next_subscriber_id = 1 /\ latest_metrics = 0
  /\ queue = [s \in Ids |-> <<>>] /\ closed = [s \in Ids |-> FALSE]
  /\ published = [p \in Publishers |-> 0]
  /\ pc = [p \in Publishers |-> "idle"]
  /\ targets = [p \in Publishers |-> {}]
  /\ reader = [s \in Ids |-> "none"]
  /\ last = [s \in Ids |-> [p \in Publishers |-> 0]]
  /\ overflowed = {}

Goto(p, label) == pc' = [pc EXCEPT ![p] = label]
Turn(s, label) == reader' = [reader EXCEPT ![s] = label]

-----------------------------------------------------------------------------
(* The latest snapshot once p publishes. *)
LatestMetrics(p) == IF p = MetricsThread THEN published[p] + 1 ELSE latest_metrics

(* publish_frame_analytics, publish_status, and publish_metrics_snapshot,  *)
(* which keeps the snapshot for GetMetricsSnapshot.                        *)
Publish(p) ==
  /\ pc[p] = "idle"
  /\ WithinBound
  /\ published' = [published EXCEPT ![p] = @ + 1]
  /\ latest_metrics' = LatestMetrics(p)
  /\ Goto(p, "collect")
  /\ UNCHANGED <<subscribers, next_subscriber_id, queue, closed, targets, watcher, overflowed>>

AfterCollect == IF subscribers = {} THEN "idle" ELSE "push"

(* publish_: the subscribers of this moment. *)
Collect(p) ==
  /\ pc[p] = "collect"
  /\ targets' = [targets EXCEPT ![p] = subscribers]
  /\ Goto(p, AfterCollect)
  /\ UNCHANGED <<hub, queue, closed, published, watcher, overflowed>>

(* Wrong variants of some definitions, which the properties are to tell    *)
(* from the right ones, have the definition's name and what is wrong with  *)
(* it.  Here a snapshot replaces everything.                               *)
Coalesced_Everything(p, s) == IF p = MetricsThread THEN <<>> ELSE queue[s]

(* Where a metrics snapshot is in the queue of s. *)
MetricsAt(s) == {i \in DOMAIN queue[s] : queue[s][i][1] = MetricsThread}

Without(q, i) == SubSeq(q, 1, i - 1) \o SubSeq(q, i + 1, Len(q))

(* The queue of s without the snapshot a new one replaces.  (A queue never *)
(* holds two, so remove_if of the code erases one at most.)                *)
Coalesced(p, s) ==
  IF p = MetricsThread /\ MetricsAt(s) # {}
  THEN Without(queue[s], CHOOSE i \in MetricsAt(s) : TRUE) ELSE queue[s]

(* What leaves room for one more event.  (A queue never exceeds the        *)
(* capacity, so the loop of the code drops one event at most.)             *)
Fitting(q) == IF Len(q) >= Capacity THEN Tail(q) ELSE q

(* Publisher p queues its event for s. *)
Enqueue(p, s) ==
  /\ queue' = [queue EXCEPT ![s] = Append(Fitting(Coalesced(p, s)), <<p, published[p]>>)]
  /\ overflowed' = IF Len(Coalesced(p, s)) >= Capacity THEN overflowed \cup {s} ELSE overflowed

(* The subscriber to be visited next: the map is ordered by id. *)
Nearest(p) == CHOOSE s \in targets[p] : \A t \in targets[p] : s <= t
Visited(p) == targets' = [targets EXCEPT ![p] = @ \ {Nearest(p)}]
AfterVisit(p) == IF targets[p] = {Nearest(p)} THEN "idle" ELSE "push"

(* Wrong: events go to closed subscribers too. *)
Listening_Always(s) == TRUE

Listening(s) == ~closed[s]

(* publish_ at the next subscriber: under its lock, the event is queued.   *)
Push(p) ==
  /\ pc[p] = "push"
  /\ Listening(Nearest(p))
  /\ Enqueue(p, Nearest(p))
  /\ Goto(p, "notify")
  /\ UNCHANGED <<hub, closed, published, targets, watcher>>

(* A subscriber that closed in the meantime is left alone. *)
PassClosed(p) ==
  /\ pc[p] = "push"
  /\ ~Listening(Nearest(p))
  /\ Visited(p)
  /\ Goto(p, AfterVisit(p))
  /\ UNCHANGED <<hub, queue, closed, published, watcher, overflowed>>

(* cv.notify_one, after the lock is released. *)
Notify(p) ==
  LET s == Nearest(p) IN
  /\ pc[p] = "notify"
  /\ reader' = IF reader[s] = "waiting" THEN [reader EXCEPT ![s] = "notified"] ELSE reader
  /\ Visited(p)
  /\ Goto(p, AfterVisit(p))
  /\ UNCHANGED <<hub, queue, closed, published, last, overflowed>>

Visit(p) == Collect(p) \/ Push(p) \/ PassClosed(p) \/ Notify(p)

-----------------------------------------------------------------------------
(* WatchTelemetry starts.  Ids are never used twice. *)
Subscribe(s) ==
  /\ s = next_subscriber_id
  /\ WithinBound
  /\ next_subscriber_id' = s + 1
  /\ subscribers' = subscribers \cup {s}
  /\ Turn(s, "busy")
  /\ UNCHANGED <<latest_metrics, queue, closed, publisher, last, overflowed>>

Front(s) == Head(queue[s])

(* Its watcher takes the oldest event. *)
PopFront(s) ==
  /\ queue[s] # <<>>
  /\ last' = [last EXCEPT ![s][Front(s)[1]] = Front(s)[2]]
  /\ queue' = [queue EXCEPT ![s] = Tail(@)]
  /\ Turn(s, "busy")
  /\ UNCHANGED <<hub, closed, publisher, overflowed>>

(* Wrong: waits without looking at the queue. *)
Nothing_Unchecked(s) == TRUE

(* The predicate of the wait. *)
Nothing(s) == queue[s] = <<>>

(* pop_for takes an event, or waits. *)
PopFor(s) ==
  /\ reader[s] = "busy"
  /\ \/ PopFront(s)
     \/ /\ Nothing(s)
        /\ Turn(s, "waiting")
        /\ UNCHANGED <<hub, queue, closed, publisher, last, overflowed>>

(* wait_for comes back without a notification. *)
WakeUp(s) ==
  /\ reader[s] = "waiting"
  /\ \E why \in {"timed_out", "notified"} : Turn(s, why)
  /\ UNCHANGED <<hub, queue, closed, publisher, last, overflowed>>

Recheck(s) ==
  /\ reader[s] \in {"notified", "timed_out"}
  /\ \/ PopFront(s)
     \/ /\ Nothing(s)
        /\ Turn(s, IF reader[s] = "notified" THEN "waiting" ELSE "busy")
        /\ UNCHANGED <<hub, queue, closed, publisher, last, overflowed>>

(* The call was cancelled or its client is gone: unsubscribe_ takes the    *)
(* subscriber out of the hub, and closes it under its own lock.            *)
Unsubscribe(s) ==
  /\ reader[s] = "busy"
  /\ subscribers' = subscribers \ {s}
  /\ Turn(s, "closing")
  /\ UNCHANGED <<next_subscriber_id, latest_metrics, queue, closed, publisher, last, overflowed>>

Close(s) ==
  /\ reader[s] = "closing"
  /\ closed' = [closed EXCEPT ![s] = TRUE]
  /\ Turn(s, "gone")
  /\ UNCHANGED <<hub, queue, publisher, last, overflowed>>

Next ==
  \/ \E p \in Publishers : Publish(p) \/ Visit(p)
  \/ \E s \in Ids :
       \/ Subscribe(s) \/ PopFor(s) \/ WakeUp(s) \/ Recheck(s)
       \/ Unsubscribe(s) \/ Close(s)

Spec == Init /\ [][Next]_vars

(* Publishers and woken watchers go on; a wait is not assumed to time out. *)
FairSpec ==
  /\ Spec
  /\ \A p \in Publishers : WF_vars(Visit(p))
  /\ \A s \in Ids : WF_vars(Recheck(s))

-----------------------------------------------------------------------------
(* A queue is within its capacity, with one metrics snapshot at most:      *)
(* a slow watcher costs a bounded amount of memory.                        *)
QueuesAreBounded ==
  \A s \in Ids :
    /\ Len(queue[s]) <= Capacity
    /\ \A i, j \in MetricsAt(s) : i = j

(* A watcher sees the events of a publisher in the order they were         *)
(* published, each once, with capacity and coalescing leaving some out.    *)
EventsInOrder ==
  \A s \in Ids : \A i \in DOMAIN queue[s] :
    LET e == queue[s][i] IN
    /\ e[2] > last[s][e[1]]
    /\ \A j \in DOMAIN queue[s] : j < i /\ queue[s][j][1] = e[1] => e[2] > queue[s][j][2]

(* The numbers of the events of p that s got or finds before place i. *)
Before(s, p, i) ==
  {n \in {last[s][p]} : n # 0} \cup
  {queue[s][j][2] : j \in {k \in DOMAIN queue[s] : k < i /\ queue[s][k][1] = p}}

(* Only a full queue loses events other than replaced metrics: between two *)
(* events a watcher sees none is missing, although lists of subscribers    *)
(* are copied and used later.                                              *)
OnlyFullQueuesLose ==
  \A s \in Ids \ overflowed : \A i \in DOMAIN queue[s] :
    LET e == queue[s][i]
    IN e[1] # MetricsThread /\ Before(s, e[1], i) # {} => e[2] - 1 \in Before(s, e[1], i)

(* GetMetricsSnapshot is never behind what a watcher has got or will get.  *)
LatestIsLatest ==
  \A s \in Ids :
    /\ last[s][MetricsThread] <= latest_metrics
    /\ \A i \in DOMAIN queue[s] :
         queue[s][i][1] = MetricsThread => queue[s][i][2] <= latest_metrics

(* What a watcher gets through its queue: events in order, the newest if   *)
(* all, within the bound (publish_, pop_for).                              *)
WatchersSeeTheNewest ==
  TypeOK /\ QueuesAreBounded /\ EventsInOrder /\ OnlyFullQueuesLose /\ LatestIsLatest

(* Nothing is queued for a subscriber after it was closed, not even by a   *)
(* publisher that copied the list before.                                  *)
ClosedIsFinal == [][\A s \in Ids : closed[s] => queue'[s] = queue[s]]_vars

(* A watcher that waits is woken for an event, without its timeout.        *)
WatchersWake ==
  \A s \in Ids : (reader[s] = "waiting" /\ queue[s] # <<>>) ~> (reader[s] # "waiting")
=============================================================================
