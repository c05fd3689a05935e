----------------------------- MODULE BoundedQueue -----------------------------
(***************************************************************************)
(* BoundedQueue<T>: the queue between any two stages of the pipeline and   *)
(* the buffer of every telemetry subscriber.  Everything under the lock is *)
(* one step; the notification a push, a stop or a reset sends follows it   *)
(* in a step of its own, because the code releases the lock first.  Items  *)
(* are numbered in the order they are accepted.  A call that leaves the    *)
(* queue as it is and sends no notification is a stuttering step: a push   *)
(* to a stopped queue or to one without capacity, which is counted nowhere, *)
(* a try_pop of an empty queue, a pop_for of a stopped one.                *)
(***************************************************************************)
EXTENDS Integers, Sequences, FiniteSets

CONSTANTS
  Threads,    \* the threads that use the queue
  Cap,        \* cap_
  MaxPushes   \* bound: the number of items accepted

ASSUME ThreadsAssumption == IsFiniteSet(Threads)
ASSUME CapAssumption == Cap \in Nat
ASSUME MaxPushesAssumption == MaxPushes \in Nat

VARIABLES
  q,              \* q_
  stopped,        \* stopped_
  dropped_count,  \* dropped_count_
  pc,             \* where each thread is in a call of the queue
  accepted,       \* the items accepted so far
  popped,         \* the number of items handed out since the last reset
  base,           \* what `accepted` was at the last reset
  taken           \* the number of the item handed out last

vars == <<q, stopped, dropped_count, pc, accepted, popped, base, taken>>

(* "waiting" is inside cv_.wait_for; "notified" and "timed_out" have left  *)
(* the wait and are to take the lock again.                                *)
At == {"idle", "waiting", "notified", "timed_out", "notify_one", "notify_all"}

Waiting == {t \in Threads : pc[t] = "waiting"}

TypeOK ==
  /\ q \in Seq(Nat)
  /\ stopped \in BOOLEAN
  /\ dropped_count \in Nat
  /\ pc \in [Threads -> At]
  /\ accepted \in 0 .. MaxPushes /\ popped \in Nat /\ base \in Nat /\ taken \in Nat

Init ==
  /\ q = <<>>
  /\ stopped = FALSE
  /\ dropped_count = 0
  /\ pc = [t \in Threads |-> "idle"]
  /\ accepted = 0 /\ popped = 0 /\ base = 0 /\ taken = 0

(* Wrong variants of some definitions, which the properties are to tell    *)
(* from the right ones, have the definition's name and what is wrong with  *)
(* it.                                                                     *)
Full_OffByOne == Len(q) > Cap

Full == Len(q) >= Cap

(* What one more push drops. *)
Dropped == IF Full THEN 1 ELSE 0

(* Wrong: notifies only when the queue was empty. *)
PushNotifies_IfEmpty == IF q = <<>> THEN "notify_one" ELSE "idle"

PushNotifies == "notify_one"

PushDropOldest(t) ==
  /\ pc[t] = "idle"
  /\ accepted < MaxPushes
  /\ ~stopped /\ Cap # 0
  /\ q' = Append(IF Full THEN Tail(q) ELSE q, accepted + 1)
  /\ dropped_count' = dropped_count + Dropped
  /\ accepted' = accepted + 1
  /\ pc' = [pc EXCEPT ![t] = PushNotifies]
  /\ UNCHANGED <<stopped, popped, base, taken>>

(* cv_.notify_one: some waiting thread leaves its wait; with none waiting  *)
(* the notification is lost.                                               *)
NotifyOne(t) ==
  /\ pc[t] = "notify_one"
  /\ \/ Waiting = {} /\ pc' = [pc EXCEPT ![t] = "idle"]
     \/ \E w \in Waiting : pc' = [pc EXCEPT ![t] = "idle", ![w] = "notified"]
  /\ UNCHANGED <<q, stopped, dropped_count, accepted, popped, base, taken>>

NotifyAll(t) ==
  /\ pc[t] = "notify_all"
  /\ pc' = [u \in Threads |-> IF u = t THEN "idle"
                              ELSE IF pc[u] = "waiting" THEN "notified" ELSE pc[u]]
  /\ UNCHANGED <<q, stopped, dropped_count, accepted, popped, base, taken>>

(* Thread t takes the front item. *)
PopFront(t) ==
  /\ q # <<>>
  /\ taken' = Head(q)
  /\ q' = Tail(q)
  /\ popped' = popped + 1
  /\ pc' = [pc EXCEPT ![t] = "idle"]
  /\ UNCHANGED <<stopped, dropped_count, accepted, base>>

(* try_pop, which also empties a stopped queue. *)
TryPop(t) == pc[t] = "idle" /\ PopFront(t)

(* pop_for: take an item, or wait for one. *)
PopFor(t) ==
  /\ pc[t] = "idle"
  /\ ~stopped
  /\ \/ PopFront(t)
     \/ /\ q = <<>>
        /\ pc' = [pc EXCEPT ![t] = "waiting"]
        /\ UNCHANGED <<q, stopped, dropped_count, accepted, popped, base, taken>>

(* wait_for comes back without a notification: it timed out, or the        *)
(* wake-up was spurious.                                                   *)
WakeUp(t) ==
  /\ pc[t] = "waiting"
  /\ \E why \in {"timed_out", "notified"} : pc' = [pc EXCEPT ![t] = why]
  /\ UNCHANGED <<q, stopped, dropped_count, accepted, popped, base, taken>>

(* The predicate of wait_for with the lock held again, and the rest of     *)
(* pop_for: a thread that finds nothing gives up if its time is over and   *)
(* waits again if it is not.                                               *)
Recheck(t) ==
  /\ pc[t] \in {"notified", "timed_out"}
  /\ \/ ~stopped /\ PopFront(t)
     \/ /\ stopped \/ q = <<>>
        /\ pc' = [pc EXCEPT ![t] = IF ~stopped /\ pc[t] = "notified" THEN "waiting" ELSE "idle"]
        /\ UNCHANGED <<q, stopped, dropped_count, accepted, popped, base, taken>>

(* Wrong: one waiting thread is notified. *)
StopNotifies_One == "notify_one"

StopNotifies == "notify_all"

Stop(t) ==
  /\ pc[t] = "idle"
  /\ stopped' = TRUE
  /\ pc' = [pc EXCEPT ![t] = StopNotifies]
  /\ UNCHANGED <<q, dropped_count, accepted, popped, base, taken>>

Reset(t) ==
  /\ pc[t] = "idle"
  /\ q' = <<>>
  /\ dropped_count' = 0
  /\ stopped' = FALSE
  /\ pc' = [pc EXCEPT ![t] = "notify_all"]
  /\ popped' = 0
  /\ base' = accepted
  /\ UNCHANGED <<accepted, taken>>

Next ==
  \E t \in Threads :
    \/ PushDropOldest(t) \/ NotifyOne(t) \/ NotifyAll(t)
    \/ TryPop(t) \/ PopFor(t) \/ WakeUp(t) \/ Recheck(t)
    \/ Stop(t) \/ Reset(t)

Spec == Init /\ [][Next]_vars

(* Threads finish the calls they are in; a wait is not assumed to time out. *)
FairSpec ==
  /\ Spec
  /\ \A t \in Threads : WF_vars(NotifyOne(t)) /\ WF_vars(NotifyAll(t)) /\ WF_vars(Recheck(t))

-----------------------------------------------------------------------------
(* The queue holds the newest items accepted and no others, oldest first,  *)
(* all of them younger than what it handed out: consumers see items in the *)
(* order they were pushed, whatever was dropped in between.                *)
HoldsTheNewest ==
  /\ Len(q) <= Cap
  /\ \A i \in DOMAIN q : q[i] = accepted - Len(q) + i
  /\ taken <= accepted - Len(q)

(* Since the last reset every accepted item was handed out, is counted as  *)
(* dropped, or is in the queue: what a QueueSnapshot reports adds up.      *)
DropsAreCounted == accepted - base = popped + dropped_count + Len(q)

(* What the queue holds and what it says about the rest agree, whichever   *)
(* calls interleave (push_drop_oldest, try_pop, pop_for, reset).           *)
QueueIsExact == HoldsTheNewest /\ DropsAreCounted

(* A thread in pop_for is woken for every item it could take: while one    *)
(* waits for a queue in use, there are at least as many threads about to   *)
(* notify or about to look at the queue as there are items in it.          *)
Wakers == {t \in Threads : pc[t] \in {"notify_one", "notified", "timed_out"}}
NoLostWakeup == ~stopped /\ Waiting # {} => Len(q) <= Cardinality(Wakers)

(* No thread goes on waiting for a stopped queue: whoever waits is about   *)
(* to be notified.  The stages' threads are joined right after stop().     *)
StopReachesWaiters ==
  stopped /\ Waiting # {} => \E t \in Threads : pc[t] = "notify_all"

(* A thread that waits when the queue is stopped comes back, even if its   *)
(* own timeout never fires.                                                *)
StopWakes == \A t \in Threads : (stopped /\ pc[t] = "waiting") ~> (pc[t] # "waiting")
=============================================================================
