---------------------------- MODULE WakeupProofs -----------------------------
(***************************************************************************)
(* Proofs about the two places where threads of the Runner sleep on a      *)
(* condition variable: BoundedQueue, for every capacity, every finite set  *)
(* of threads and any number of items, and the streams of                  *)
(* RunnerHTTPServer, for every set of viewers and any number of frames.    *)
(***************************************************************************)
EXTENDS BoundedQueue, RunnerHTTPServer, FiniteSetTheorems, TLAPS

-----------------------------------------------------------------------------
\* BoundedQueue

\* The queue of Init and of reset().
LEMMA EmptyQueue == <<>> \in Seq(Nat) /\ Len(<<>>) = 0 /\ DOMAIN <<>> = {}
  OBVIOUS

(* The queue is a sequence of item numbers and a thread is in one place. *)
THEOREM TypeCorrect == Spec => []TypeOK
<1> USE CapAssumption, MaxPushesAssumption
<1>1. Init => TypeOK
  <2>1. Init => q \in Seq(Nat)
    BY EmptyQueue DEF Init
  <2>2. Init => pc \in [Threads -> At]
    BY DEF Init, At
  <2>3. Init => stopped \in BOOLEAN
    BY DEF Init
  <2>4. Init => /\ dropped_count \in Nat /\ accepted \in 0 .. MaxPushes
                /\ popped \in Nat /\ base \in Nat /\ taken \in Nat
    BY DEF Init
  <2>5. QED
    BY <2>1, <2>2, <2>3, <2>4 DEF TypeOK
<1>2. TypeOK /\ [Next]_vars => TypeOK'
  <2> SUFFICES ASSUME TypeOK, [Next]_vars PROVE TypeOK'
    OBVIOUS
  <2> USE DEF TypeOK, At
  <2>1. ASSUME NEW t \in Threads, PushDropOldest(t) PROVE TypeOK'
    <3>1. Full => Tail(q) \in Seq(Nat)
      BY <2>1 DEF PushDropOldest, PushNotifies, Full
    <3>2. QED
      BY <2>1, <3>1 DEF PushDropOldest, Dropped, PushNotifies
  <2>2. ASSUME NEW t \in Threads, NotifyOne(t) PROVE TypeOK'
    BY <2>2 DEF NotifyOne
  <2>3. ASSUME NEW t \in Threads, NotifyAll(t) PROVE TypeOK'
    BY <2>3 DEF NotifyAll
  <2>4. ASSUME NEW t \in Threads, PopFront(t) PROVE TypeOK'
    BY <2>4 DEF PopFront
  <2>5. ASSUME NEW t \in Threads, PopFor(t) PROVE TypeOK'
    BY <2>4, <2>5 DEF PopFor
  <2>6. ASSUME NEW t \in Threads, WakeUp(t) PROVE TypeOK'
    BY <2>6 DEF WakeUp
  <2>7. ASSUME NEW t \in Threads, Recheck(t) PROVE TypeOK'
    BY <2>4, <2>7 DEF Recheck
  <2>8. ASSUME NEW t \in Threads, Stop(t) PROVE TypeOK'
    BY <2>8 DEF Stop, StopNotifies
  <2>9. ASSUME NEW t \in Threads, Reset(t) PROVE TypeOK'
    <3>1. q' \in Seq(Nat)
      BY <2>9, EmptyQueue DEF Reset
    <3>2. pc' \in [Threads -> At]
      BY <2>9 DEF Reset
    <3>3. accepted \in Nat
      OBVIOUS
    <3>4. QED
      BY <2>9, <3>1, <3>2, <3>3 DEF Reset
  <2>10. CASE UNCHANGED vars
    BY <2>10 DEF vars
  <2>11. QED
    BY <2>1, <2>2, <2>3, <2>4, <2>5, <2>6, <2>7, <2>8, <2>9, <2>10 DEF Next, TryPop
<1>3. QED
  BY <1>1, <1>2, PTL DEF Spec
-----------------------------------------------------------------------------
(* What a step does to the items: one is accepted, one is handed out, all  *)
(* are cleared, or nothing.                                                *)
Items == <<q, dropped_count, accepted, popped, base, taken>>

Accept ==
  /\ Cap # 0
  /\ q' = Append(IF Full THEN Tail(q) ELSE q, accepted + 1)
  /\ dropped_count' = dropped_count + Dropped
  /\ accepted' = accepted + 1
  /\ UNCHANGED <<popped, base, taken>>

HandOut ==
  /\ q # <<>>
  /\ taken' = Head(q) /\ q' = Tail(q) /\ popped' = popped + 1
  /\ UNCHANGED <<dropped_count, accepted, base>>

Clear ==
  /\ q' = <<>> /\ dropped_count' = 0 /\ popped' = 0 /\ base' = accepted
  /\ UNCHANGED <<accepted, taken>>

\* Every step accepts an item, hands one out, clears the queue or leaves it.
LEMMA ItemSteps == [Next]_vars => Accept \/ HandOut \/ Clear \/ UNCHANGED Items
<1> SUFFICES ASSUME [Next]_vars PROVE Accept \/ HandOut \/ Clear \/ UNCHANGED Items
  OBVIOUS
<1>1. ASSUME NEW t \in Threads, PushDropOldest(t) PROVE Accept
  BY <1>1 DEF PushDropOldest, PushNotifies, Accept
<1>2. ASSUME NEW t \in Threads, PopFront(t) PROVE HandOut
  BY <1>2 DEF PopFront, HandOut
<1>3. ASSUME NEW t \in Threads, Reset(t) PROVE Clear
  BY <1>3 DEF Reset, Clear
<1>4. ASSUME NEW t \in Threads, NotifyOne(t) \/ NotifyAll(t) \/ WakeUp(t) \/ Stop(t)
      PROVE  UNCHANGED Items
  BY <1>4 DEF NotifyOne, NotifyAll, WakeUp, Stop, StopNotifies, Items
<1>5. ASSUME NEW t \in Threads, TryPop(t) \/ PopFor(t) \/ Recheck(t)
      PROVE  HandOut \/ UNCHANGED Items
  BY <1>2, <1>5 DEF TryPop, PopFor, Recheck, Items
<1>6. CASE UNCHANGED vars
  BY <1>6 DEF vars, Items
<1>7. QED
  BY <1>1, <1>3, <1>4, <1>5, <1>6 DEF Next

(* Items leave in the order they came, the newest are kept, and every one  *)
(* is accounted for, whatever the threads do.                              *)
ItemInv == HoldsTheNewest /\ DropsAreCounted

\* What push_back does to a sequence.
LEMMA AppendedItem ==
  \A s \in Seq(Nat), e \in Nat :
    /\ Len(Append(s, e)) = Len(s) + 1 /\ DOMAIN Append(s, e) = 1 .. Len(s) + 1
    /\ Append(s, e)[Len(s) + 1] = e
    /\ \A i \in 1 .. Len(s) : Append(s, e)[i] = s[i]
  OBVIOUS

\* The accounts of the items are inductive.
LEMMA ItemInvStep ==
  ASSUME TypeOK, ItemInv, [Next]_vars
  PROVE  ItemInv'
<1> USE CapAssumption
<1>0. /\ q \in Seq(Nat) /\ Len(q) \in Nat /\ DOMAIN q = 1 .. Len(q)
      /\ accepted \in Nat /\ popped \in Nat /\ base \in Nat /\ taken \in Nat
      /\ dropped_count \in Nat
  BY MaxPushesAssumption DEF TypeOK
<1>00. /\ \A i \in 1 .. Len(q) : q[i] = accepted - Len(q) + i
       /\ Len(q) <= Cap /\ taken <= accepted - Len(q)
  BY <1>0 DEF ItemInv, HoldsTheNewest
<1>1. CASE Accept
  <2> DEFINE kept == IF Full THEN Tail(q) ELSE q
  <2>1. /\ kept \in Seq(Nat) /\ Len(kept) \in Nat /\ DOMAIN kept = 1 .. Len(kept)
        /\ Len(kept) + 1 <= Cap /\ Len(kept) <= Len(q)
    BY <1>0, <1>1 DEF Accept, Full, Dropped, ItemInv, HoldsTheNewest
  <2>2. \A i \in 1 .. Len(kept) : kept[i] = accepted - Len(kept) + i
    <3>1. CASE Full
      <4>1. q # <<>>
        BY <1>0, <1>1, <3>1 DEF Accept, Full, Dropped
      <4>2. \A i \in 1 .. Len(Tail(q)) : Tail(q)[i] = q[i + 1] /\ i + 1 \in 1 .. Len(q)
        BY <1>0, <4>1
      <4>3. QED
        BY <1>0, <1>00, <3>1, <4>1, <4>2
    <3>2. CASE ~Full
      BY <1>00, <3>2
    <3>3. QED
      BY <3>1, <3>2
  <2>3. q' = Append(kept, accepted + 1) /\ accepted' = accepted + 1
    BY <1>1 DEF Accept
  <2> HIDE DEF kept
  <2>4. /\ Len(q') = Len(kept) + 1 /\ DOMAIN q' = 1 .. Len(kept) + 1
        /\ q'[Len(kept) + 1] = accepted + 1
        /\ \A i \in 1 .. Len(kept) : q'[i] = kept[i]
    <3>1. accepted + 1 \in Nat
      BY <1>0
    <3>2. QED
      BY <2>1, <2>3, <3>1, AppendedItem
  <2>5. accepted' - Len(q') = accepted - Len(kept)
    <3>1. accepted' = accepted + 1 /\ Len(q') = Len(kept) + 1
      BY <2>3, <2>4
    <3>2. accepted \in Nat /\ Len(kept) \in Nat
      BY <1>0, <2>1
    <3>3. QED
      BY <3>1, <3>2
  <2>6. \A i \in DOMAIN q' : q'[i] = accepted' - Len(q') + i
    <3> TAKE i \in DOMAIN q'
    <3>1. i \in 1 .. Len(kept) \/ i = Len(kept) + 1
      BY <2>1, <2>4
    <3>2. accepted' - Len(q') = accepted - Len(kept)
      BY <2>5
    <3>3. CASE i \in 1 .. Len(kept)
      BY <2>2, <2>4, <3>2, <3>3
    <3>4. CASE i = Len(kept) + 1
      <4>1. q'[i] = accepted + 1 /\ accepted \in Nat /\ Len(kept) \in Nat
        BY <1>0, <2>1, <2>4, <3>4
      <4>2. QED
        BY <3>2, <3>4, <4>1
    <3>5. QED
      BY <3>1, <3>3, <3>4
  <2>7. taken' <= accepted' - Len(q')
    <3>1. taken' = taken /\ taken <= accepted - Len(q) /\ Len(kept) <= Len(q)
      BY <1>00, <1>1, <2>1 DEF Accept
    <3>2. accepted \in Nat /\ Len(kept) \in Nat /\ taken \in Nat /\ Len(q) \in Nat
      BY <1>0, <2>1
    <3>3. QED
      BY <2>5, <3>1, <3>2
  <2>8. DropsAreCounted'
    <3>1. /\ accepted \in Nat /\ Len(kept) \in Nat /\ Len(q) \in Nat /\ popped \in Nat
          /\ base \in Nat /\ dropped_count \in Nat
          /\ accepted - base = popped + dropped_count + Len(q)
      BY <1>0, <2>1 DEF ItemInv, DropsAreCounted
    <3>2. accepted' = accepted + 1 /\ base' = base /\ popped' = popped
      BY <1>1 DEF Accept
    <3>3. Len(q') = Len(kept) + 1
      BY <2>4
    <3>4. CASE Full
      <4>1. dropped_count' = dropped_count + 1
        BY <1>0, <1>1, <3>4 DEF Accept, Dropped
      <4>2. Len(kept) = Len(q) - 1
        BY <1>0, <1>1, <3>4 DEF kept, Full, Dropped, Accept
      <4>3. QED
        BY <3>1, <3>2, <3>3, <4>1, <4>2 DEF DropsAreCounted
    <3>5. CASE ~Full
      <4>1. dropped_count' = dropped_count
        BY <1>0, <1>1, <3>5 DEF Accept, Dropped
      <4>2. Len(kept) = Len(q)
        BY <3>5 DEF kept
      <4>3. QED
        BY <3>1, <3>2, <3>3, <4>1, <4>2 DEF DropsAreCounted
    <3>6. QED
      BY <3>4, <3>5
  <2>9. QED
    BY <2>1, <2>4, <2>6, <2>7, <2>8 DEF ItemInv, HoldsTheNewest
<1>2. CASE HandOut
  <2>1. /\ q' = Tail(q) /\ Len(q') = Len(q) - 1 /\ DOMAIN q' = 1 .. Len(q')
        /\ \A i \in 1 .. Len(q') : q'[i] = q[i + 1] /\ i + 1 \in 1 .. Len(q)
        /\ taken' = q[1] /\ 1 \in 1 .. Len(q)
    BY <1>0, <1>2 DEF HandOut
  <2>2. Len(q') <= Cap /\ \A i \in DOMAIN q' : q'[i] = accepted' - Len(q') + i
    BY <1>0, <1>00, <1>2, <2>1 DEF HandOut
  <2>3. taken' <= accepted' - Len(q') /\ DropsAreCounted'
    BY <1>0, <1>2, <2>1 DEF HandOut, ItemInv, HoldsTheNewest, DropsAreCounted
  <2>4. QED
    BY <2>2, <2>3 DEF ItemInv, HoldsTheNewest
<1>3. CASE Clear
  BY <1>0, <1>3, EmptyQueue DEF Clear, ItemInv, HoldsTheNewest, DropsAreCounted
<1>4. CASE UNCHANGED Items
  BY <1>4 DEF Items, ItemInv, HoldsTheNewest, DropsAreCounted
<1>5. QED
  BY <1>1, <1>2, <1>3, <1>4, ItemSteps

(* The queue holds the newest items, in order. *)
THEOREM ItemsInOrder == Spec => []HoldsTheNewest
<1>1. Init => ItemInv
  BY CapAssumption DEF Init, ItemInv, HoldsTheNewest, DropsAreCounted
<1>2. TypeOK /\ ItemInv /\ [Next]_vars => ItemInv'
  BY ItemInvStep
<1>3. ItemInv => HoldsTheNewest
  BY DEF ItemInv
<1>4. QED
  BY <1>1, <1>2, <1>3, TypeCorrect, PTL DEF Spec

(* What was accepted was handed out, dropped or is queued. *)
THEOREM ItemsAddUp == Spec => []DropsAreCounted
<1>1. Init => ItemInv
  BY CapAssumption DEF Init, ItemInv, HoldsTheNewest, DropsAreCounted
<1>2. TypeOK /\ ItemInv /\ [Next]_vars => ItemInv'
  BY ItemInvStep
<1>3. ItemInv => DropsAreCounted
  BY DEF ItemInv
<1>4. QED
  BY <1>1, <1>2, <1>3, TypeCorrect, PTL DEF Spec
-----------------------------------------------------------------------------
\* The threads that owe a wakeup can be counted.
LEMMA WakersFinite ==
  IsFiniteSet(Wakers) /\ Cardinality(Wakers) \in Nat
<1>1. IsFiniteSet(Wakers)
  BY ThreadsAssumption, FS_Subset DEF Wakers
<1>2. QED
  BY <1>1, FS_CardinalityType

(* One more thread to look at the queue, or one fewer. *)
LEMMA WakersCount ==
  ASSUME NEW t
  PROVE  /\ t \notin Wakers => Cardinality(Wakers \cup {t}) = Cardinality(Wakers) + 1
         /\ t \in Wakers => Cardinality(Wakers \ {t}) = Cardinality(Wakers) - 1
  BY WakersFinite, FS_AddElement, FS_RemoveElement

(* An empty queue owes nobody a wake-up. *)
LEMMA EmptyOwesNothing == q' = <<>> => NoLostWakeup'
<1> SUFFICES ASSUME q' = <<>> PROVE NoLostWakeup'
  OBVIOUS
<1>1. Wakers' \in SUBSET Threads
  BY DEF Wakers
<1>2. IsFiniteSet(Wakers')
  BY <1>1, ThreadsAssumption, FS_Subset
<1>3. Cardinality(Wakers') \in Nat
  BY <1>2, FS_CardinalityType
<1>4. Len(q') = 0
  BY EmptyQueue
<1>5. QED
  BY <1>3, <1>4 DEF NoLostWakeup

\* The count of owed wakeups keeps up with the queue and the sleepers.
LEMMA NoLostWakeupStep ==
  ASSUME TypeOK, NoLostWakeup, [Next]_vars
  PROVE  NoLostWakeup'
<1>0. /\ q \in Seq(Nat) /\ Len(q) \in Nat /\ pc \in [Threads -> At]
      /\ Cardinality(Wakers) \in Nat
  BY WakersFinite DEF TypeOK
<1>1. ASSUME NEW t \in Threads, PushDropOldest(t) PROVE NoLostWakeup'
  <2>1. t \notin Wakers /\ Wakers' = Wakers \cup {t} /\ Waiting' = Waiting
    BY <1>0, <1>1 DEF PushDropOldest, PushNotifies, Wakers, Waiting, At
  <2>2. Len(q') <= Len(q) + 1
    BY <1>0, <1>1, CapAssumption DEF PushDropOldest, PushNotifies, Full
  <2>3. Len(q') \in Nat
    BY <1>0, <1>1, CapAssumption DEF PushDropOldest, PushNotifies, Full
  <2>4. UNCHANGED stopped
    BY <1>1 DEF PushDropOldest, PushNotifies
  <2>5. QED
    BY <1>0, <2>1, <2>2, <2>3, <2>4, WakersCount DEF NoLostWakeup
<1>2. ASSUME NEW t \in Threads, NotifyOne(t) PROVE NoLostWakeup'
  <2>1. UNCHANGED <<q, stopped>>
    BY <1>2 DEF NotifyOne
  <2>2. CASE Waiting = {} /\ pc' = [pc EXCEPT ![t] = "idle"]
    <3>1. Waiting' = {}
      BY <1>0, <2>2 DEF Waiting
    <3>2. QED
      BY <3>1 DEF NoLostWakeup
  <2>3. ASSUME NEW w \in Waiting, pc' = [pc EXCEPT ![t] = "idle", ![w] = "notified"]
        PROVE  NoLostWakeup'
    <3>1. t \in Wakers /\ w \notin Wakers /\ w # t
      BY <1>2 DEF NotifyOne, Wakers, Waiting
    <3>2. Wakers' = (Wakers \cup {w}) \ {t}
      BY <1>0, <2>3, <3>1 DEF Wakers, Waiting
    <3>3. IsFiniteSet(Wakers \cup {w}) /\ Cardinality(Wakers \cup {w}) = Cardinality(Wakers) + 1
      BY <3>1, WakersFinite, FS_AddElement
    <3>4. Cardinality((Wakers \cup {w}) \ {t}) = Cardinality(Wakers \cup {w}) - 1
      BY <3>1, <3>3, FS_RemoveElement
    <3>5. Cardinality(Wakers') = Cardinality(Wakers)
      BY <1>0, <3>2, <3>3, <3>4
    <3>6. QED
      BY <2>1, <3>5 DEF NoLostWakeup
  <2>4. QED
    BY <1>2, <2>2, <2>3 DEF NotifyOne
<1>3. ASSUME NEW t \in Threads, NotifyAll(t) PROVE NoLostWakeup'
  <2>1. Waiting' = {}
    BY <1>0, <1>3 DEF NotifyAll, Waiting
  <2>2. QED
    BY <2>1 DEF NoLostWakeup
<1>4. ASSUME NEW t \in Threads, PopFront(t), pc[t] = "idle" PROVE NoLostWakeup'
  <2>1. Wakers' = Wakers /\ Waiting' = Waiting /\ UNCHANGED stopped
    BY <1>0, <1>4 DEF PopFront, Wakers, Waiting
  <2>2. Len(q') = Len(q) - 1
    BY <1>0, <1>4 DEF PopFront
  <2>3. QED
    BY <1>0, <2>1, <2>2 DEF NoLostWakeup
<1>5. ASSUME NEW t \in Threads, PopFor(t) PROVE NoLostWakeup'
  BY <1>4, <1>5, EmptyOwesNothing DEF PopFor
<1>6. ASSUME NEW t \in Threads, WakeUp(t) PROVE NoLostWakeup'
  <2>1. t \in Waiting /\ t \notin Wakers /\ Wakers' = Wakers \cup {t}
    BY <1>0, <1>6 DEF WakeUp, Wakers, Waiting
  <2>2. UNCHANGED <<q, stopped>>
    BY <1>6 DEF WakeUp
  <2>3. QED
    BY <1>0, <2>1, <2>2, WakersCount DEF NoLostWakeup
<1>7. ASSUME NEW t \in Threads, Recheck(t) PROVE NoLostWakeup'
  <2>1. CASE ~stopped /\ PopFront(t)
    <3>1. t \in Wakers /\ Wakers' = Wakers \ {t} /\ Waiting' = Waiting /\ UNCHANGED stopped
      BY <1>0, <1>7, <2>1 DEF Recheck, PopFront, Wakers, Waiting
    <3>2. Len(q') = Len(q) - 1
      BY <1>0, <2>1 DEF PopFront
    <3>3. QED
      BY <1>0, <3>1, <3>2, WakersCount DEF NoLostWakeup
  <2>2. CASE stopped /\ UNCHANGED stopped
    BY <2>2 DEF NoLostWakeup
  <2>3. CASE q = <<>> /\ UNCHANGED q
    BY <2>3, EmptyOwesNothing
  <2>4. QED
    BY <1>7, <2>1, <2>2, <2>3 DEF Recheck
<1>8. ASSUME NEW t \in Threads, Stop(t) PROVE NoLostWakeup'
  BY <1>8 DEF Stop, StopNotifies, NoLostWakeup
<1>9. ASSUME NEW t \in Threads, Reset(t) PROVE NoLostWakeup'
  BY <1>9, EmptyOwesNothing DEF Reset
<1>10. CASE UNCHANGED vars
  BY <1>10 DEF vars, NoLostWakeup, Wakers, Waiting
<1>11. QED
  BY <1>1, <1>2, <1>3, <1>4, <1>5, <1>6, <1>7, <1>8, <1>9, <1>10 DEF Next, TryPop

(* No wake-up is lost, whatever the number of threads and the order in     *)
(* which pushes, pops, time-outs and spurious wake-ups happen.             *)
THEOREM WakeupsArrive == Spec => []NoLostWakeup
<1>1. Init => NoLostWakeup
  BY DEF Init, NoLostWakeup, Waiting
<1>2. TypeOK /\ NoLostWakeup /\ [Next]_vars => NoLostWakeup'
  BY NoLostWakeupStep
<1>3. QED
  BY <1>1, <1>2, TypeCorrect, PTL DEF Spec

(* Nobody is left waiting for a stopped queue without a notification on    *)
(* its way.                                                                *)
THEOREM StopIsSeen == Spec => []StopReachesWaiters
<1> USE DEF StopReachesWaiters, Waiting
<1>1. Init => StopReachesWaiters
  BY DEF Init
<1>2. TypeOK /\ StopReachesWaiters /\ [Next]_vars => StopReachesWaiters'
  <2> SUFFICES ASSUME TypeOK, StopReachesWaiters, [Next]_vars PROVE StopReachesWaiters'
    OBVIOUS
  <2>0. pc \in [Threads -> At]
    BY DEF TypeOK
  <2>1. ASSUME NEW t \in Threads, PushDropOldest(t) PROVE StopReachesWaiters'
    BY <2>0, <2>1 DEF PushDropOldest, PushNotifies
  <2>2. ASSUME NEW t \in Threads, NotifyOne(t) PROVE StopReachesWaiters'
    BY <2>0, <2>2 DEF NotifyOne
  <2>3. ASSUME NEW t \in Threads, NotifyAll(t) PROVE StopReachesWaiters'
    BY <2>0, <2>3 DEF NotifyAll
  <2>4. ASSUME NEW t \in Threads, PopFront(t), pc[t] # "notify_all" PROVE StopReachesWaiters'
    BY <2>0, <2>4 DEF PopFront
  <2>5. ASSUME NEW t \in Threads, PopFor(t) PROVE StopReachesWaiters'
    BY <2>0, <2>4, <2>5 DEF PopFor
  <2>6. ASSUME NEW t \in Threads, WakeUp(t) PROVE StopReachesWaiters'
    BY <2>0, <2>6 DEF WakeUp
  <2>7. ASSUME NEW t \in Threads, Recheck(t) PROVE StopReachesWaiters'
    BY <2>0, <2>4, <2>7 DEF Recheck
  <2>8. ASSUME NEW t \in Threads, Stop(t) \/ Reset(t) PROVE StopReachesWaiters'
    BY <2>0, <2>8 DEF Stop, StopNotifies, Reset
  <2>9. CASE UNCHANGED vars
    BY <2>9 DEF vars
  <2>10. QED
    BY <2>1, <2>2, <2>3, <2>4, <2>5, <2>6, <2>7, <2>8, <2>9 DEF Next, TryPop
<1>3. QED
  BY <1>1, <1>2, TypeCorrect, PTL DEF Spec

(* What the queue holds, hands out and counts as dropped is what it accepted. *)
THEOREM QueueHolds == Spec => []QueueIsExact
BY ItemsInOrder, ItemsAddUp, PTL DEF QueueIsExact

-----------------------------------------------------------------------------
\* RunnerHTTPServer

\* Where a handler can be.
Places == Idle \cup {"looping", "testing", "unready", "asleep", "woken", "taking", "writing"}

\* The types the proof needs.
ViewTypeOK ==
  /\ running \in BOOLEAN /\ seq \in Nat
  /\ pusher \in {"pushing", "notifying", "gone"}
  /\ stopper \in {"none", "notifying", "joining", "stopped"}
  /\ handler \in [Viewers -> Places] /\ lastSent \in [Viewers -> Nat]

\* The mutex is with the viewer that tests, or takes what it has tested for.
LockIsHeld ==
  \A v \in Viewers : handler[v] \in {"testing", "unready", "taking"} => mtx = v

\* stop() changes running_ once, and then notifies once.
StopInOrder == running <=> stopper = "none"

\* A viewer that has found nothing to send has been sent the newest frame; a
\* push waits until it sleeps, stop() does not.
UnreadyIsUpToDate ==
  \A v \in Viewers : handler[v] = "unready" =>
    /\ lastSent[v] = seq
    /\ running \/ stopper = "notifying" \/ v \in missed

\* What SleepsInTime says, of all viewers.
AllSleepInTime == \A v \in Viewers : SleepsInTime(v)

\* The inductive invariant of the server.
ViewInv == ViewTypeOK /\ LockIsHeld /\ StopInOrder /\ UnreadyIsUpToDate /\ AllSleepInTime

\* A notification wakes whoever sleeps, and moves nobody else.
LEMMA WokenWakes ==
  ASSUME ViewTypeOK
  PROVE  /\ Woken(handler) \in [Viewers -> Places]
         /\ \A v \in Viewers : Woken(handler)[v] # "asleep"
         /\ \A v \in Viewers : Woken(handler)[v] # "woken" => Woken(handler)[v] = handler[v]
BY DEF Woken, ViewTypeOK, Places, Idle

\* A viewer's step that sends nothing.
LEMMA GoKeeps ==
  ASSUME ViewInv, NEW v \in Viewers, NEW from \in Places, NEW to \in Places, NEW lock,
         Go(v, from, to, lock), mtx = lock \/ mtx = "free" \/ mtx = v,
         to \in {"testing", "unready", "taking"} => lock = v,
         to = "unready" => lastSent[v] = seq /\ running,
         to = "asleep" => from = "unready",
         mtx # lock /\ mtx = v => from \in {"testing", "unready", "taking"}
  PROVE  ViewInv'
<1> USE HttpAssumption DEF ViewInv
<1>1. /\ handler' = [handler EXCEPT ![v] = to] /\ handler[v] = from /\ mtx' = lock
      /\ UNCHANGED << running, seq, pusher, lastSent, stopper, missed >>
  BY DEF Go
<1>2. handler' \in [Viewers -> Places] /\ handler'[v] = to
      /\ \A u \in Viewers : u # v => handler'[u] = handler[u]
  BY <1>1 DEF ViewTypeOK
<1>3. ViewTypeOK'
  BY <1>1, <1>2 DEF ViewTypeOK
<1>4. LockIsHeld'
  BY <1>1, <1>2 DEF LockIsHeld
<1>5. StopInOrder'
  BY <1>1 DEF StopInOrder
<1>6. UnreadyIsUpToDate'
  BY <1>1, <1>2 DEF UnreadyIsUpToDate
<1>7. AllSleepInTime'
  BY <1>1, <1>2 DEF AllSleepInTime, SleepsInTime, UnreadyIsUpToDate
<1> QED
  BY <1>3, <1>4, <1>5, <1>6, <1>7

\* A request is refused or starts to stream.
LEMMA RequestKeeps ==
  ASSUME ViewInv, NEW v \in Viewers, Request(v) PROVE ViewInv'
<1>1. \/ Go(v, "none", "looping", mtx)
      \/ Go(v, "none", "refused", mtx)
  BY DEF Request
<1>2. {"none", "looping", "refused"} \subseteq Places
  BY DEF Places, Idle
<1> QED
  BY <1>1, <1>2, GoKeeps

\* A step of a viewer's handler keeps the invariant: it tests, goes to sleep
\* and takes the frame with the mutex.
LEMMA HandleKeeps ==
  ASSUME ViewInv, NEW v \in Viewers, Handle(v) PROVE ViewInv'
<1> USE HttpAssumption DEF ViewInv
<1>1. {"looping", "done", "testing", "taking", "unready", "asleep", "woken", "writing",
       "disconnected"} \subseteq Places
  BY DEF Places, Idle
<1>2. CASE Loop(v)
  <2>1. Go(v, "looping", "done", mtx) \/ (mtx = "free" /\ Go(v, "looping", "testing", v))
    BY <1>2 DEF Loop
  <2> QED
    BY <1>1, <2>1, GoKeeps
<1>3. CASE Test(v)
  <2>1. mtx = v
    BY <1>3 DEF Test, Go, LockIsHeld
  <2>2. CASE MayProceed(v)
    <3>1. Go(v, "testing", "taking", mtx)
      BY <1>3, <2>2 DEF Test
    <3> QED
      BY <1>1, <2>1, <3>1, GoKeeps
  <2>3. CASE ~MayProceed(v)
    <3>1. Go(v, "testing", "unready", mtx) /\ lastSent[v] = seq /\ running
      BY <1>3, <2>3 DEF Test, MayProceed
    <3> QED
      BY <1>1, <2>1, <3>1, GoKeeps
  <2> QED
    BY <2>2, <2>3
<1>4. CASE Sleep(v)
  <2>1. mtx = v /\ Go(v, "unready", "asleep", "free")
    BY <1>4 DEF Sleep, Go, LockIsHeld
  <2> QED
    BY <1>1, <2>1, GoKeeps
<1>5. CASE Wake(v)
  <2>1. Go(v, "woken", "testing", v) /\ mtx = "free"
    BY <1>5 DEF Wake
  <2> QED
    BY <1>1, <2>1, GoKeeps
<1>6. CASE Take(v)
  <2>1. CASE Go(v, "taking", "done", "free")
    <3>1. mtx = v
      BY <2>1 DEF Go, LockIsHeld
    <3> QED
      BY <1>1, <2>1, <3>1, GoKeeps
  <2>2. CASE ~Go(v, "taking", "done", "free")
    <3>1. /\ handler[v] = "taking" /\ handler' = [handler EXCEPT ![v] = "writing"]
          /\ lastSent' = [lastSent EXCEPT ![v] = seq] /\ mtx' = "free"
          /\ UNCHANGED << running, seq, pusher, stopper, missed >>
      BY <1>6, <2>2 DEF Take
    <3>2. mtx = v
      BY <3>1 DEF LockIsHeld
    <3>3. /\ handler' \in [Viewers -> Places] /\ lastSent' \in [Viewers -> Nat]
          /\ handler'[v] = "writing"
          /\ \A u \in Viewers : u # v => handler'[u] = handler[u] /\ lastSent'[u] = lastSent[u]
      BY <1>1, <3>1 DEF ViewTypeOK
    <3>4. ViewTypeOK' /\ StopInOrder'
      BY <3>1, <3>3 DEF ViewTypeOK, StopInOrder
    <3>5. LockIsHeld'
      BY <3>1, <3>2, <3>3 DEF LockIsHeld
    <3>6. UnreadyIsUpToDate' /\ AllSleepInTime'
      BY <3>1, <3>3 DEF UnreadyIsUpToDate, AllSleepInTime, SleepsInTime
    <3> QED
      BY <3>4, <3>5, <3>6
  <2> QED
    BY <2>1, <2>2
<1>7. CASE Write(v)
  <2>1. CASE Go(v, "writing", "disconnected", mtx)
    BY <1>1, <2>1, GoKeeps
  <2>2. CASE ~Go(v, "writing", "disconnected", mtx)
    <3>1. /\ handler[v] = "writing" /\ handler' = [handler EXCEPT ![v] = "looping"]
          /\ UNCHANGED << running, seq, pusher, mtx, lastSent, stopper, missed >>
      BY <1>7, <2>2 DEF Write
    <3>2. /\ handler' \in [Viewers -> Places] /\ handler'[v] = "looping"
          /\ \A u \in Viewers : u # v => handler'[u] = handler[u]
      BY <1>1, <3>1 DEF ViewTypeOK
    <3> QED
      BY <3>1, <3>2 DEF ViewTypeOK, LockIsHeld, StopInOrder, UnreadyIsUpToDate, AllSleepInTime, SleepsInTime
  <2> QED
    BY <2>1, <2>2
<1> QED
  BY <1>2, <1>3, <1>4, <1>5, <1>6, <1>7 DEF Handle

\* The inductive invariant, through every step of the pusher, stop() and viewers.
LEMMA ViewInvHolds == HttpSpec => []ViewInv
<1>1. ASSUME HttpInit PROVE ViewInv
  BY <1>1 DEF HttpInit, ViewInv, ViewTypeOK, Places, Idle, LockIsHeld, StopInOrder,
              UnreadyIsUpToDate, AllSleepInTime, SleepsInTime
<1>2. ViewInv /\ [HttpNext]_httpVars => ViewInv'
  <2> SUFFICES ASSUME ViewInv, [HttpNext]_httpVars PROVE ViewInv'
    OBVIOUS
  <2> USE HttpAssumption DEF ViewInv
  <2>1. CASE RegisterStream
    BY <2>1 DEF RegisterStream, ViewTypeOK, LockIsHeld, StopInOrder, UnreadyIsUpToDate,
                AllSleepInTime, SleepsInTime
  <2>2. CASE PushJpeg
    <3>1. \A v \in Viewers : handler[v] # "unready"
      BY <2>2 DEF PushJpeg, LockIsHeld
    <3> QED
      BY <2>2, <3>1 DEF PushJpeg, ViewTypeOK, LockIsHeld, StopInOrder, UnreadyIsUpToDate,
                        AllSleepInTime, SleepsInTime
  <2>3. CASE PushNotify
    <3>1. handler' = Woken(handler) /\ pusher' = "pushing"
          /\ UNCHANGED << running, seq, mtx, lastSent, stopper, missed >>
      BY <2>3 DEF PushNotify, PushWakes
    <3> QED
      BY <3>1, WokenWakes DEF ViewTypeOK, LockIsHeld, StopInOrder, UnreadyIsUpToDate,
                              AllSleepInTime, SleepsInTime
  <2>4. CASE PipelineEnds
    BY <2>4 DEF PipelineEnds, ViewTypeOK, LockIsHeld, StopInOrder, UnreadyIsUpToDate,
                AllSleepInTime, SleepsInTime
  <2>5. CASE StopCall
    BY <2>5 DEF StopCall, ViewTypeOK, LockIsHeld, StopInOrder, UnreadyIsUpToDate,
                AllSleepInTime, SleepsInTime
  <2>6. CASE StopNotify
    <3>1. handler' = Woken(handler) /\ stopper' = "joining" /\ stopper = "notifying"
          /\ missed' = {v \in Viewers : handler[v] = "unready"}
          /\ UNCHANGED << running, seq, mtx, lastSent, pusher >>
      BY <2>6 DEF StopNotify
    <3> QED
      BY <3>1, WokenWakes DEF ViewTypeOK, LockIsHeld, StopInOrder, UnreadyIsUpToDate,
                              AllSleepInTime, SleepsInTime
  <2>7. CASE Join
    BY <2>7 DEF Join, ViewTypeOK, LockIsHeld, StopInOrder, UnreadyIsUpToDate, AllSleepInTime, SleepsInTime
  <2>8. ASSUME NEW v \in Viewers, Request(v) \/ Handle(v) PROVE ViewInv'
    BY <2>8, RequestKeeps, HandleKeeps
  <2>9. CASE UNCHANGED httpVars
    BY <2>9 DEF httpVars, ViewTypeOK, LockIsHeld, StopInOrder, UnreadyIsUpToDate,
                AllSleepInTime, SleepsInTime
  <2> QED
    BY <2>1, <2>2, <2>3, <2>4, <2>5, <2>6, <2>7, <2>8, <2>9 DEF HttpNext
<1>3. QED
  BY <1>1, <1>2, PTL DEF HttpSpec

(* No viewer sleeps through a frame: whoever sleeps has been sent the      *)
(* newest one, or is about to be notified (push_jpeg); and whoever sleeps  *)
(* through the end of the server was on its way to sleep when stop()       *)
(* notified without the mutex.                                             *)
THEOREM SleepersWakeInTime == HttpSpec => [](\A v \in Viewers : SleepsInTime(v))
<1>1. ViewInv => \A v \in Viewers : SleepsInTime(v)
  BY DEF ViewInv, AllSleepInTime
<1> QED
  BY <1>1, ViewInvHolds, PTL
=============================================================================
