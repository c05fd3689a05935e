-------------------------- MODULE TelemetryHubProofs --------------------------
(***************************************************************************)
(* Proofs about TelemetryHub for every number of publishers and            *)
(* subscribers, every queue bound and any number of events.                *)
(***************************************************************************)
EXTENDS TelemetryHub, SequenceTheorems, NaturalsInduction, WellFoundedInduction,
        TLAPS

(* Publisher p has not given its event to subscriber s yet, but may.       *)
Owes(p, s) ==
  \/ pc[p] = "collect"
  \/ pc[p] = "push" /\ s \in targets[p]
  \/ pc[p] = "notify" /\ s \in targets[p] \ {Nearest(p)}

(* s has, or had as its last, event n of p. *)
Got(s, p, n) ==
  \/ last[s][p] = n
  \/ \E i \in DOMAIN queue[s] : queue[s][i] = <<p, n>>

(* Between two events a publisher has nobody left to visit. *)
NobodyLeft == \A p \in Publishers : pc[p] \in {"idle", "collect"} => targets[p] = {}

(* Nobody got an event that is not published, or that is still owed. *)
Numbered ==
  \A s \in Ids, p \in Publishers, n \in Nat :
    Got(s, p, n) => n <= published[p] /\ (Owes(p, s) => n < published[p])

(* Who got anything of p has its newest event, or the one before while     *)
(* the newest is owed, as long as its queue did not overflow and it may    *)
(* still get more.                                                         *)
UpToDate ==
  \A s \in Ids \ overflowed, p \in Publishers \ {MetricsThread} :
    s \in subscribers \cup targets[p] /\ (\E n \in Nat \ {0} : Got(s, p, n))
      => Got(s, p, IF Owes(p, s) THEN published[p] - 1 ELSE published[p])

SnapshotIsNewest == latest_metrics = published[MetricsThread]

(* Ids that were not given yet are unused, and one that is closed is gone. *)
IdsAreFresh ==
  \A s \in Ids :
    /\ s >= next_subscriber_id =>
         /\ reader[s] = "none" /\ queue[s] = <<>> /\ s \notin subscribers
         /\ \A p \in Publishers : s \notin targets[p] /\ last[s][p] = 0
    /\ s \in subscribers => reader[s] \notin {"closing", "gone"}
    /\ closed[s] => reader[s] = "gone"

HubInv ==
  /\ TypeOK /\ QueuesAreBounded /\ EventsInOrder /\ OnlyFullQueuesLose
  /\ NobodyLeft /\ Numbered /\ UpToDate /\ SnapshotIsNewest /\ IdsAreFresh

Events == Publishers \X Nat
-----------------------------------------------------------------------------
(* A set of numbers that is not empty has a least one.                     *)
LEMMA LeastExists ==
  ASSUME NEW S \in SUBSET Nat, S # {}
  PROVE  \E m \in S : \A x \in S : m <= x
<1>1. PICK m \in S : \A y \in S : <<y, m>> \notin OpToRel(<, Nat)
  BY NatLessThanWellFounded, WFMin
<1>2. ASSUME NEW x \in S PROVE m <= x
  <2>1. <<x, m>> \notin OpToRel(<, Nat)
    BY <1>1
  <2>2. ~(x < m)
    BY <2>1 DEF OpToRel
  <2> QED
    BY <2>2
<1> QED
  BY <1>2

(* The subscriber to be visited next is one of those left. *)
LEMMA NearestIsTarget ==
  ASSUME TypeOK, NEW p \in Publishers, targets[p] # {}
  PROVE  Nearest(p) \in targets[p] /\ Nearest(p) \in Ids
<1>1. targets[p] \in SUBSET Nat /\ targets[p] \subseteq Ids
  BY DEF TypeOK, Ids
<1>2. \E s \in targets[p] : \A t \in targets[p] : s <= t
  BY <1>1, LeastExists
<1>3. Nearest(p) \in targets[p]
  BY <1>2, Zenon DEF Nearest
<1> QED
  BY <1>1, <1>3

(* A sequence without its m-th element. *)
LEMMA WithoutFacts ==
  ASSUME NEW S, NEW q \in Seq(S), NEW m \in DOMAIN q
  PROVE  /\ Without(q, m) \in Seq(S)
         /\ Len(Without(q, m)) = Len(q) - 1
         /\ \A i \in 1..(Len(q) - 1) : Without(q, m)[i] = q[IF i < m THEN i ELSE i + 1]
<1> DEFINE a == SubSeq(q, 1, m - 1)
           b == SubSeq(q, m + 1, Len(q))
<1>1. Len(q) \in Nat /\ DOMAIN q = 1..Len(q) /\ m \in 1..Len(q)
  BY LenProperties
<1>2. a \in Seq(S) /\ Len(a) = m - 1 /\ \A i \in 1..(m - 1) : a[i] = q[i]
  BY <1>1, SubSeqProperties
<1>3. b \in Seq(S) /\ Len(b) = Len(q) - m /\ \A i \in 1..(Len(q) - m) : b[i] = q[m + i]
  BY <1>1, SubSeqProperties
<1>4. Without(q, m) = a \o b
  BY DEF Without
<1> HIDE DEF a, b
<1>5. /\ a \o b \in Seq(S) /\ Len(a \o b) = Len(a) + Len(b)
      /\ \A i \in 1..(Len(a) + Len(b)) :
           (a \o b)[i] = IF i <= Len(a) THEN a[i] ELSE b[i - Len(a)]
  BY <1>2, <1>3, ConcatProperties
<1>6. ASSUME NEW i \in 1..(Len(q) - 1)
      PROVE  (a \o b)[i] = q[IF i < m THEN i ELSE i + 1]
  <2>1. CASE i < m
    BY <1>1, <1>2, <1>3, <1>5, <2>1
  <2>2. CASE i >= m
    <3>1. (a \o b)[i] = b[i - (m - 1)]
      BY <1>1, <1>2, <1>3, <1>5, <2>2, SMTT(60)
    <3>2. i - (m - 1) \in 1..(Len(q) - m) /\ m + (i - (m - 1)) = i + 1
      BY <1>1, <2>2
    <3> QED
      BY <3>1, <3>2, <1>3, <1>1, <2>2, SMTT(60)
  <2>3. i < m \/ i >= m
    BY <1>1
  <2> QED
    BY <2>1, <2>2, <2>3
<1> QED
  BY <1>1, <1>2, <1>3, <1>4, <1>5, <1>6

(* r is q with some elements left out, and event e at its end; h says      *)
(* where in q an element was.                                              *)
Extends(r, q, e, h) ==
  /\ r \in Seq(Events) /\ Len(r) >= 1 /\ r[Len(r)] = e
  /\ h \in [1..(Len(r) - 1) -> DOMAIN q]
  /\ \A i \in 1..(Len(r) - 1) : r[i] = q[h[i]]
  /\ \A i, j \in 1..(Len(r) - 1) : i < j => h[i] < h[j]

(* Where the queued snapshot is that a new one replaces: only in a queue   *)
(* that holds one, and it is older than the snapshot to come.              *)
LEMMA CoalescedFacts ==
  ASSUME HubInv, NEW p \in Publishers, NEW s \in Ids
  PROVE  LET q == queue[s]
             c == Coalesced(p, s)
         IN /\ c \in Seq(Events) /\ Len(c) <= Capacity /\ Len(c) <= Len(q)
            /\ \E h \in [1..Len(c) -> DOMAIN q] :
                 /\ \A i \in 1..Len(c) : c[i] = q[h[i]]
                 /\ \A i, j \in 1..Len(c) : i < j => h[i] < h[j]
                 /\ \A k \in DOMAIN q : q[k][1] # MetricsThread => \E i \in 1..Len(c) : h[i] = k
                 /\ p = MetricsThread => \A i \in 1..Len(c) : c[i][1] # MetricsThread
                 /\ p # MetricsThread => c = q
<1> DEFINE q == queue[s]
           c == Coalesced(p, s)
<1>1. q \in Seq(Events) /\ Len(q) \in Nat /\ DOMAIN q = 1..Len(q) /\ Len(q) <= Capacity
  BY LenProperties DEF HubInv, TypeOK, Events, QueuesAreBounded
<1>2. CASE p = MetricsThread /\ MetricsAt(s) # {}
  <2> DEFINE m == CHOOSE i \in MetricsAt(s) : TRUE
  <2>1. m \in MetricsAt(s)
    BY <1>2
  <2>2. m \in DOMAIN q /\ q[m][1] = MetricsThread
    BY <2>1 DEF MetricsAt
  <2>3. c = Without(q, m)
    BY <1>2 DEF Coalesced
  <2> HIDE DEF m
  <2>4. /\ c \in Seq(Events) /\ Len(c) = Len(q) - 1
        /\ \A i \in 1..(Len(q) - 1) : c[i] = q[IF i < m THEN i ELSE i + 1]
    BY <1>1, <2>2, <2>3, WithoutFacts
  <2> HIDE DEF c
  <2>5. \A k \in DOMAIN q : q[k][1] = MetricsThread => k = m
    BY <2>1 DEF HubInv, QueuesAreBounded, MetricsAt
  <2> HIDE DEF q
  <2> DEFINE h == [i \in 1..Len(c) |-> IF i < m THEN i ELSE i + 1]
  <2>6. h \in [1..Len(c) -> DOMAIN q]
    BY <1>1, <2>2, <2>4
  <2>7. \A i \in 1..Len(c) : c[i] = q[h[i]]
    BY <1>1, <2>4
  <2>8. \A i, j \in 1..Len(c) : i < j => h[i] < h[j]
    BY <1>1, <2>2, <2>4
  <2>9. ASSUME NEW k \in DOMAIN q, q[k][1] # MetricsThread
        PROVE  \E i \in 1..Len(c) : h[i] = k
    <3>1. k # m
      BY <2>2, <2>9
    <3>2. CASE k < m
      BY <1>1, <2>2, <2>4, <3>2
    <3>3. CASE k > m
      <4>1. k - 1 \in 1..Len(c) /\ h[k - 1] = k
        BY <1>1, <2>2, <2>4, <3>3
      <4> QED
        BY <4>1
    <3> QED
      BY <1>1, <2>2, <3>1, <3>2, <3>3
  <2>10. \A i \in 1..Len(c) : c[i][1] # MetricsThread
    <3>1. \A i \in 1..Len(c) : h[i] # m
      BY <1>1, <2>2, <2>4
    <3> QED
      BY <3>1, <2>5, <2>6, <2>7
  <2> HIDE DEF h
  <2>11. \E hh \in [1..Len(c) -> DOMAIN q] :
                 /\ \A i \in 1..Len(c) : c[i] = q[hh[i]]
                 /\ \A i, j \in 1..Len(c) : i < j => hh[i] < hh[j]
                 /\ \A k \in DOMAIN q : q[k][1] # MetricsThread => \E i \in 1..Len(c) : hh[i] = k
                 /\ p = MetricsThread => \A i \in 1..Len(c) : c[i][1] # MetricsThread
                 /\ p # MetricsThread => c = q
    BY <1>2, <2>6, <2>7, <2>8, <2>9, <2>10
  <2>12. Len(c) <= Capacity /\ Len(c) <= Len(q)
    BY <1>1, <2>4, CapacityAssumption
  <2> QED
    BY <2>4, <2>11, <2>12 DEF q, c
<1>3. CASE ~(p = MetricsThread /\ MetricsAt(s) # {})
  <2>1. c = q
    BY <1>3 DEF Coalesced
  <2> DEFINE h == [i \in 1..Len(q) |-> i]
  <2>2. p = MetricsThread => \A i \in 1..Len(q) : q[i][1] # MetricsThread
    BY <1>1, <1>3 DEF MetricsAt
  <2> HIDE DEF q, c
  <2>3. h \in [1..Len(c) -> DOMAIN q] /\ \A i \in 1..Len(c) : h[i] = i
    BY <1>1, <2>1
  <2> HIDE DEF h
  <2>4. \E hh \in [1..Len(c) -> DOMAIN q] :
                 /\ \A i \in 1..Len(c) : c[i] = q[hh[i]]
                 /\ \A i, j \in 1..Len(c) : i < j => hh[i] < hh[j]
                 /\ \A k \in DOMAIN q : q[k][1] # MetricsThread => \E i \in 1..Len(c) : hh[i] = k
                 /\ p = MetricsThread => \A i \in 1..Len(c) : c[i][1] # MetricsThread
                 /\ p # MetricsThread => c = q
    BY <1>1, <2>1, <2>2, <2>3
  <2>5. c \in Seq(Events) /\ Len(c) <= Capacity /\ Len(c) <= Len(q)
    BY <1>1, <2>1
  <2> QED
    BY <2>4, <2>5 DEF q, c
<1> QED
  BY <1>2, <1>3
(* What a push makes of a queue. *)
LEMMA PushedFacts ==
  ASSUME HubInv, NEW p \in Publishers, NEW s \in Ids, NEW e \in Events
  PROVE  LET q == queue[s]
             c == Coalesced(p, s)
             r == Append(Fitting(c), e)
         IN /\ Len(r) <= Capacity
            /\ \E h : /\ Extends(r, q, e, h)
                      /\ p = MetricsThread => \A i \in 1..(Len(r) - 1) : r[i][1] # MetricsThread
                      /\ Len(c) < Capacity =>
                           \A k \in DOMAIN q : q[k][1] # MetricsThread =>
                             \E i \in 1..(Len(r) - 1) : h[i] = k
<1> DEFINE q == queue[s]
           c == Coalesced(p, s)
           r == Append(Fitting(c), e)
<1>1. q \in Seq(Events) /\ Len(q) \in Nat /\ DOMAIN q = 1..Len(q)
  BY LenProperties DEF HubInv, TypeOK, Events
<1>2. c \in Seq(Events) /\ Len(c) <= Capacity /\ Len(c) \in Nat
  BY CoalescedFacts, LenProperties
<1>3. PICK g \in [1..Len(c) -> DOMAIN q] :
                 /\ \A i \in 1..Len(c) : c[i] = q[g[i]]
                 /\ \A i, j \in 1..Len(c) : i < j => g[i] < g[j]
                 /\ \A k \in DOMAIN q : q[k][1] # MetricsThread => \E i \in 1..Len(c) : g[i] = k
                 /\ p = MetricsThread => \A i \in 1..Len(c) : c[i][1] # MetricsThread
  BY CoalescedFacts
<1>4. CASE Len(c) >= Capacity
  <2> DEFINE f == Tail(c)
             h == [i \in 1..(Len(c) - 1) |-> g[i + 1]]
  <2>1. c # << >>
    BY <1>2, <1>4, CapacityAssumption
  <2>2. f \in Seq(Events) /\ Len(f) = Len(c) - 1 /\ \A i \in 1..(Len(c) - 1) : f[i] = c[i + 1]
    BY <1>2, <2>1, HeadTailProperties
  <2>3. r = Append(f, e)
    BY <1>4 DEF Fitting
  <2> HIDE DEF r, f, c, q
  <2>4. /\ r \in Seq(Events) /\ Len(r) = Len(c) /\ r[Len(r)] = e
        /\ \A i \in 1..(Len(c) - 1) : r[i] = c[i + 1]
    BY <1>2, <2>2, <2>3, AppendProperties
  <2>5. Extends(r, q, e, h)
    <3>1. h \in [1..(Len(r) - 1) -> DOMAIN q]
      BY <1>2, <1>3, <2>4
    <3>2. \A i \in 1..(Len(r) - 1) : r[i] = q[h[i]]
      BY <1>2, <1>3, <2>4
    <3>3. \A i, j \in 1..(Len(r) - 1) : i < j => h[i] < h[j]
      BY <1>2, <1>3, <2>4
    <3> QED
      BY <1>2, <1>4, <2>4, <3>1, <3>2, <3>3, CapacityAssumption DEF Extends
  <2>6. p = MetricsThread => \A i \in 1..(Len(r) - 1) : r[i][1] # MetricsThread
    BY <1>2, <1>3, <2>4, SMTT(60)
  <2>7. Len(r) <= Capacity /\ ~(Len(c) < Capacity)
    BY <1>2, <1>4, <2>4, CapacityAssumption
  <2> HIDE DEF h
  <2> QED
    BY <2>5, <2>6, <2>7 DEF q, c, r
<1>5. CASE Len(c) < Capacity
  <2>1. r = Append(c, e)
    BY <1>2, <1>5, CapacityAssumption DEF Fitting
  <2> HIDE DEF r, c, q
  <2>2. /\ r \in Seq(Events) /\ Len(r) = Len(c) + 1 /\ r[Len(r)] = e
        /\ \A i \in 1..Len(c) : r[i] = c[i]
    BY <1>2, <2>1, AppendProperties
  <2>3. Len(r) - 1 = Len(c)
    BY <1>2, <2>2
  <2>4. Extends(r, q, e, g)
    BY <1>2, <1>3, <2>2, <2>3 DEF Extends
  <2>5. p = MetricsThread => \A i \in 1..(Len(r) - 1) : r[i][1] # MetricsThread
    BY <1>3, <2>2, <2>3
  <2>6. Len(r) <= Capacity
    BY <1>2, <1>5, <2>2, CapacityAssumption
  <2>7. \A k \in DOMAIN q : q[k][1] # MetricsThread => \E i \in 1..(Len(r) - 1) : g[i] = k
    BY <1>3, <2>3
  <2> QED
    BY <2>4, <2>5, <2>6, <2>7 DEF q, c, r
<1> QED
  BY <1>2, <1>4, <1>5, CapacityAssumption

-----------------------------------------------------------------------------
(* Nothing is published and nobody watches.                                *)
LEMMA InitHolds == Init => HubInv
<1> SUFFICES ASSUME Init PROVE HubInv
  OBVIOUS
<1> USE DEF Init
<1>1. TypeOK
  BY MaxSubscribersAssumption DEF TypeOK, Ids
<1>2. QueuesAreBounded /\ EventsInOrder /\ OnlyFullQueuesLose
  BY CapacityAssumption DEF QueuesAreBounded, EventsInOrder, OnlyFullQueuesLose, MetricsAt
<1>3. NobodyLeft /\ Numbered /\ UpToDate
  BY DEF NobodyLeft, Numbered, UpToDate, Got, Owes
<1>4. SnapshotIsNewest /\ IdsAreFresh
  BY MetricsThreadAssumption DEF SnapshotIsNewest, IdsAreFresh
<1> QED
  BY <1>1, <1>2, <1>3, <1>4 DEF HubInv

(* What is still to visit of a publisher that does not move is the same. *)
LEMMA NearestStays ==
  ASSUME NEW p, targets'[p] = targets[p]
  PROVE  Nearest(p)' = Nearest(p)
  BY Zenon DEF Nearest

(* What a publisher owes depends on its own place and targets.             *)
LEMMA OwesStays ==
  ASSUME NEW p, NEW s, targets'[p] = targets[p], pc'[p] = pc[p]
  PROVE  Owes(p, s)' <=> Owes(p, s)
<1>1. Nearest(p)' = Nearest(p)
  BY NearestStays
<1> QED
  BY <1>1 DEF Owes

(* Steps that leave the queues, and what was read, alone. *)
QueuesStay == UNCHANGED << queue, last, overflowed >>

(* A step that leaves the queues alone keeps what is said of them.         *)
LEMMA QueuesStayFacts ==
  ASSUME HubInv, QueuesStay
  PROVE  /\ QueuesAreBounded' /\ EventsInOrder' /\ OnlyFullQueuesLose'
         /\ \A s, p, n : Got(s, p, n)' <=> Got(s, p, n)
<1>1. queue' = queue /\ last' = last /\ overflowed' = overflowed
  BY DEF QueuesStay
<1>2. QueuesAreBounded'
  BY <1>1 DEF HubInv, QueuesAreBounded, MetricsAt
<1>3. EventsInOrder'
  BY <1>1 DEF HubInv, EventsInOrder
<1>4. \A s, p, i : Before(s, p, i)' = Before(s, p, i)
  BY <1>1, Zenon DEF Before
<1>5. OnlyFullQueuesLose'
  BY <1>1, <1>4 DEF HubInv, OnlyFullQueuesLose
<1>6. \A s, p, n : Got(s, p, n)' <=> Got(s, p, n)
  BY <1>1 DEF Got
<1> QED
  BY <1>2, <1>3, <1>5, <1>6

(* publish_ before the lock: the event has its number, and is owed to all  *)
(* that the copy of the subscribers will hold.                             *)
LEMMA PublishKeeps ==
  ASSUME HubInv, NEW p \in Publishers, Publish(p)
  PROVE  HubInv'
<1> USE DEF HubInv
<1>1. QueuesStay
  BY DEF Publish, QueuesStay, watcher
<1>2. TypeOK'
  BY DEF TypeOK, Publish, Goto, LatestMetrics, watcher
<1>3. \A q \in Publishers : q # p => pc'[q] = pc[q] /\ published'[q] = published[q]
  BY DEF TypeOK, Publish, Goto
<1>4. pc[p] = "idle" /\ pc'[p] = "collect" /\ published'[p] = published[p] + 1
      /\ published[p] \in Nat /\ UNCHANGED << targets, subscribers, next_subscriber_id >>
  BY DEF TypeOK, Publish, Goto
<1>5. NobodyLeft'
  BY <1>3, <1>4 DEF NobodyLeft
<1>6. \A s : ~Owes(p, s) /\ Owes(p, s)'
  BY <1>4 DEF Owes
<1>7. \A q \in Publishers, s \in Ids : q # p => (Owes(q, s)' <=> Owes(q, s))
  BY <1>3, <1>4, OwesStays
<1>8. Numbered'
  <2> SUFFICES ASSUME NEW s \in Ids, NEW q \in Publishers, NEW n \in Nat, Got(s, q, n)
               PROVE  n <= published'[q] /\ (Owes(q, s)' => n < published'[q])
    BY <1>1, QueuesStayFacts DEF Numbered
  <2>1. n <= published[q] /\ (Owes(q, s) => n < published[q])
    BY DEF Numbered
  <2> QED
    BY <1>3, <1>4, <1>7, <2>1
<1>9. UpToDate'
  <2> SUFFICES ASSUME NEW s \in Ids \ overflowed, NEW q \in Publishers \ {MetricsThread},
                      s \in subscribers \cup targets[q], NEW n \in Nat \ {0}, Got(s, q, n)
               PROVE  Got(s, q, IF Owes(q, s)' THEN published'[q] - 1 ELSE published'[q])
    BY <1>1, <1>4, QueuesStayFacts DEF UpToDate, QueuesStay
  <2>1. Got(s, q, IF Owes(q, s) THEN published[q] - 1 ELSE published[q])
    BY DEF UpToDate
  <2>2. CASE q = p
    BY <1>4, <1>6, <2>1, <2>2
  <2>3. CASE q # p
    BY <1>3, <1>7, <2>1, <2>3
  <2> QED
    BY <2>2, <2>3
<1>10. SnapshotIsNewest'
  BY MetricsThreadAssumption DEF TypeOK, SnapshotIsNewest, Publish, LatestMetrics
<1>11. IdsAreFresh'
  BY DEF IdsAreFresh, Publish, watcher
<1> QED
  BY <1>1, <1>2, <1>5, <1>8, <1>9, <1>10, <1>11, QueuesStayFacts

(* A step of publisher p that gives nothing: whoever may still get its     *)
(* event is owed exactly what it was owed.                                 *)
LEMMA VisitKeeps ==
  ASSUME HubInv, QueuesStay, NEW p \in Publishers,
         UNCHANGED << published, latest_metrics, subscribers >>,
         \A q \in Publishers : q # p => targets'[q] = targets[q] /\ pc'[q] = pc[q],
         \A s \in Ids : Owes(p, s)' => Owes(p, s),
         \A s \in Ids : s \in subscribers \cup targets'[p] =>
           s \in subscribers \cup targets[p] /\ (Owes(p, s) => Owes(p, s)')
  PROVE  Numbered' /\ UpToDate' /\ SnapshotIsNewest'
<1> USE DEF HubInv
<1>1. \A q \in Publishers, s \in Ids : q # p => (Owes(q, s)' <=> Owes(q, s))
  BY OwesStays
<1>2. Numbered'
  <2> SUFFICES ASSUME NEW s \in Ids, NEW q \in Publishers, NEW n \in Nat, Got(s, q, n)
               PROVE  n <= published[q] /\ (Owes(q, s)' => n < published[q])
    BY QueuesStayFacts DEF Numbered
  <2>1. n <= published[q] /\ (Owes(q, s) => n < published[q])
    BY DEF Numbered
  <2> QED
    BY <1>1, <2>1
<1>3. UpToDate'
  <2> SUFFICES ASSUME NEW s \in Ids \ overflowed, NEW q \in Publishers \ {MetricsThread},
                      s \in subscribers \cup targets'[q], NEW n \in Nat \ {0}, Got(s, q, n)
               PROVE  Got(s, q, IF Owes(q, s)' THEN published[q] - 1 ELSE published[q])
    BY QueuesStayFacts DEF UpToDate, QueuesStay
  <2>1. s \in subscribers \cup targets[q] /\ (Owes(q, s)' <=> Owes(q, s))
    BY <1>1
  <2>2. Got(s, q, IF Owes(q, s) THEN published[q] - 1 ELSE published[q])
    BY <2>1 DEF UpToDate
  <2> QED
    BY <2>1, <2>2
<1>4. SnapshotIsNewest'
  BY DEF SnapshotIsNewest
<1> QED
  BY <1>2, <1>3, <1>4

(* publish_ under the hub's lock: the subscribers that get the event are   *)
(* those of this moment.                                                   *)
LEMMA CollectKeeps ==
  ASSUME HubInv, NEW p \in Publishers, Collect(p)
  PROVE  HubInv'
<1> USE DEF HubInv
<1>1. QueuesStay
  BY DEF Collect, QueuesStay, watcher
<1>2. /\ UNCHANGED << published, latest_metrics, subscribers, next_subscriber_id, closed, reader, last, queue >>
      /\ pc[p] = "collect" /\ pc'[p] = AfterCollect /\ targets'[p] = subscribers
      /\ \A q \in Publishers : q # p => targets'[q] = targets[q] /\ pc'[q] = pc[q]
      /\ subscribers \in SUBSET Ids
  BY DEF Collect, TypeOK, Goto, hub, watcher
<1>3. TypeOK'
  BY DEF TypeOK, Collect, Goto, hub, watcher, AfterCollect
<1>4. NobodyLeft'
  BY <1>2 DEF NobodyLeft, AfterCollect
<1>5. \A s \in Ids : Owes(p, s)
  BY <1>2 DEF Owes
<1>6. \A s \in Ids : s \in subscribers \cup targets'[p] =>
           s \in subscribers \cup targets[p] /\ Owes(p, s)'
  BY <1>2 DEF Owes, AfterCollect
<1>7. Numbered' /\ UpToDate' /\ SnapshotIsNewest'
  BY <1>1, <1>2, <1>5, <1>6, VisitKeeps
<1>8. IdsAreFresh'
  <2> SUFFICES ASSUME NEW s \in Ids, s >= next_subscriber_id, NEW q \in Publishers
               PROVE  s \notin targets'[q]
    BY <1>2 DEF IdsAreFresh
  <2>1. s \notin subscribers /\ s \notin targets[q]
    BY DEF IdsAreFresh
  <2> QED
    BY <1>2, <2>1
<1> QED
  BY <1>1, <1>3, <1>4, <1>7, <1>8, QueuesStayFacts

(* Publisher p is done with the nearest of its targets. *)
LEMMA VisitedFacts ==
  ASSUME HubInv, NEW p \in Publishers, pc[p] \in {"push", "notify"},
         Visited(p), Goto(p, AfterVisit(p))
  PROVE  /\ Nearest(p) \in targets[p] /\ Nearest(p) \in Ids
         /\ targets'[p] = targets[p] \ {Nearest(p)}
         /\ \A q \in Publishers : q # p => targets'[q] = targets[q] /\ pc'[q] = pc[q]
         /\ targets' \in [Publishers -> SUBSET Ids]
         /\ pc' \in [Publishers -> {"idle", "collect", "push", "notify"}]
         /\ pc'[p] \in {"idle", "push"} /\ (pc'[p] = "idle" <=> targets'[p] = {})
         /\ \A s \in Ids : Owes(p, s)' <=> s \in targets'[p]
         /\ NobodyLeft'
<1> USE DEF HubInv
<1>1. targets[p] # {}
  BY DEF TypeOK
<1>2. Nearest(p) \in targets[p] /\ Nearest(p) \in Ids
  BY <1>1, NearestIsTarget
<1>3. /\ targets'[p] = targets[p] \ {Nearest(p)}
      /\ \A q \in Publishers : q # p => targets'[q] = targets[q] /\ pc'[q] = pc[q]
      /\ targets' \in [Publishers -> SUBSET Ids] /\ pc'[p] = AfterVisit(p)
      /\ pc' \in [Publishers -> {"idle", "collect", "push", "notify"}]
  BY DEF TypeOK, Visited, Goto, AfterVisit
<1>4. pc'[p] \in {"idle", "push"} /\ (pc'[p] = "idle" <=> targets'[p] = {})
  BY <1>2, <1>3 DEF AfterVisit
<1>5. \A s \in Ids : Owes(p, s)' <=> s \in targets'[p]
  BY <1>4 DEF Owes
<1>6. NobodyLeft'
  BY <1>3, <1>4 DEF NobodyLeft
<1> QED
  BY <1>2, <1>3, <1>4, <1>5, <1>6

(* A closed queue is passed over; its reader is gone.                      *)
LEMMA PassClosedKeeps ==
  ASSUME HubInv, NEW p \in Publishers, PassClosed(p)
  PROVE  HubInv'
<1> USE DEF HubInv
<1> DEFINE s == Nearest(p)
<1>1. QueuesStay /\ pc[p] = "push" /\ closed[s] /\ Visited(p) /\ Goto(p, AfterVisit(p))
  BY DEF PassClosed, QueuesStay, watcher, Listening
<1>2. UNCHANGED << published, latest_metrics, subscribers, next_subscriber_id, closed, reader, last, queue, overflowed >>
  BY DEF PassClosed, hub, watcher
<1>3. /\ s \in targets[p] /\ s \in Ids
      /\ targets'[p] = targets[p] \ {s}
      /\ \A q \in Publishers : q # p => targets'[q] = targets[q] /\ pc'[q] = pc[q]
      /\ targets' \in [Publishers -> SUBSET Ids]
      /\ pc' \in [Publishers -> {"idle", "collect", "push", "notify"}]
      /\ pc'[p] \in {"idle", "push"} /\ (pc'[p] = "idle" <=> targets'[p] = {})
      /\ \A t \in Ids : Owes(p, t)' <=> t \in targets'[p]
      /\ NobodyLeft'
  BY <1>1, VisitedFacts
<1> HIDE DEF s
<1>4. s \notin subscribers
  BY <1>1, <1>3 DEF IdsAreFresh
<1>5. \A t \in Ids : Owes(p, t) <=> t \in targets[p]
  BY <1>1 DEF Owes
<1>6. TypeOK'
  BY <1>2, <1>3 DEF TypeOK
<1>7. Numbered' /\ UpToDate' /\ SnapshotIsNewest'
  BY <1>1, <1>2, <1>3, <1>4, <1>5, VisitKeeps
<1>8. IdsAreFresh'
  BY <1>2, <1>3 DEF IdsAreFresh
<1> QED
  BY <1>1, <1>3, <1>6, <1>7, <1>8, QueuesStayFacts

(* notify_one after a push: the publisher goes on to the next target,      *)
(* which has not seen the event.                                           *)
LEMMA NotifyKeeps ==
  ASSUME HubInv, NEW p \in Publishers, Notify(p)
  PROVE  HubInv'
<1> USE DEF HubInv
<1> DEFINE s == Nearest(p)
<1>1. QueuesStay /\ pc[p] = "notify" /\ Visited(p) /\ Goto(p, AfterVisit(p))
  BY DEF Notify, QueuesStay
<1>2. UNCHANGED << published, latest_metrics, subscribers, next_subscriber_id, closed, last, queue, overflowed >>
  BY DEF Notify, hub
<1>3. /\ s \in targets[p] /\ s \in Ids
      /\ targets'[p] = targets[p] \ {s}
      /\ \A q \in Publishers : q # p => targets'[q] = targets[q] /\ pc'[q] = pc[q]
      /\ targets' \in [Publishers -> SUBSET Ids]
      /\ pc' \in [Publishers -> {"idle", "collect", "push", "notify"}]
      /\ pc'[p] \in {"idle", "push"} /\ (pc'[p] = "idle" <=> targets'[p] = {})
      /\ \A t \in Ids : Owes(p, t)' <=> t \in targets'[p]
      /\ NobodyLeft'
  BY <1>1, VisitedFacts
<1>4. reader' = IF reader[s] = "waiting" THEN [reader EXCEPT ![s] = "notified"] ELSE reader
  BY DEF Notify
<1>5. \A t \in Ids : Owes(p, t) <=> t \in targets'[p]
  BY <1>1, <1>3 DEF Owes
<1> HIDE DEF s
<1>6. TypeOK'
  BY <1>2, <1>3, <1>4 DEF TypeOK
<1>7. Numbered' /\ UpToDate' /\ SnapshotIsNewest'
  BY <1>1, <1>2, <1>3, <1>5, VisitKeeps
<1>8. IdsAreFresh'
  <2> SUFFICES ASSUME NEW t \in Ids
               PROVE  /\ t >= next_subscriber_id =>
                           reader'[t] = "none" /\ \A q \in Publishers : t \notin targets'[q]
                      /\ t \in subscribers => reader'[t] \notin {"closing", "gone"}
                      /\ closed[t] => reader'[t] = "gone"
    BY <1>2 DEF IdsAreFresh
  <2>1. /\ t >= next_subscriber_id =>
             reader[t] = "none" /\ \A q \in Publishers : t \notin targets[q]
        /\ t \in subscribers => reader[t] \notin {"closing", "gone"}
        /\ closed[t] => reader[t] = "gone"
    BY DEF IdsAreFresh
  <2>2. reader'[t] = reader[t] \/ (reader[t] = "waiting" /\ reader'[t] = "notified")
    <3>1. DOMAIN reader = Ids
      BY DEF TypeOK
    <3>2. CASE reader[s] = "waiting"
      BY <1>3, <1>4, <3>1, <3>2
    <3>3. CASE reader[s] # "waiting"
      BY <1>4, <3>3
    <3> QED
      BY <3>2, <3>3
  <2> QED
    BY <1>3, <2>1, <2>2
<1> QED
  BY <1>1, <1>3, <1>6, <1>7, <1>8, QueuesStayFacts

(* A step of a watcher that takes nothing, and whoever is new has nothing. *)
LEMMA WatcherKeeps ==
  ASSUME HubInv, QueuesStay, UNCHANGED << publisher, latest_metrics >>,
         \A s \in Ids : s \in subscribers' =>
           s \in subscribers \/ \A p \in Publishers, n \in Nat \ {0} : ~Got(s, p, n)
  PROVE  NobodyLeft' /\ Numbered' /\ UpToDate' /\ SnapshotIsNewest'
<1> USE DEF HubInv, publisher
<1>1. \A q \in Publishers, s \in Ids : (Owes(q, s)' <=> Owes(q, s))
  BY OwesStays
<1>2. NobodyLeft' /\ SnapshotIsNewest'
  BY DEF NobodyLeft, SnapshotIsNewest
<1>3. Numbered'
  BY <1>1, QueuesStayFacts DEF Numbered
<1>4. UpToDate'
  <2> SUFFICES ASSUME NEW s \in Ids \ overflowed, NEW q \in Publishers \ {MetricsThread},
                      s \in subscribers' \cup targets[q], NEW n \in Nat \ {0}, Got(s, q, n)
               PROVE  Got(s, q, IF Owes(q, s)' THEN published[q] - 1 ELSE published[q])
    BY QueuesStayFacts DEF UpToDate, QueuesStay
  <2>1. s \in subscribers \cup targets[q]
    OBVIOUS
  <2>2. Got(s, q, IF Owes(q, s) THEN published[q] - 1 ELSE published[q])
    BY <2>1 DEF UpToDate
  <2> QED
    BY <1>1, <2>2
<1> QED
  BY <1>2, <1>3, <1>4

(* Subscription::open_: a new id, with the newest snapshot as its first    *)
(* event.                                                                  *)
LEMMA SubscribeKeeps ==
  ASSUME HubInv, NEW s \in Ids, Subscribe(s)
  PROVE  HubInv'
<1> USE DEF HubInv
<1>1. QueuesStay /\ UNCHANGED << publisher, latest_metrics, closed, queue, last >>
  BY DEF Subscribe, QueuesStay
<1>2. /\ s = next_subscriber_id /\ next_subscriber_id' = s + 1 /\ s \in Nat
      /\ subscribers' = subscribers \cup {s} /\ reader' = [reader EXCEPT ![s] = "busy"]
  BY DEF Subscribe, Turn, Ids
<1>3. TypeOK'
  <2>1. s + 1 \in 1 .. MaxSubscribers + 1 /\ subscribers' \in SUBSET Ids
    BY <1>2, MaxSubscribersAssumption DEF Ids, TypeOK
  <2> QED
    BY <1>1, <1>2, <2>1 DEF TypeOK, publisher, QueuesStay
<1>4. queue[s] = << >> /\ \A p \in Publishers : last[s][p] = 0
  BY <1>2 DEF IdsAreFresh
<1>5. \A p \in Publishers, n \in Nat \ {0} : ~Got(s, p, n)
  BY <1>4 DEF Got
<1>6. NobodyLeft' /\ Numbered' /\ UpToDate' /\ SnapshotIsNewest'
  BY <1>1, <1>2, <1>5, WatcherKeeps
<1>7. IdsAreFresh'
  <2> SUFFICES ASSUME NEW t \in Ids
               PROVE  /\ t >= s + 1 =>
                           /\ reader'[t] = "none" /\ queue[t] = <<>> /\ t \notin subscribers'
                           /\ \A p \in Publishers : t \notin targets[p] /\ last[t][p] = 0
                      /\ t \in subscribers' => reader'[t] \notin {"closing", "gone"}
                      /\ closed[t] => reader'[t] = "gone"
    BY <1>1, <1>2 DEF IdsAreFresh, publisher
  <2>1. /\ t >= s =>
             /\ reader[t] = "none" /\ queue[t] = <<>> /\ t \notin subscribers
             /\ \A p \in Publishers : t \notin targets[p] /\ last[t][p] = 0
        /\ t \in subscribers => reader[t] \notin {"closing", "gone"}
        /\ closed[t] => reader[t] = "gone"
    BY <1>2 DEF IdsAreFresh
  <2>2. t \in Nat
    BY DEF Ids
  <2>3. CASE t = s
    BY <1>2, <2>1, <2>3 DEF TypeOK
  <2>4. CASE t # s
    BY <1>2, <2>1, <2>2, <2>4 DEF TypeOK
  <2> QED
    BY <2>3, <2>4
<1> QED
  BY <1>1, <1>3, <1>6, <1>7, QueuesStayFacts

(* A watcher that was given an id moves within its call. *)
LEMMA TurnKeeps ==
  ASSUME HubInv, QueuesStay, UNCHANGED << publisher, latest_metrics, next_subscriber_id >>,
         NEW s \in Ids, s < next_subscriber_id,
         NEW label \in {"busy", "waiting", "notified", "timed_out", "closing", "gone"},
         Turn(s, label),
         subscribers' \in SUBSET subscribers, closed' \in [Ids -> BOOLEAN],
         \A t \in Ids : t # s => closed'[t] = closed[t],
         closed'[s] => label = "gone",
         label \in {"closing", "gone"} => s \notin subscribers'
  PROVE  HubInv'
<1> USE DEF HubInv
<1>1. reader' = [reader EXCEPT ![s] = label] /\ UNCHANGED << queue, last, targets >>
  BY DEF Turn, QueuesStay, publisher
<1>2. TypeOK'
  BY <1>1 DEF TypeOK, publisher, QueuesStay
<1>3. NobodyLeft' /\ Numbered' /\ UpToDate' /\ SnapshotIsNewest'
  BY WatcherKeeps
<1>4. IdsAreFresh'
  <2> SUFFICES ASSUME NEW t \in Ids
               PROVE  /\ t >= next_subscriber_id =>
                           /\ reader'[t] = "none" /\ queue[t] = <<>> /\ t \notin subscribers'
                           /\ \A p \in Publishers : t \notin targets[p] /\ last[t][p] = 0
                      /\ t \in subscribers' => reader'[t] \notin {"closing", "gone"}
                      /\ closed'[t] => reader'[t] = "gone"
    BY <1>1 DEF IdsAreFresh
  <2>1. /\ t >= next_subscriber_id =>
             /\ reader[t] = "none" /\ queue[t] = <<>> /\ t \notin subscribers
             /\ \A p \in Publishers : t \notin targets[p] /\ last[t][p] = 0
        /\ t \in subscribers => reader[t] \notin {"closing", "gone"}
        /\ closed[t] => reader[t] = "gone"
    BY DEF IdsAreFresh
  <2>2. CASE t = s
    BY <1>1, <2>2 DEF TypeOK, Ids
  <2>3. CASE t # s
    BY <1>1, <2>1, <2>3 DEF TypeOK
  <2> QED
    BY <2>2, <2>3
<1> QED
  BY <1>2, <1>3, <1>4, QueuesStayFacts

(* Only a subscriber with an id runs its call. *)
LEMMA InCall ==
  ASSUME HubInv, NEW s \in Ids, reader[s] # "none"
  PROVE  s < next_subscriber_id
  BY DEF HubInv, IdsAreFresh, TypeOK, Ids

(* A wait begins, goes on or ends without an event. *)
Waits(s) ==
  /\ reader[s] \in {"busy", "waiting", "notified", "timed_out"}
  /\ \E label \in {"busy", "waiting", "notified", "timed_out"} : Turn(s, label)
  /\ UNCHANGED << hub, queue, closed, publisher, last, overflowed >>

(* wait_next while it waits or wakes.                                      *)
LEMMA WaitsKeeps ==
  ASSUME HubInv, NEW s \in Ids, Waits(s)
  PROVE  HubInv'
<1>1. PICK label \in {"busy", "waiting", "notified", "timed_out"} : Turn(s, label)
  BY DEF Waits
<1>2. s < next_subscriber_id
  BY InCall DEF Waits
<1>3. /\ QueuesStay /\ UNCHANGED << publisher, latest_metrics, next_subscriber_id >>
      /\ subscribers' \in SUBSET subscribers /\ closed' \in [Ids -> BOOLEAN]
      /\ \A t \in Ids : t # s => closed'[t] = closed[t]
      /\ ~closed'[s]
  BY DEF Waits, HubInv, QueuesStay, TypeOK, hub, IdsAreFresh
<1> QED
  BY <1>1, <1>2, <1>3, TurnKeeps

(* The first half of close: out of the hub's map.                          *)
LEMMA UnsubscribeKeeps ==
  ASSUME HubInv, NEW s \in Ids, Unsubscribe(s)
  PROVE  HubInv'
<1>1. s < next_subscriber_id
  BY InCall DEF Unsubscribe
<1>2. /\ QueuesStay /\ UNCHANGED << publisher, latest_metrics, next_subscriber_id >>
      /\ Turn(s, "closing")
      /\ subscribers' \in SUBSET subscribers /\ closed' \in [Ids -> BOOLEAN]
      /\ \A t \in Ids : t # s => closed'[t] = closed[t]
      /\ ~closed'[s] /\ s \notin subscribers'
  BY DEF Unsubscribe, HubInv, QueuesStay, TypeOK, IdsAreFresh
<1> QED
  BY <1>1, <1>2, TurnKeeps

(* The second half of close: nobody reads this queue again.                *)
LEMMA CloseKeeps ==
  ASSUME HubInv, NEW s \in Ids, Close(s)
  PROVE  HubInv'
<1>1. s < next_subscriber_id
  BY InCall DEF Close
<1>2. /\ QueuesStay /\ UNCHANGED << publisher, latest_metrics, next_subscriber_id >>
      /\ Turn(s, "gone")
      /\ subscribers' \in SUBSET subscribers /\ closed' \in [Ids -> BOOLEAN]
      /\ \A t \in Ids : t # s => closed'[t] = closed[t]
      /\ s \notin subscribers'
  BY DEF Close, HubInv, QueuesStay, TypeOK, IdsAreFresh, hub
<1> QED
  BY <1>1, <1>2, TurnKeeps

-----------------------------------------------------------------------------
(* An event in a queue is got, is one of its publisher, and is not event 0. *)
LEMMA QueuedFacts ==
  ASSUME HubInv, NEW s \in Ids, NEW i \in DOMAIN queue[s]
  PROVE  /\ queue[s][i] \in Events
         /\ queue[s][i] = << queue[s][i][1], queue[s][i][2] >>
         /\ queue[s][i][1] \in Publishers /\ queue[s][i][2] \in Nat \ {0}
         /\ Got(s, queue[s][i][1], queue[s][i][2])
<1>1. queue[s] \in Seq(Events)
  BY DEF HubInv, TypeOK, Events
<1>2. queue[s][i] \in Events
  BY <1>1, ElementOfSeq, LenProperties
<1>3. queue[s][i] = << queue[s][i][1], queue[s][i][2] >>
      /\ queue[s][i][1] \in Publishers /\ queue[s][i][2] \in Nat
  BY <1>2 DEF Events
<1>4. queue[s][i][2] > last[s][queue[s][i][1]]
  BY DEF HubInv, EventsInOrder
<1>5. last[s][queue[s][i][1]] \in Nat
  BY <1>3 DEF HubInv, TypeOK
<1> QED
  BY <1>2, <1>3, <1>4, <1>5 DEF Got

(* The watcher of s takes its oldest event.                                *)
Takes(s) ==
  /\ queue[s] # <<>>
  /\ last' = [last EXCEPT ![s][Front(s)[1]] = Front(s)[2]]
  /\ queue' = [queue EXCEPT ![s] = Tail(@)]
  /\ UNCHANGED << subscribers, latest_metrics, publisher, overflowed >>

(* What taking the front of a queue does to the queue and to what its      *)
(* reader has last seen.                                                   *)
LEMMA TakesFacts ==
  ASSUME HubInv, NEW s \in Ids, Takes(s)
  PROVE  LET q == queue[s]
             p == q[1][1]
             n == q[1][2]
         IN /\ queue' \in [Ids -> Seq(Events)] /\ Len(q) \in Nat \ {0} /\ DOMAIN q = 1..Len(q)
            /\ \A t \in Ids : t # s => queue'[t] = queue[t] /\ last'[t] = last[t]
            /\ Len(queue'[s]) = Len(q) - 1 /\ DOMAIN queue'[s] = 1..(Len(q) - 1)
            /\ \A i \in 1..(Len(q) - 1) : i + 1 \in 1..Len(q) /\ queue'[s][i] = q[i + 1]
            /\ p \in Publishers /\ n \in Nat \ {0} /\ n > last[s][p] /\ last[s][p] \in Nat
            /\ last' \in [Ids -> [Publishers -> Nat]]
            /\ last'[s][p] = n /\ \A a \in Publishers : a # p => last'[s][a] = last[s][a]
<1> DEFINE q == queue[s]
<1> USE DEF HubInv
<1>1. q \in Seq(Events) /\ q # << >> /\ queue \in [Ids -> Seq(Events)]
  BY DEF TypeOK, Events, Takes
<1>2. Len(q) \in Nat \ {0} /\ DOMAIN q = 1..Len(q)
  BY <1>1, LenProperties, EmptySeq
<1>3. /\ Tail(q) \in Seq(Events) /\ Len(Tail(q)) = Len(q) - 1 /\ Head(q) = q[1]
      /\ \A i \in 1..(Len(q) - 1) : Tail(q)[i] = q[i + 1]
  BY <1>1, HeadTailProperties
<1>4. DOMAIN Tail(q) = 1..(Len(q) - 1)
  BY <1>3, LenProperties
<1>5. queue'[s] = Tail(q) /\ queue' \in [Ids -> Seq(Events)]
      /\ \A t \in Ids : t # s => queue'[t] = queue[t]
  <2>1. queue' = [queue EXCEPT ![s] = Tail(q)]
    BY DEF Takes
  <2> HIDE DEF q
  <2> QED
    BY <1>1, <1>3, <2>1
<1>6. /\ q[1][1] \in Publishers /\ q[1][2] \in Nat \ {0}
      /\ q[1][2] > last[s][q[1][1]]
  BY <1>2, QueuedFacts DEF EventsInOrder
<1>7. Front(s) = q[1]
  BY <1>3 DEF Front
<1>8. last' = [last EXCEPT ![s][q[1][1]] = q[1][2]] /\ last \in [Ids -> [Publishers -> Nat]]
  BY <1>7 DEF Takes, TypeOK
<1>9. \A i \in 1..(Len(q) - 1) : i + 1 \in 1..Len(q)
  BY <1>2
<1> HIDE DEF q
<1>10. /\ last' \in [Ids -> [Publishers -> Nat]] /\ last[s][q[1][1]] \in Nat
       /\ last'[s][q[1][1]] = q[1][2]
       /\ \A a \in Publishers : a # q[1][1] => last'[s][a] = last[s][a]
       /\ \A t \in Ids : t # s => last'[t] = last[t]
  BY <1>6, <1>8
<1> QED
  BY <1>2, <1>3, <1>4, <1>5, <1>6, <1>9, <1>10 DEF q

(* Taking an event changes what was got by forgetting the last one before. *)
LEMMA TakesGot ==
  ASSUME HubInv, NEW s \in Ids, Takes(s), NEW t \in Ids, NEW a \in Publishers, NEW n \in Nat
  PROVE  /\ Got(t, a, n)' => Got(t, a, n)
         /\ Got(t, a, n) => \/ Got(t, a, n)'
                            \/ t = s /\ a = queue[s][1][1] /\ n = last[s][a]
<1> DEFINE q == queue[s]
<1>1. /\ Len(q) \in Nat \ {0} /\ DOMAIN q = 1..Len(q)
      /\ \A u \in Ids : u # s => queue'[u] = queue[u] /\ last'[u] = last[u]
      /\ Len(queue'[s]) = Len(q) - 1 /\ DOMAIN queue'[s] = 1..(Len(q) - 1)
      /\ \A i \in 1..(Len(q) - 1) : i + 1 \in 1..Len(q) /\ queue'[s][i] = q[i + 1]
      /\ q[1][1] \in Publishers
      /\ last'[s][q[1][1]] = q[1][2] /\ \A b \in Publishers : b # q[1][1] => last'[s][b] = last[s][b]
  BY TakesFacts
<1>2. CASE t # s
  BY <1>1, <1>2 DEF Got
<1>3. CASE t = s
  <2>1. q[1] = << q[1][1], q[1][2] >>
    BY <1>1, QueuedFacts
  <2>2. ASSUME Got(s, a, n)' PROVE Got(s, a, n)
    <3>1. CASE last'[s][a] = n
      BY <1>1, <2>1, <3>1 DEF Got
    <3>2. CASE \E i \in DOMAIN queue'[s] : queue'[s][i] = << a, n >>
      <4>1. PICK i \in 1..(Len(q) - 1) : queue'[s][i] = << a, n >>
        BY <1>1, <3>2
      <4>2. i + 1 \in DOMAIN q /\ q[i + 1] = << a, n >>
        BY <1>1, <4>1
      <4> QED
        BY <4>2 DEF Got
    <3> QED
      BY <2>2, <3>1, <3>2 DEF Got
  <2>3. ASSUME Got(s, a, n), ~(a = q[1][1] /\ n = last[s][a]) PROVE Got(s, a, n)'
    <3>1. CASE last[s][a] = n
      BY <1>1, <2>3, <3>1 DEF Got
    <3>2. CASE \E i \in DOMAIN q : q[i] = << a, n >>
      <4>1. PICK i \in 1..Len(q) : q[i] = << a, n >>
        BY <1>1, <3>2
      <4>2. CASE i = 1
        BY <1>1, <4>1, <4>2 DEF Got
      <4>3. CASE i # 1
        <5>1. i - 1 \in 1..(Len(q) - 1) /\ (i - 1) + 1 = i
          BY <1>1, <4>1, <4>3
        <5>2. queue'[s][i - 1] = << a, n >>
          BY <1>1, <4>1, <5>1
        <5> QED
          BY <1>1, <5>1, <5>2 DEF Got
      <4> QED
        BY <4>2, <4>3
    <3> QED
      BY <2>3, <3>1, <3>2 DEF Got
  <2> QED
    BY <1>3, <2>2, <2>3 DEF q
<1> QED
  BY <1>2, <1>3

(* After an event is taken, the rest of the queue is still in order and    *)
(* bounded.                                                                *)
LEMMA TakesKeepsOrder ==
  ASSUME HubInv, NEW s \in Ids, Takes(s)
  PROVE  QueuesAreBounded' /\ EventsInOrder' /\ OnlyFullQueuesLose'
<1> USE DEF HubInv
<1> DEFINE q == queue[s]
           r == queue'[s]
           m == Len(q) - 1
<1>1. /\ Len(q) \in Nat \ {0} /\ DOMAIN q = 1..Len(q)
      /\ \A t \in Ids : t # s => queue'[t] = queue[t] /\ last'[t] = last[t]
      /\ Len(r) = m /\ DOMAIN r = 1..m
      /\ \A i \in 1..m : i + 1 \in 1..Len(q) /\ r[i] = q[i + 1]
      /\ q[1][1] \in Publishers /\ q[1][2] \in Nat \ {0}
      /\ q[1][2] > last[s][q[1][1]] /\ last[s][q[1][1]] \in Nat
      /\ last'[s][q[1][1]] = q[1][2]
      /\ \A a \in Publishers : a # q[1][1] => last'[s][a] = last[s][a]
  BY TakesFacts
<1>m. m \in Nat /\ Len(q) = m + 1
  BY <1>1
<1>2. overflowed' = overflowed
  BY DEF Takes
<1>3. QueuesAreBounded'
  <2>1. ASSUME NEW t \in Ids, t # s
        PROVE  Len(queue'[t]) <= Capacity /\ \A i, j \in MetricsAt(t)' : i = j
    BY <1>1, <2>1 DEF QueuesAreBounded, MetricsAt
  <2>2. Len(r) <= Capacity
    BY <1>1, CapacityAssumption DEF QueuesAreBounded
  <2>3. ASSUME NEW i \in MetricsAt(s)', NEW j \in MetricsAt(s)' PROVE i = j
    <3>1. i \in 1..m /\ j \in 1..m /\ r[i][1] = MetricsThread /\ r[j][1] = MetricsThread
      BY <1>1 DEF MetricsAt
    <3>2. i + 1 \in MetricsAt(s) /\ j + 1 \in MetricsAt(s)
      BY <1>1, <3>1 DEF MetricsAt
    <3>3. i + 1 = j + 1
      BY <3>2 DEF QueuesAreBounded
    <3> QED
      BY <3>1, <3>3
  <2> QED
    BY <2>1, <2>2, <2>3 DEF QueuesAreBounded
<1>4. EventsInOrder'
  <2>1. ASSUME NEW t \in Ids, t # s, NEW i \in DOMAIN queue'[t]
        PROVE  /\ queue'[t][i][2] > last'[t][queue'[t][i][1]]
               /\ \A j \in DOMAIN queue'[t] :
                    j < i /\ queue'[t][j][1] = queue'[t][i][1] => queue'[t][i][2] > queue'[t][j][2]
    BY <1>1, <2>1 DEF EventsInOrder
  <2>2. ASSUME NEW i \in 1..m
        PROVE  /\ r[i][2] > last'[s][r[i][1]]
               /\ \A j \in 1..m : j < i /\ r[j][1] = r[i][1] => r[i][2] > r[j][2]
    <3>1. i + 1 \in DOMAIN q /\ r[i] = q[i + 1] /\ 1 \in DOMAIN q /\ 1 < i + 1
      BY <1>1
    <3>2. q[i + 1][1] \in Publishers
      BY <3>1, QueuedFacts
    <3>3. r[i][2] > last'[s][r[i][1]]
      <4>1. CASE q[i + 1][1] = q[1][1]
        <5>1. q[i + 1][2] > q[1][2]
          BY <3>1, <4>1 DEF EventsInOrder
        <5> QED
          BY <1>1, <3>1, <4>1, <5>1
      <4>2. CASE q[i + 1][1] # q[1][1]
        <5>1. q[i + 1][2] > last[s][q[i + 1][1]]
          BY <3>1 DEF EventsInOrder
        <5> QED
          BY <1>1, <3>1, <3>2, <4>2, <5>1
      <4> QED
        BY <4>1, <4>2
    <3>4. ASSUME NEW j \in 1..m, j < i, r[j][1] = r[i][1]
          PROVE  r[i][2] > r[j][2]
      <4>1. j + 1 \in DOMAIN q /\ r[j] = q[j + 1] /\ j + 1 < i + 1
        <5> HIDE DEF m
        <5> QED
          BY <1>1, <1>m, <3>4
      <4> QED
        BY <3>1, <3>4, <4>1 DEF EventsInOrder
    <3> QED
      BY <3>3, <3>4
  <2> HIDE DEF r, m
  <2>3. \A i \in DOMAIN r : /\ r[i][2] > last'[s][r[i][1]]
               /\ \A j \in DOMAIN r : j < i /\ r[j][1] = r[i][1] => r[i][2] > r[j][2]
    BY <1>1, <2>2
  <2> USE DEF r
  <2> QED
    BY <2>1, <2>3 DEF EventsInOrder
<1>5. ASSUME NEW t \in Ids \ overflowed, NEW i \in DOMAIN queue'[t],
             NEW a, a = queue'[t][i][1], a # MetricsThread, Before(t, a, i)' # {}
      PROVE  queue'[t][i][2] - 1 \in Before(t, a, i)'
  <2>1. CASE t # s
    <3>1. \A p, k : Before(t, p, k)' = Before(t, p, k)
      BY <1>1, <2>1 DEF Before
    <3>2. queue'[t] = queue[t]
      BY <1>1, <2>1
    <3>3. Before(t, a, i) # {} /\ i \in DOMAIN queue[t] /\ a = queue[t][i][1]
      BY <1>5, <3>1, <3>2
    <3>4. queue[t][i][2] - 1 \in Before(t, a, i)
      BY <1>5, <3>3 DEF OnlyFullQueuesLose
    <3> QED
      BY <3>1, <3>2, <3>4
  <2>2. CASE t = s
    <3> HIDE DEF m
    <3>1. i \in 1..m /\ r[i] = q[i + 1] /\ i + 1 \in DOMAIN q /\ 1 \in DOMAIN q /\ 1 < i + 1
      <4>1. i \in 1..m
        BY <1>1, <1>5, <2>2
      <4>2. r[i] = q[i + 1] /\ i + 1 \in DOMAIN q
        BY <1>1, <4>1
      <4>3. i \in Nat \ {0} /\ m \in Nat /\ i <= m
        BY <1>m, <4>1
      <4>4. 1 \in DOMAIN q /\ 1 < i + 1
        <5>1. DOMAIN q = 1..(m + 1)
          BY <1>1, <1>m
        <5> HIDE DEF q, r
        <5> QED
          BY <4>3, <5>1
      <4> QED
        BY <4>1, <4>2, <4>4
    <3> DEFINE n == q[i + 1][2]
    <3>2. a = q[i + 1][1] /\ a \in Publishers /\ n \in Nat \ {0}
      BY <1>5, <2>2, <3>1, QueuedFacts
    <3> HIDE DEF n, r
    <3>3. ASSUME NEW k \in Nat
          PROVE  k \in Before(s, a, i)' <=>
                   \/ k = last'[s][a] /\ k # 0
                   \/ \E j \in 1..m : j < i /\ q[j + 1][1] = a /\ k = q[j + 1][2]
      <4>1. k \in Before(s, a, i)' <=>
              \/ k = last'[s][a] /\ k # 0
              \/ \E j \in DOMAIN r : j < i /\ r[j][1] = a /\ k = r[j][2]
        BY DEF Before, r
      <4>2. DOMAIN r = 1..m /\ \A j \in 1..m : r[j] = q[j + 1]
        BY <1>1
      <4> QED
        BY <4>1, <4>2
    <3>4. ASSUME NEW k \in Nat
          PROVE  k \in Before(s, a, i + 1) <=>
                   \/ k = last[s][a] /\ k # 0
                   \/ \E j \in 1..Len(q) : j < i + 1 /\ q[j][1] = a /\ k = q[j][2]
      BY <1>1 DEF Before
    <3>5. Before(s, a, i + 1) # {}
      <4>1. PICK k : k \in Before(s, a, i)'
        BY <1>5, <2>2, <3>1
      <4>2. \/ k = last'[s][a] /\ k # 0
            \/ \E j \in 1..m : j < i /\ q[j + 1][1] = a /\ k = q[j + 1][2]
        BY <1>1, <4>1 DEF Before, r
      <4>3. CASE a = q[1][1]
        BY <1>1, <3>1, <3>4, <4>3
      <4>4. CASE a # q[1][1] /\ k = last'[s][a] /\ k # 0
        <5>1. k = last[s][a]
          BY <1>1, <3>2, <4>4
        <5>2. last[s][a] \in Nat
          BY <3>2 DEF TypeOK
        <5> QED
          BY <3>4, <4>4, <5>1, <5>2
      <4>5. CASE \E j \in 1..m : j < i /\ q[j + 1][1] = a /\ k = q[j + 1][2]
        <5>1. PICK j \in 1..m : j < i /\ q[j + 1][1] = a /\ k = q[j + 1][2]
          BY <4>5
        <5>2. j + 1 \in 1..Len(q) /\ j + 1 < i + 1
          BY <1>1, <5>1, <3>1
        <5>3. q[j + 1][2] \in Nat
          BY <1>1, <5>2, QueuedFacts
        <5> QED
          BY <3>4, <5>1, <5>2, <5>3
      <4> QED
        BY <4>2, <4>3, <4>4, <4>5
    <3>6. n - 1 \in Before(s, a, i + 1)
      BY <1>5, <2>2, <3>1, <3>2, <3>5 DEF OnlyFullQueuesLose, n
    <3>7. n - 1 \in Nat
      BY <3>2
    <3>8. n - 1 \in Before(s, a, i)'
      <4>1. CASE a = q[1][1]
        <5>1. n > q[1][2] /\ n - 1 # last[s][a]
          <6>1. n > q[1][2]
            BY <3>1, <3>2, <4>1 DEF EventsInOrder, n
          <6> QED
            BY <1>1, <3>2, <4>1, <6>1
        <5>2. PICK j \in 1..Len(q) : j < i + 1 /\ q[j][1] = a /\ n - 1 = q[j][2]
          BY <3>4, <3>6, <3>7, <5>1
        <5>3. CASE j = 1
          BY <1>1, <3>3, <3>7, <4>1, <5>2, <5>3
        <5>4. CASE j # 1
          <6>1. j - 1 \in 1..m /\ j - 1 < i /\ (j - 1) + 1 = j
            BY <1>1, <3>1, <5>2, <5>4, <1>m
          <6> QED
            BY <3>3, <3>7, <5>2, <6>1
        <5> QED
          BY <5>3, <5>4
      <4>2. CASE a # q[1][1]
        <5>1. CASE n - 1 = last[s][a] /\ n - 1 # 0
          BY <1>1, <3>2, <3>3, <3>7, <4>2, <5>1
        <5>2. CASE \E j \in 1..Len(q) : j < i + 1 /\ q[j][1] = a /\ n - 1 = q[j][2]
          <6>1. PICK j \in 1..Len(q) : j < i + 1 /\ q[j][1] = a /\ n - 1 = q[j][2]
            BY <5>2
          <6>2. j - 1 \in 1..m /\ j - 1 < i /\ (j - 1) + 1 = j
            BY <1>1, <3>1, <4>2, <6>1, <1>m
          <6> QED
            BY <3>3, <3>7, <6>1, <6>2
        <5> QED
          BY <3>4, <3>6, <3>7, <5>1, <5>2
      <4> QED
        BY <4>1, <4>2
    <3> QED
      BY <1>1, <2>2, <3>1, <3>8 DEF n, r
  <2> QED
    BY <2>1, <2>2
<1>6. OnlyFullQueuesLose'
  BY <1>2, <1>5 DEF OnlyFullQueuesLose
<1> QED
  BY <1>3, <1>4, <1>6

(* The watcher of s takes an event. *)
LEMMA PopFrontKeeps ==
  ASSUME HubInv, NEW s \in Ids, reader[s] \in {"busy", "notified", "timed_out"}, PopFront(s)
  PROVE  HubInv'
<1> USE DEF HubInv
<1> DEFINE q == queue[s]
           p == q[1][1]
<1>1. Takes(s) /\ UNCHANGED << hub, closed, publisher, overflowed >>
      /\ reader' = [reader EXCEPT ![s] = "busy"]
  BY DEF PopFront, Takes, hub, Turn
<1>2. /\ queue' \in [Ids -> Seq(Events)] /\ last' \in [Ids -> [Publishers -> Nat]]
      /\ \A t \in Ids : t # s => queue'[t] = queue[t] /\ last'[t] = last[t]
      /\ p \in Publishers /\ q[1][2] > last[s][p] /\ Len(q) \in Nat \ {0} /\ DOMAIN q = 1..Len(q)
      /\ q[1][2] \in Nat \ {0} /\ last[s][p] \in Nat
  BY <1>1, TakesFacts
<1>3. Got(s, p, q[1][2])
  BY <1>2, QueuedFacts
<1> HIDE DEF q, p
<1>4. TypeOK'
  BY <1>1, <1>2 DEF TypeOK, Events, hub, publisher
<1>5. QueuesAreBounded' /\ EventsInOrder' /\ OnlyFullQueuesLose'
  BY <1>1, TakesKeepsOrder
<1>6. NobodyLeft' /\ SnapshotIsNewest'
  BY <1>1 DEF NobodyLeft, SnapshotIsNewest, hub, publisher
<1>7. \A t \in Ids, a \in Publishers : Owes(a, t)' <=> Owes(a, t)
  BY <1>1, OwesStays DEF publisher
<1>8. \A t \in Ids, a \in Publishers, n \in Nat :
        /\ Got(t, a, n)' => Got(t, a, n)
        /\ Got(t, a, n) => Got(t, a, n)' \/ (t = s /\ a = p /\ n = last[s][p])
  BY <1>1, TakesGot DEF p, q
<1>9. Numbered'
  BY <1>1, <1>7, <1>8 DEF Numbered, publisher
<1>10. UpToDate'
  <2> SUFFICES ASSUME NEW t \in Ids \ overflowed, NEW a \in Publishers \ {MetricsThread},
                      t \in subscribers \cup targets[a], NEW n \in Nat \ {0}, Got(t, a, n)'
               PROVE  Got(t, a, IF Owes(a, t) THEN published[a] - 1 ELSE published[a])'
    BY <1>1, <1>7 DEF UpToDate, hub, publisher
  <2> DEFINE newest == IF Owes(a, t) THEN published[a] - 1 ELSE published[a]
  <2>1. Got(t, a, n) /\ published[a] \in Nat
    BY <1>8 DEF TypeOK
  <2>2. Got(t, a, newest)
    BY <2>1 DEF UpToDate
  <2>3. n <= published[a] /\ (Owes(a, t) => n < published[a])
    BY <2>1 DEF Numbered
  <2>4. newest \in Nat
    BY <2>1, <2>3
  <2>5. ~(t = s /\ a = p /\ newest = last[s][p])
    <3> SUFFICES ASSUME t = s, a = p, newest = last[s][p] PROVE FALSE
      OBVIOUS
    <3>1. q[1][2] <= published[a] /\ (Owes(a, t) => q[1][2] < published[a])
      BY <1>2, <1>3 DEF Numbered
    <3> QED
      BY <1>2, <2>1, <3>1
  <2>6. Got(t, a, newest)'
    <3> HIDE DEF newest
    <3>1. newest' = newest
      BY <1>1, <1>7 DEF newest, publisher
    <3>2. \A k \in Nat : Got(t, a, k) /\ ~(t = s /\ a = p /\ k = last[s][p]) => Got(t, a, k)'
      BY <1>8
    <3>3. PICK k \in Nat : k = newest
      BY <2>4
    <3>4. Got(t, a, k)'
      BY <2>2, <2>5, <3>2, <3>3
    <3>5. Got(t, a, k)' <=> Got(t, a, newest)'
      BY <3>1, <3>3 DEF Got
    <3> QED
      BY <3>4, <3>5
  <2> QED
    BY <2>6
<1>11. IdsAreFresh'
  <2> SUFFICES ASSUME NEW t \in Ids
               PROVE  /\ t >= next_subscriber_id =>
                           /\ reader'[t] = "none" /\ queue'[t] = <<>> /\ t \notin subscribers
                           /\ \A a \in Publishers : t \notin targets[a] /\ last'[t][a] = 0
                      /\ t \in subscribers => reader'[t] \notin {"closing", "gone"}
                      /\ closed[t] => reader'[t] = "gone"
    BY <1>1 DEF IdsAreFresh, hub, publisher
  <2>1. /\ t >= next_subscriber_id =>
             /\ reader[t] = "none" /\ queue[t] = <<>> /\ t \notin subscribers
             /\ \A a \in Publishers : t \notin targets[a] /\ last[t][a] = 0
        /\ t \in subscribers => reader[t] \notin {"closing", "gone"}
        /\ closed[t] => reader[t] = "gone"
    BY DEF IdsAreFresh
  <2>2. CASE t = s
    BY <1>1, <2>1, <2>2 DEF TypeOK
  <2>3. CASE t # s
    BY <1>1, <1>2, <2>1, <2>3 DEF TypeOK
  <2> QED
    BY <2>2, <2>3
<1> QED
  BY <1>4, <1>5, <1>6, <1>9, <1>10, <1>11

-----------------------------------------------------------------------------
(* Event n of p is queued for s, which is owed it: the newest of p.        *)
Gives(p, s) ==
  /\ pc[p] = "push" /\ s \in targets[p] /\ s \in Ids
  /\ Enqueue(p, s)
  /\ UNCHANGED << published, last >>

(* What a push does to a queue: the replaced snapshot and the event that   *)
(* did not fit leave it, the new event ends it.                            *)
LEMMA GivesFacts ==
  ASSUME HubInv, NEW p \in Publishers, NEW s, Gives(p, s)
  PROVE  /\ queue' \in [Ids -> Seq(Events)] /\ overflowed' \in SUBSET Ids
         /\ overflowed \subseteq overflowed' /\ overflowed' \subseteq overflowed \cup {s}
         /\ \A t \in Ids : t # s => queue'[t] = queue[t]
         /\ queue[s] \in Seq(Events) /\ DOMAIN queue[s] = 1..Len(queue[s]) /\ Len(queue[s]) \in Nat
         /\ Len(queue'[s]) \in Nat \ {0} /\ DOMAIN queue'[s] = 1..Len(queue'[s])
         /\ Len(queue'[s]) <= Capacity
         /\ published[p] \in Nat /\ queue'[s][Len(queue'[s])] = << p, published[p] >>
         /\ \E h : /\ Extends(queue'[s], queue[s], << p, published[p] >>, h)
                   /\ p = MetricsThread =>
                        \A i \in 1..(Len(queue'[s]) - 1) : queue'[s][i][1] # MetricsThread
                   /\ s \notin overflowed' =>
                        \A k \in DOMAIN queue[s] : queue[s][k][1] # MetricsThread =>
                          \E i \in 1..(Len(queue'[s]) - 1) : h[i] = k
<1> USE DEF HubInv
<1> DEFINE q == queue[s]
           c == Coalesced(p, s)
           e == << p, published[p] >>
           r == Append(Fitting(c), e)
<1>1. s \in Ids /\ published[p] \in Nat /\ e \in Events /\ q \in Seq(Events)
      /\ queue \in [Ids -> Seq(Events)] /\ overflowed \in SUBSET Ids
  BY DEF Gives, TypeOK, Events
<1>2. DOMAIN q = 1..Len(q) /\ Len(q) \in Nat
  BY <1>1, LenProperties
<1>3. /\ queue' = [queue EXCEPT ![s] = r]
      /\ overflowed' = IF Len(c) >= Capacity THEN overflowed \cup {s} ELSE overflowed
  BY DEF Gives, Enqueue
<1>4. c \in Seq(Events) /\ Len(c) \in Nat
  BY <1>1, CoalescedFacts, LenProperties
<1>5. /\ Len(r) <= Capacity
      /\ \E h : /\ Extends(r, q, e, h)
                /\ p = MetricsThread => \A i \in 1..(Len(r) - 1) : r[i][1] # MetricsThread
                /\ Len(c) < Capacity =>
                     \A k \in DOMAIN q : q[k][1] # MetricsThread =>
                       \E i \in 1..(Len(r) - 1) : h[i] = k
  BY <1>1, PushedFacts
<1> HIDE DEF q, c, e, r
<1>6. r \in Seq(Events) /\ Len(r) >= 1 /\ r[Len(r)] = e
  BY <1>5 DEF Extends
<1>7. Len(r) \in Nat \ {0} /\ DOMAIN r = 1..Len(r)
  BY <1>6, LenProperties
<1>8. queue'[s] = r /\ queue' \in [Ids -> Seq(Events)]
      /\ \A t \in Ids : t # s => queue'[t] = queue[t]
  BY <1>1, <1>3, <1>6
<1>9. overflowed' \in SUBSET Ids /\ overflowed \subseteq overflowed' /\ overflowed' \subseteq overflowed \cup {s}
  BY <1>1, <1>3
<1>10. s \notin overflowed' => Len(c) < Capacity
  BY <1>3, <1>4, CapacityAssumption
<1>11. \E h : /\ Extends(r, q, e, h)
              /\ p = MetricsThread => \A i \in 1..(Len(r) - 1) : r[i][1] # MetricsThread
              /\ s \notin overflowed' =>
                   \A k \in DOMAIN q : q[k][1] # MetricsThread =>
                     \E i \in 1..(Len(r) - 1) : h[i] = k
  BY <1>5, <1>10
<1> QED
  BY <1>1, <1>2, <1>5, <1>6, <1>7, <1>8, <1>9, <1>11 DEF q, e

(* What s had of a publisher it still has, except for metrics and unless   *)
(* its queue overflowed; it gets nothing but the newest event of p.        *)
LEMMA GivesGot ==
  ASSUME HubInv, NEW p \in Publishers, NEW s, Gives(p, s),
         NEW t \in Ids, NEW a \in Publishers, NEW n \in Nat
  PROVE  /\ Got(s, p, published[p])'
         /\ Got(t, a, n)' => Got(t, a, n) \/ (t = s /\ a = p /\ n = published[p])
         /\ (t # s \/ (a # MetricsThread /\ s \notin overflowed')) =>
              (Got(t, a, n) => Got(t, a, n)')
<1> DEFINE q == queue[s]
           r == queue'[s]
           e == << p, published[p] >>
<1>1. /\ \A u \in Ids : u # s => queue'[u] = queue[u]
      /\ q \in Seq(Events) /\ DOMAIN q = 1..Len(q) /\ Len(q) \in Nat
      /\ Len(r) \in Nat \ {0} /\ DOMAIN r = 1..Len(r) /\ r[Len(r)] = e
  BY GivesFacts
<1>2. PICK h : /\ Extends(r, q, e, h)
               /\ s \notin overflowed' =>
                    \A k \in DOMAIN q : q[k][1] # MetricsThread => \E i \in 1..(Len(r) - 1) : h[i] = k
  BY GivesFacts
<1>3. last' = last /\ published' = published
  BY DEF Gives
<1>4. /\ h \in [1..(Len(r) - 1) -> DOMAIN q]
      /\ \A i \in 1..(Len(r) - 1) : r[i] = q[h[i]]
  BY <1>2 DEF Extends
<1>5. Got(s, p, published[p])'
  BY <1>1, <1>3 DEF Got
<1>6. CASE t # s
  BY <1>1, <1>3, <1>5, <1>6 DEF Got
<1>7. CASE t = s
  <2>1. ASSUME Got(s, a, n)' PROVE Got(s, a, n) \/ (a = p /\ n = published[p])
    <3>1. CASE last[s][a] = n
      BY <3>1 DEF Got
    <3>2. CASE \E i \in DOMAIN r : r[i] = << a, n >>
      <4>1. PICK i \in 1..Len(r) : r[i] = << a, n >>
        BY <1>1, <3>2
      <4>2. CASE i = Len(r)
        BY <1>1, <4>1, <4>2
      <4>3. CASE i # Len(r)
        <5>1. i \in 1..(Len(r) - 1)
          BY <1>1, <4>1, <4>3
        <5>2. h[i] \in DOMAIN q /\ q[h[i]] = << a, n >>
          BY <1>4, <4>1, <5>1
        <5> QED
          BY <5>2 DEF Got
      <4> QED
        BY <4>2, <4>3
    <3> QED
      BY <1>3, <2>1, <3>1, <3>2 DEF Got
  <2>2. ASSUME a # MetricsThread, s \notin overflowed', Got(s, a, n)
        PROVE  Got(s, a, n)'
    <3>1. CASE last[s][a] = n
      BY <1>3, <3>1 DEF Got
    <3>2. CASE \E i \in DOMAIN q : q[i] = << a, n >>
      <4>1. PICK k \in DOMAIN q : q[k] = << a, n >>
        BY <3>2
      <4>2. PICK i \in 1..(Len(r) - 1) : h[i] = k
        BY <1>2, <2>2, <4>1
      <4>3. i \in DOMAIN r /\ r[i] = << a, n >>
        BY <1>1, <1>4, <4>1, <4>2
      <4> QED
        BY <4>3 DEF Got
    <3> QED
      BY <2>2, <3>1, <3>2 DEF Got
  <2> QED
    BY <1>5, <1>7, <2>1, <2>2
<1> QED
  BY <1>6, <1>7

(* A push keeps the queue bounded and every publisher's events in order,   *)
(* and loses events only of a full queue.                                  *)
LEMMA GivesKeepsOrder ==
  ASSUME HubInv, NEW p \in Publishers, NEW s, Gives(p, s)
  PROVE  QueuesAreBounded' /\ EventsInOrder' /\ OnlyFullQueuesLose'
<1> USE DEF HubInv
<1> DEFINE q == queue[s]
           r == queue'[s]
           e == << p, published[p] >>
           m == Len(r) - 1
<1>1. /\ s \in Ids /\ \A t \in Ids : t # s => queue'[t] = queue[t]
      /\ q \in Seq(Events) /\ DOMAIN q = 1..Len(q) /\ Len(q) \in Nat
      /\ Len(r) \in Nat \ {0} /\ DOMAIN r = 1..Len(r) /\ r[Len(r)] = e
      /\ Len(r) <= Capacity /\ published[p] \in Nat
      /\ overflowed \subseteq overflowed' /\ overflowed' \subseteq overflowed \cup {s}
  BY GivesFacts DEF Gives
<1>2. PICK h : /\ Extends(r, q, e, h)
               /\ p = MetricsThread => \A i \in 1..(Len(r) - 1) : r[i][1] # MetricsThread
               /\ s \notin overflowed' =>
                    \A k \in DOMAIN q : q[k][1] # MetricsThread => \E i \in 1..(Len(r) - 1) : h[i] = k
  BY GivesFacts
<1>3. last' = last /\ published' = published /\ last \in [Ids -> [Publishers -> Nat]]
  BY DEF Gives, TypeOK
<1>4. m \in Nat /\ Len(r) = m + 1 /\ DOMAIN r = 1..(m + 1) /\ r[m + 1] = e
  BY <1>1
<1>5. /\ h \in [1..m -> DOMAIN q]
      /\ \A i \in 1..m : r[i] = q[h[i]]
      /\ \A i, j \in 1..m : i < j => h[i] < h[j]
      /\ p = MetricsThread => \A i \in 1..m : r[i][1] # MetricsThread
      /\ s \notin overflowed' =>
                    \A k \in DOMAIN q : q[k][1] # MetricsThread => \E i \in 1..m : h[i] = k
  BY <1>2 DEF Extends
<1>6. Owes(p, s)
  BY DEF Gives, Owes
<1>7. \A n \in Nat : Got(s, p, n) => n < published[p]
  BY <1>1, <1>6 DEF Numbered
<1>8. \A i \in 1..m : h[i] \in 1..Len(q)
  BY <1>1, <1>5
<1> HIDE DEF m, r, q, e
<1>9. QueuesAreBounded'
  <2>1. ASSUME NEW t \in Ids, t # s
        PROVE  Len(queue'[t]) <= Capacity /\ \A i, j \in MetricsAt(t)' : i = j
    BY <1>1, <2>1 DEF QueuesAreBounded, MetricsAt
  <2>2. ASSUME NEW i \in MetricsAt(s)', NEW j \in MetricsAt(s)' PROVE i = j
    <3>1. i \in 1..(m + 1) /\ j \in 1..(m + 1) /\ r[i][1] = MetricsThread /\ r[j][1] = MetricsThread
      BY <1>4 DEF MetricsAt, r
    <3>2. CASE p = MetricsThread
      BY <1>4, <1>5, <3>1, <3>2
    <3>3. CASE p # MetricsThread
      <4>1. i # m + 1 /\ j # m + 1
        BY <1>4, <3>1, <3>3 DEF e
      <4>2. i \in 1..m /\ j \in 1..m
        BY <1>4, <3>1, <4>1
      <4>3. h[i] \in MetricsAt(s) /\ h[j] \in MetricsAt(s)
        BY <1>5, <3>1, <4>2 DEF MetricsAt, q
      <4>4. h[i] = h[j]
        BY <1>1, <4>3 DEF QueuesAreBounded
      <4>5. h[i] \in Int
        BY <1>8, <4>2
      <4> QED
        BY <1>5, <4>2, <4>4, <4>5
    <3> QED
      BY <3>2, <3>3
  <2> QED
    BY <1>1, <2>1, <2>2 DEF QueuesAreBounded, r
<1>10. EventsInOrder'
  <2>1. ASSUME NEW t \in Ids, t # s, NEW i \in DOMAIN queue'[t]
        PROVE  /\ queue'[t][i][2] > last'[t][queue'[t][i][1]]
               /\ \A j \in DOMAIN queue'[t] :
                    j < i /\ queue'[t][j][1] = queue'[t][i][1] => queue'[t][i][2] > queue'[t][j][2]
    BY <1>1, <1>3, <2>1 DEF EventsInOrder
  <2>2. ASSUME NEW i \in DOMAIN r
        PROVE  /\ r[i][2] > last[s][r[i][1]]
               /\ \A j \in DOMAIN r : j < i /\ r[j][1] = r[i][1] => r[i][2] > r[j][2]
    <3>1. CASE i \in 1..m
      <4>1. r[i] = q[h[i]] /\ h[i] \in DOMAIN q
        BY <1>5, <3>1
      <4>2. r[i][2] > last[s][r[i][1]]
        BY <1>1, <4>1 DEF EventsInOrder, q
      <4>3. ASSUME NEW j \in DOMAIN r, j < i, r[j][1] = r[i][1] PROVE r[i][2] > r[j][2]
        <5>1. j \in 1..m
          BY <1>4, <3>1, <4>3
        <5>2. h[j] \in DOMAIN q /\ r[j] = q[h[j]] /\ h[j] < h[i]
          BY <1>5, <3>1, <4>3, <5>1
        <5> QED
          BY <1>1, <4>1, <4>3, <5>2 DEF EventsInOrder, q
      <4> QED
        BY <4>2, <4>3
    <3>2. CASE i = m + 1
      <4>1. r[i] = e /\ e[1] = p /\ e[2] = published[p]
        BY <1>4, <3>2 DEF e
      <4>2. Got(s, p, last[s][p]) /\ last[s][p] \in Nat
        BY <1>1, <1>3 DEF Got
      <4>3. last[s][p] < published[p]
        BY <1>7, <4>2
      <4>4. ASSUME NEW j \in DOMAIN r, j < i, r[j][1] = r[i][1] PROVE r[i][2] > r[j][2]
        <5>1. j \in 1..m
          BY <1>4, <3>2, <4>4
        <5>2. h[j] \in DOMAIN q /\ r[j] = q[h[j]]
          BY <1>5, <5>1
        <5>3. Got(s, q[h[j]][1], q[h[j]][2]) /\ q[h[j]][2] \in Nat
          BY <1>1, <5>2, QueuedFacts DEF q
        <5>4. q[h[j]][2] < published[p]
          BY <1>7, <4>1, <4>4, <5>2, <5>3
        <5> QED
          BY <1>1, <4>1, <5>2, <5>3, <5>4
      <4> QED
        BY <1>1, <4>1, <4>2, <4>3, <4>4
    <3> QED
      BY <1>4, <2>2, <3>1, <3>2
  <2> QED
    BY <1>3, <2>1, <2>2 DEF EventsInOrder, r
<1>11. ASSUME NEW t \in Ids \ overflowed', NEW i \in DOMAIN queue'[t],
              NEW a, a = queue'[t][i][1], a # MetricsThread, Before(t, a, i)' # {}
       PROVE  queue'[t][i][2] - 1 \in Before(t, a, i)'
  <2>1. CASE t # s
    <3>1. \A b, k : Before(t, b, k)' = Before(t, b, k)
      BY <1>1, <1>3, <2>1 DEF Before
    <3>2. queue'[t] = queue[t] /\ t \notin overflowed
      BY <1>1, <1>11, <2>1
    <3>3. Before(t, a, i) # {} /\ i \in DOMAIN queue[t] /\ a = queue[t][i][1]
      BY <1>11, <3>1, <3>2
    <3>4. queue[t][i][2] - 1 \in Before(t, a, i)
      BY <1>11, <3>2, <3>3 DEF OnlyFullQueuesLose
    <3> QED
      BY <3>1, <3>2, <3>4
  <2>2. CASE t = s
    <3>1. s \notin overflowed /\ s \notin overflowed' /\ i \in 1..(m + 1) /\ a = r[i][1]
      BY <1>1, <1>4, <1>11, <2>2 DEF r
    <3>2. \A k \in DOMAIN q : q[k][1] = a => \E j \in 1..m : h[j] = k
      BY <1>5, <1>11, <3>1
    <3>3. ASSUME NEW k
          PROVE  k \in Before(s, a, i)' <=>
                   \/ k = last[s][a] /\ k # 0
                   \/ \E j \in 1..(m + 1) : j < i /\ r[j][1] = a /\ k = r[j][2]
      <4>1. k \in Before(s, a, i)' <=>
              \/ k = last'[s][a] /\ k # 0
              \/ \E j \in DOMAIN r : j < i /\ r[j][1] = a /\ k = r[j][2]
        BY DEF Before, r
      <4> QED
        BY <1>3, <1>4, <4>1
    <3>4. ASSUME NEW k, NEW o
          PROVE  k \in Before(s, a, o) <=>
                   \/ k = last[s][a] /\ k # 0
                   \/ \E j \in DOMAIN q : j < o /\ q[j][1] = a /\ k = q[j][2]
      BY DEF Before, q
    <3>5. CASE i \in 1..m
      <4>1. h[i] \in DOMAIN q /\ r[i] = q[h[i]] /\ h[i] \in Int
        BY <1>5, <1>8, <3>5
      <4>2. ASSUME NEW k PROVE k \in Before(s, a, i)' <=> k \in Before(s, a, h[i])
        <5>1. ASSUME NEW j \in 1..(m + 1), j < i, r[j][1] = a
              PROVE  \E g \in DOMAIN q : g < h[i] /\ q[g][1] = a /\ r[j][2] = q[g][2]
          <6>1. j \in 1..m
            BY <1>4, <3>5, <5>1
          <6>2. h[j] \in DOMAIN q /\ h[j] < h[i] /\ r[j] = q[h[j]]
            BY <1>5, <3>5, <5>1, <6>1
          <6> QED
            BY <5>1, <6>2
        <5>2. ASSUME NEW g \in DOMAIN q, g < h[i], q[g][1] = a
              PROVE  \E j \in 1..(m + 1) : j < i /\ r[j][1] = a /\ q[g][2] = r[j][2]
          <6>1. PICK j \in 1..m : h[j] = g
            BY <3>2, <5>2
          <6>2. r[j] = q[g] /\ j \in 1..(m + 1)
            BY <1>4, <1>5, <6>1
          <6>3. j < i
            <7>1. ~(i < j) /\ i # j
              BY <1>1, <1>5, <3>5, <4>1, <5>2, <6>1
            <7> QED
              BY <1>4, <3>5, <6>1, <7>1
          <6> QED
            BY <5>2, <6>2, <6>3
        <5> QED
          BY <3>3, <3>4, <5>1, <5>2
      <4>3. Before(s, a, h[i]) # {} /\ q[h[i]][1] = a
        BY <1>11, <2>2, <3>1, <4>1, <4>2
      <4>4. q[h[i]][2] - 1 \in Before(s, a, h[i])
        BY <1>1, <1>11, <3>1, <4>1, <4>3 DEF OnlyFullQueuesLose, q
      <4> QED
        BY <2>2, <4>1, <4>2, <4>4 DEF r
    <3>6. CASE i = m + 1
      <4>1. a = p /\ queue'[s][i][2] = published[p]
        BY <1>4, <3>1, <3>6 DEF e, r
      <4>2. PICK k : k \in Before(s, a, i)'
        BY <1>11, <2>2
      <4>3. k \in Nat \ {0} /\ Got(s, p, k)
        <5>1. CASE k = last[s][a] /\ k # 0
          BY <1>1, <1>3, <4>1, <5>1 DEF Got
        <5>2. CASE \E j \in 1..(m + 1) : j < i /\ r[j][1] = a /\ k = r[j][2]
          <6>1. PICK j \in 1..(m + 1) : j < i /\ r[j][1] = a /\ k = r[j][2]
            BY <5>2
          <6>2. j \in 1..m
            BY <1>4, <3>6, <6>1
          <6>3. h[j] \in DOMAIN q /\ r[j] = q[h[j]]
            BY <1>5, <6>2
          <6>4. Got(s, q[h[j]][1], q[h[j]][2]) /\ q[h[j]][2] \in Nat \ {0}
            BY <1>1, <6>3, QueuedFacts DEF q
          <6> QED
            BY <4>1, <6>1, <6>3, <6>4
        <5> QED
          BY <3>3, <4>2, <5>1, <5>2
      <4>4. k < published[p]
        BY <1>7, <4>3
      <4>5. Got(s, p, published[p] - 1)
        <5>1. s \in subscribers \cup targets[p] /\ p \in Publishers \ {MetricsThread}
          BY <1>11, <4>1 DEF Gives
        <5>2. \E n \in Nat \ {0} : Got(s, p, n)
          BY <4>3
        <5> QED
          BY <1>1, <1>6, <3>1, <5>1, <5>2 DEF UpToDate
      <4>6. CASE last[s][p] = published[p] - 1
        BY <1>1, <3>3, <4>1, <4>3, <4>4, <4>6, <2>2
      <4>7. CASE \E g \in DOMAIN q : q[g] = << p, published[p] - 1 >>
        <5>1. PICK g \in DOMAIN q : q[g] = << p, published[p] - 1 >>
          BY <4>7
        <5>2. PICK j \in 1..m : h[j] = g
          BY <3>2, <4>1, <5>1
        <5>3. j \in 1..(m + 1) /\ j < i /\ r[j] = << p, published[p] - 1 >>
          BY <1>4, <1>5, <3>6, <5>1, <5>2
        <5> QED
          BY <3>3, <4>1, <5>3, <2>2
      <4> QED
        BY <4>5, <4>6, <4>7 DEF Got, q
    <3> QED
      BY <1>4, <3>1, <3>5, <3>6
  <2> QED
    BY <2>1, <2>2
<1>12. OnlyFullQueuesLose'
  BY <1>11 DEF OnlyFullQueuesLose
<1> QED
  BY <1>9, <1>10, <1>12

(* One target's turn in publish_, under that subscriber's lock.            *)
LEMMA PushKeeps ==
  ASSUME HubInv, NEW p \in Publishers, Push(p)
  PROVE  HubInv'
<1> USE DEF HubInv
<1>0. PICK s \in Ids : s = Nearest(p) /\ s \in targets[p]
  BY NearestIsTarget DEF Push, TypeOK
<1>1. /\ pc[p] = "push" /\ Enqueue(p, s) /\ pc' = [pc EXCEPT ![p] = "notify"]
      /\ UNCHANGED << hub, closed, published, targets, reader, last >>
  BY <1>0 DEF Push, Goto, watcher
<1>2. s \in targets[p] /\ s \in Ids
  BY <1>0
<1>3. Nearest(p)' = s
  BY <1>0, <1>1, NearestStays
<1>4. \A t : Owes(p, t) <=> t \in targets[p]
  BY <1>1 DEF Owes
<1>5. \A t : Owes(p, t)' <=> t \in targets[p] \ {s}
  BY <1>1, <1>3 DEF Owes, TypeOK
<1>6. \A a \in Publishers, t \in Ids : a # p => (Owes(a, t)' <=> Owes(a, t))
  <2>1. \A a \in Publishers : a # p => targets'[a] = targets[a] /\ pc'[a] = pc[a]
    BY <1>1 DEF TypeOK
  <2> QED
    BY <2>1, OwesStays
<1>7. Gives(p, s)
  BY <1>1, <1>2 DEF Gives
<1>8. /\ queue' \in [Ids -> Seq(Events)] /\ overflowed' \in SUBSET Ids
      /\ overflowed \subseteq overflowed' /\ published[p] \in Nat
      /\ \A t \in Ids : t # s => queue'[t] = queue[t]
      /\ overflowed' \subseteq overflowed \cup {s}
  BY <1>7, GivesFacts
<1>9. TypeOK'
  BY <1>1, <1>2, <1>8 DEF TypeOK, Events, hub
<1>10. QueuesAreBounded' /\ EventsInOrder' /\ OnlyFullQueuesLose'
  BY <1>7, GivesKeepsOrder
<1>11. NobodyLeft' /\ SnapshotIsNewest'
  BY <1>1 DEF NobodyLeft, SnapshotIsNewest, hub, TypeOK
<1>12. \A t \in Ids, a \in Publishers, n \in Nat :
         /\ Got(s, p, published[p])'
         /\ Got(t, a, n)' => Got(t, a, n) \/ (t = s /\ a = p /\ n = published[p])
         /\ (t # s \/ (a # MetricsThread /\ s \notin overflowed')) =>
              (Got(t, a, n) => Got(t, a, n)')
  BY <1>7, GivesGot
<1>13. Numbered'
  <2> SUFFICES ASSUME NEW t \in Ids, NEW a \in Publishers, NEW n \in Nat, Got(t, a, n)'
               PROVE  n <= published[a] /\ (Owes(a, t)' => n < published[a])
    BY <1>1 DEF Numbered
  <2>1. CASE Got(t, a, n)
    <3>1. n <= published[a] /\ (Owes(a, t) => n < published[a])
      BY <2>1 DEF Numbered
    <3>2. Owes(a, t)' => Owes(a, t)
      BY <1>4, <1>5, <1>6
    <3> QED
      BY <3>1, <3>2
  <2>2. CASE t = s /\ a = p /\ n = published[p]
    BY <1>5, <1>8, <2>2
  <2> QED
    BY <1>12, <2>1, <2>2
<1>14. UpToDate'
  <2> SUFFICES ASSUME NEW t \in Ids \ overflowed', NEW a \in Publishers \ {MetricsThread},
                      t \in subscribers \cup targets[a], NEW n \in Nat \ {0}, Got(t, a, n)'
               PROVE  Got(t, a, IF Owes(a, t) THEN published[a] - 1 ELSE published[a])'
    BY <1>1 DEF UpToDate, hub
  <2>1. published[a] \in Nat /\ published' = published
    BY <1>1 DEF TypeOK
  <2>2. CASE t = s /\ a = p
    <3>1. Got(t, a, published[a])'
      BY <1>2, <1>12, <2>1, <2>2
    <3>2. ~Owes(a, t)'
      BY <1>5, <2>2
    <3> QED
      BY <3>1, <3>2 DEF Got
  <2>3. CASE ~(t = s /\ a = p)
    <3>1. Owes(a, t)' <=> Owes(a, t)
      BY <1>4, <1>5, <1>6, <2>3
    <3>2. Got(t, a, n)
      BY <1>12, <2>3
    <3> DEFINE newest == IF Owes(a, t) THEN published[a] - 1 ELSE published[a]
    <3>3. Got(t, a, newest)
      BY <1>8, <3>2 DEF UpToDate
    <3>4. n <= published[a]
      BY <3>2 DEF Numbered
    <3>5. newest \in Nat
      BY <2>1, <3>4
    <3>6. newest' = newest
      BY <2>1, <3>1
    <3> HIDE DEF newest
    <3>7. PICK k \in Nat : k = newest
      BY <3>5
    <3>8. Got(t, a, k)'
      BY <1>12, <3>3, <3>7
    <3>9. Got(t, a, k)' <=> Got(t, a, newest)'
      BY <3>6, <3>7 DEF Got
    <3> QED
      BY <3>8, <3>9 DEF newest
  <2> QED
    BY <2>2, <2>3
<1>15. IdsAreFresh'
  <2> SUFFICES ASSUME NEW t \in Ids
               PROVE  t >= next_subscriber_id => queue'[t] = <<>>
    BY <1>1 DEF IdsAreFresh, hub
  <2>1. CASE t = s
    BY <1>2, <2>1 DEF IdsAreFresh
  <2>2. CASE t # s
    BY <1>8, <2>2 DEF IdsAreFresh
  <2> QED
    BY <2>1, <2>2
<1> QED
  BY <1>9, <1>10, <1>11, <1>13, <1>14, <1>15

(* A step that changes nothing.                                            *)
LEMMA UnchangedKeeps ==
  ASSUME HubInv, UNCHANGED vars
  PROVE  HubInv'
<1> USE DEF HubInv, vars, hub, publisher, watcher
<1>1. QueuesStay
  BY DEF QueuesStay
<1>2. TypeOK' /\ IdsAreFresh'
  BY DEF TypeOK, IdsAreFresh
<1>3. NobodyLeft' /\ Numbered' /\ UpToDate' /\ SnapshotIsNewest'
  BY <1>1, WatcherKeeps
<1> QED
  BY <1>1, <1>2, <1>3, QueuesStayFacts

(* Every step keeps the invariant, one lemma per step.                     *)
LEMMA HubInvIsInductive == HubInv /\ [Next]_vars => HubInv'
<1> SUFFICES ASSUME HubInv, [Next]_vars PROVE HubInv'
  OBVIOUS
<1>1. ASSUME NEW p \in Publishers, Publish(p) PROVE HubInv'
  BY <1>1, PublishKeeps
<1>2. ASSUME NEW p \in Publishers, Visit(p) PROVE HubInv'
  BY <1>2, CollectKeeps, PushKeeps, PassClosedKeeps, NotifyKeeps DEF Visit
<1>3. ASSUME NEW s \in Ids, Subscribe(s) PROVE HubInv'
  BY <1>3, SubscribeKeeps
<1>4. ASSUME NEW s \in Ids, PopFor(s) PROVE HubInv'
  <2>1. CASE PopFront(s)
    BY <1>4, <2>1, PopFrontKeeps DEF PopFor
  <2>2. CASE Waits(s)
    BY <2>2, WaitsKeeps
  <2> QED
    BY <1>4, <2>1, <2>2 DEF PopFor, Waits
<1>5. ASSUME NEW s \in Ids, WakeUp(s) PROVE HubInv'
  <2>1. Waits(s)
    BY <1>5 DEF WakeUp, Waits
  <2> QED
    BY <2>1, WaitsKeeps
<1>6. ASSUME NEW s \in Ids, Recheck(s) PROVE HubInv'
  <2>1. CASE PopFront(s)
    BY <1>6, <2>1, PopFrontKeeps DEF Recheck
  <2>2. CASE Waits(s)
    BY <2>2, WaitsKeeps
  <2> QED
    BY <1>6, <2>1, <2>2 DEF Recheck, Waits
<1>7. ASSUME NEW s \in Ids, Unsubscribe(s) \/ Close(s) PROVE HubInv'
  BY <1>7, UnsubscribeKeeps, CloseKeeps
<1>8. CASE UNCHANGED vars
  BY <1>8, UnchangedKeeps
<1> QED
  BY <1>1, <1>2, <1>3, <1>4, <1>5, <1>6, <1>7, <1>8 DEF Next

(* What the three parts of WatchersSeeTheNewest need holds always.         *)
THEOREM HubInvariantHolds == Spec => []HubInv
<1>1. Init => HubInv
  BY InitHolds
<1>2. HubInv /\ [Next]_vars => HubInv'
  BY HubInvIsInductive
<1> QED
  BY <1>1, <1>2, PTL DEF Spec

(* What a watcher gets. *)
THEOREM WatchersSeeTheNewestHolds == Spec => []WatchersSeeTheNewest
<1>1. HubInv => LatestIsLatest
  <2> SUFFICES ASSUME HubInv, NEW s \in Ids PROVE
                 /\ last[s][MetricsThread] <= latest_metrics
                 /\ \A i \in DOMAIN queue[s] :
                      queue[s][i][1] = MetricsThread => queue[s][i][2] <= latest_metrics
    BY DEF LatestIsLatest
  <2>1. latest_metrics = published[MetricsThread]
    BY DEF HubInv, SnapshotIsNewest
  <2>2. \A n \in Nat : Got(s, MetricsThread, n) => n <= latest_metrics
    BY <2>1, MetricsThreadAssumption DEF HubInv, Numbered
  <2>3. Got(s, MetricsThread, last[s][MetricsThread]) /\ last[s][MetricsThread] \in Nat
    BY MetricsThreadAssumption DEF HubInv, TypeOK, Got
  <2>4. ASSUME NEW i \in DOMAIN queue[s], queue[s][i][1] = MetricsThread
        PROVE  queue[s][i][2] <= latest_metrics
    BY <2>2, <2>4, QueuedFacts
  <2> QED
    BY <2>2, <2>3, <2>4
<1>2. HubInv => WatchersSeeTheNewest
  BY <1>1 DEF HubInv, WatchersSeeTheNewest
<1> QED
  BY <1>2, HubInvariantHolds, PTL

(* ClosedIsFinal (Subscription::close): a closed subscription stays        *)
(* closed, and its reader gets nothing more.                               *)
THEOREM ClosedIsFinalHolds == Spec => ClosedIsFinal
<1>1. HubInv /\ [Next]_vars => [\A s \in Ids : closed[s] => queue'[s] = queue[s]]_vars
  <2> SUFFICES ASSUME HubInv, Next, NEW s \in Ids, closed[s] PROVE queue'[s] = queue[s]
    BY DEF vars
  <2>0. reader[s] = "gone"
    BY DEF HubInv, IdsAreFresh
  <2>t. queue \in [Ids -> Seq(Publishers \X Nat)]
    BY DEF HubInv, TypeOK
  <2>1. ASSUME NEW p \in Publishers, Push(p) PROVE queue'[s] = queue[s]
    <3>1. Nearest(p) # s
      BY <2>1 DEF Push, Listening
    <3>2. queue' = [queue EXCEPT ![Nearest(p)] = Append(Fitting(Coalesced(p, Nearest(p))), << p, published[p] >>)]
      BY <2>1 DEF Push, Enqueue
    <3> QED
      BY <2>t, <3>1, <3>2
  <2>2. ASSUME NEW p \in Publishers, Publish(p) \/ Collect(p) \/ PassClosed(p) \/ Notify(p)
        PROVE  queue'[s] = queue[s]
    BY <2>2 DEF Publish, Collect, PassClosed, Notify
  <2>3. ASSUME NEW t \in Ids, PopFor(t) \/ Recheck(t) PROVE queue'[s] = queue[s]
    BY <2>0, <2>t, <2>3 DEF PopFor, Recheck, PopFront
  <2>4. ASSUME NEW t \in Ids, Subscribe(t) \/ WakeUp(t) \/ Unsubscribe(t) \/ Close(t)
        PROVE  queue'[s] = queue[s]
    BY <2>4 DEF Subscribe, WakeUp, Unsubscribe, Close
  <2> QED
    BY <2>1, <2>2, <2>3, <2>4 DEF Next, Visit
<1> QED
  BY <1>1, HubInvariantHolds, PTL DEF Spec, ClosedIsFinal
===============================================================================
