------------------------- MODULE PipelineRuntimeProofs -------------------------
(***************************************************************************)
(* For any pools, streams, anonymizers and queues: the types and the       *)
(* safety properties of PipelineRuntime.                                   *)
(***************************************************************************)
EXTENDS PipelineRuntime, TLAPS

(* Threads exist from start() to the joins of stop(). *)
Life ==
  /\ stages <=> pc \notin {"new", "done"}
  /\ pc \in {"new", "pools"} => \A th \in Threads \ PoolThreads : at[th] = "none"
  /\ pc = "new" => \A th \in PoolThreads : at[th] = "none"
  /\ pc = "streams" => \A s \in todo : at[<<"encoder", s>>] = "none"
  /\ pc \in {"clear", "done"} => \A th \in Threads : at[th] \in {"none", "failed", "ended"}

(* What a thread has in hand at each place. *)
InHand ==
  /\ \A w \in Workers :
       /\ hand[w] # None => at[<<"anonymizer", w>>] \in {"work", "ready"}
       /\ at[<<"anonymizer", w>>] \in {"work", "ready"} => hand[w] \in Frames
       /\ at[<<"anonymizer", w>>] = "ready" => hand[w] \in anonymized
  /\ \A s \in Streams :
       /\ result[s] # None => at[<<"encoder", s>>] = "work"
       /\ at[<<"encoder", s>>] = "work" => result[s] \in Results

(* A frame that left anonymizer_in is older than those of its stream that  *)
(* are in it or to be committed.                                           *)
Ahead(f) ==
  /\ f.id < committed[f.stream]
  /\ \A i \in 1 .. Len(anonymizer_in) :
       anonymizer_in[i].stream = f.stream => f.id < anonymizer_in[i].id

(* anonymizer_in holds a stream's frames in order. *)
Queued ==
  \A i \in 1 .. Len(anonymizer_in) :
    /\ anonymizer_in[i].id < committed[anonymizer_in[i].stream]
    /\ \A j \in 1 .. Len(anonymizer_in) :
         i < j /\ anonymizer_in[i].stream = anonymizer_in[j].stream
           => anonymizer_in[i].id < anonymizer_in[j].id

(* Frames pass the queue in order, and results go to their stream's encoder. *)
Passed ==
  /\ \A w \in Workers : hand[w] # None => Ahead(hand[w])
  /\ \A s \in Streams :
       /\ \A i \in 1 .. Len(encoder_in[s]) :
            encoder_in[s][i].frame.stream = s /\ Ahead(encoder_in[s][i].frame)
       /\ result[s] # None => result[s].frame.stream = s /\ Ahead(result[s].frame)
       /\ \A w \in Workers : last[s][w] # -1 => Ahead([stream |-> s, id |-> last[s][w]])

(* From the publisher back to the anonymizer, the frames of one stream and *)
(* one anonymizer are in order.                                            *)
Ordered ==
  \A s \in Streams, w \in Workers :
    /\ hand[w] # None /\ hand[w].stream = s =>
         /\ last[s][w] < hand[w].id
         /\ result[s] # None /\ result[s].by = w => result[s].frame.id < hand[w].id
         /\ \A i \in 1 .. Len(encoder_in[s]) :
              encoder_in[s][i].by = w => encoder_in[s][i].frame.id < hand[w].id
    /\ \A i \in 1 .. Len(encoder_in[s]) : encoder_in[s][i].by = w =>
         /\ last[s][w] < encoder_in[s][i].frame.id
         /\ result[s] # None /\ result[s].by = w =>
              result[s].frame.id < encoder_in[s][i].frame.id
         /\ \A j \in 1 .. Len(encoder_in[s]) :
              i < j /\ encoder_in[s][j].by = w
                => encoder_in[s][i].frame.id < encoder_in[s][j].frame.id
    /\ result[s] # None /\ result[s].by = w => last[s][w] < result[s].frame.id

(* The frames between the commit and the publisher. *)
Path == Queued /\ Passed /\ Ordered /\ OneHolder /\ OnlyAnonymizedLeaves

IInv == TypeOK /\ Life /\ InHand /\ RunningHasStreams /\ Path

-----------------------------------------------------------------------------
(* The items of r are those of q, or its last ones, in their order, and x. *)
Behind(r, q, x) ==
  /\ \A i \in 1 .. Len(r) : r[i] = x \/ \E a \in 1 .. Len(q) : r[i] = q[a]
  /\ \A i, j \in 1 .. Len(r) : i < j =>
       \E a \in 1 .. Len(q) :
         /\ r[i] = q[a]
         /\ r[j] = x \/ \E b \in 1 .. Len(q) : a < b /\ r[j] = q[b]

(* k items of q leave and x comes last. *)
LEMMA BehindAppended ==
  ASSUME NEW S, NEW q \in Seq(S), NEW x, NEW r \in Seq(S), NEW k \in {0, 1},
         k <= Len(q), Len(r) = Len(q) - k + 1,
         \A i \in 1 .. Len(q) - k : r[i] = q[i + k],
         r[Len(q) - k + 1] = x
  PROVE  Behind(r, q, x)
<1>1. ASSUME NEW i \in 1 .. Len(r), i # Len(r)
      PROVE  i + k \in 1 .. Len(q) /\ r[i] = q[i + k]
  BY <1>1
<1>2. r[Len(r)] = x
  OBVIOUS
<1>3. ASSUME NEW i \in 1 .. Len(r)
      PROVE  r[i] = x \/ \E a \in 1 .. Len(q) : r[i] = q[a]
  BY <1>1, <1>2
<1>4. ASSUME NEW i \in 1 .. Len(r), NEW j \in 1 .. Len(r), i < j
      PROVE  \E a \in 1 .. Len(q) :
               /\ r[i] = q[a]
               /\ r[j] = x \/ \E b \in 1 .. Len(q) : a < b /\ r[j] = q[b]
  <2>1. i + k \in 1 .. Len(q) /\ r[i] = q[i + k]
    BY <1>1, <1>4
  <2>2. CASE j = Len(r)
    BY <1>2, <2>1, <2>2
  <2>3. CASE j # Len(r)
    <3>1. j + k \in 1 .. Len(q) /\ r[j] = q[j + k] /\ i + k < j + k
      BY <1>1, <1>4, <2>3
    <3> QED
      BY <2>1, <3>1
  <2> QED
    BY <2>2, <2>3
<1> QED
  BY <1>3, <1>4 DEF Behind

(* A pushed item comes last, behind what the queue still has room for. *)
LEMMA PushedItems ==
  ASSUME NEW S, NEW q \in Seq(S), NEW x \in S, NEW c \in Nat \ {0}, stopped \in BOOLEAN
  PROVE  Pushed(q, x, c) \in Seq(S) /\ Behind(Pushed(q, x, c), q, x)
<1>1. CASE stopped
  <2>1. Pushed(q, x, c) = q
    BY <1>1 DEF Pushed
  <2>2. Behind(q, q, x)
    BY DEF Behind
  <2> QED
    BY <2>1, <2>2
<1>2. CASE ~stopped /\ Len(q) < c
  <2>1. Pushed(q, x, c) = Append(q, x)
    BY <1>2 DEF Pushed
  <2> DEFINE r == Append(q, x)
  <2>2. /\ r \in Seq(S) /\ Len(r) = Len(q) - 0 + 1
        /\ \A i \in 1 .. Len(q) - 0 : r[i] = q[i + 0]
        /\ r[Len(q) - 0 + 1] = x /\ 0 <= Len(q)
    OBVIOUS
  <2> HIDE DEF r
  <2>3. Behind(r, q, x)
    BY <2>2, BehindAppended
  <2> QED
    BY <2>1, <2>2, <2>3 DEF r
<1>3. CASE ~stopped /\ Len(q) >= c
  <2>1. q # <<>>
    BY <1>3
  <2>2. Pushed(q, x, c) = Append(Tail(q), x)
    BY <1>3 DEF Pushed
  <2>3. /\ Tail(q) \in Seq(S) /\ Len(Tail(q)) = Len(q) - 1
        /\ \A i \in 1 .. Len(q) - 1 : Tail(q)[i] = q[i + 1]
    BY <2>1
  <2> DEFINE r == Append(Tail(q), x)
  <2>4. /\ r \in Seq(S) /\ Len(r) = Len(q) - 1 + 1
        /\ \A i \in 1 .. Len(q) - 1 : r[i] = q[i + 1]
        /\ r[Len(q) - 1 + 1] = x /\ 1 <= Len(q)
    BY <2>1, <2>3
  <2> HIDE DEF r
  <2>5. Behind(r, q, x)
    BY <2>4, BehindAppended
  <2> QED
    BY <2>2, <2>4, <2>5 DEF r
<1> QED
  BY <1>1, <1>2, <1>3

(* What is popped came first, and the others move up. *)
LEMMA RestItems ==
  ASSUME NEW S, NEW q \in Seq(S), q # <<>>
  PROVE  /\ Head(q) \in S /\ Head(q) = q[1] /\ 1 \in 1 .. Len(q)
         /\ Rest(q) \in Seq(S) /\ Len(Rest(q)) = Len(q) - 1
         /\ \A i \in 1 .. Len(q) - 1 : Rest(q)[i] = q[i + 1]
  BY DEF Rest

(* Types are kept by every step. *)
LEMMA TypeStep ==
  ASSUME TypeOK, InHand, [Next]_vars
  PROVE  TypeOK'
<1> USE MaxFramesAssumption
    DEF TypeOK, InHand, lifecycle, path, PoolThreads, Anonymizers, Metrics, PipeThreads, Threads, Goto, Turn
<1>1. ASSUME FailEarly PROVE TypeOK'
  BY <1>1 DEF FailEarly
<1>2. ASSUME Prepare PROVE TypeOK'
  BY <1>2 DEF Prepare
<1>3. ASSUME NEW p \in Pools, StartPool(p) PROVE TypeOK'
  BY <1>3 DEF StartPool
<1>4. ASSUME FailPool PROVE TypeOK'
  BY <1>4 DEF FailPool
<1>5. ASSUME StartAnonymizers PROVE TypeOK'
  BY <1>5 DEF StartAnonymizers
<1>6. ASSUME NEW s \in Streams, StartStream(s) PROVE TypeOK'
  BY <1>6 DEF StartStream
<1>7. ASSUME NEW s \in Streams, SkipStream(s) PROVE TypeOK'
  BY <1>7 DEF SkipStream
<1>8. ASSUME EndStart PROVE TypeOK'
  BY <1>8 DEF EndStart, SomeStarted
<1>9. ASSUME StartNothing PROVE TypeOK'
  BY <1>9 DEF StartNothing
<1>10. ASSUME Stop PROVE TypeOK'
  BY <1>10 DEF Stop
<1>11. ASSUME Signal PROVE TypeOK'
  BY <1>11 DEF Signal, Signalled
<1>12. ASSUME StopQueues PROVE TypeOK'
  BY <1>12 DEF StopQueues
<1>13. ASSUME Join PROVE TypeOK'
  BY <1>13 DEF Join, Joined
<1>14. ASSUME Clear PROVE TypeOK'
  <2>1. encoder_in' = [s \in Streams |-> <<>>]
    BY <1>14 DEF Clear
  <2>2. encoder_in' \in [Streams -> Seq(Results)]
    BY <2>1
  <2> QED
    BY <1>14, <2>2 DEF Clear
<1>15. ASSUME NEW s \in Streams, OpenSource(s) PROVE TypeOK'
  BY <1>15 DEF OpenSource
<1>16. ASSUME NEW th \in Threads, Leave(th) PROVE TypeOK'
  BY <1>16 DEF Leave
<1>17. ASSUME NEW th \in Threads, Enter(th) PROVE TypeOK'
  BY <1>17 DEF Enter
<1>18. ASSUME NEW th \in Threads, EndBody(th) PROVE TypeOK'
  BY <1>18 DEF EndBody
<1>19. ASSUME NEW s \in Streams, Commit(s) PROVE TypeOK'
  <2>1. [stream |-> s, id |-> committed[s]] \in Frames
    BY <1>19 DEF Commit, Frames
  <2>2. anonymizer_in' \in Seq(Frames)
    BY <1>19, <2>1, PushedItems, AnonymizerCapacityAssumption DEF Commit
  <2> QED
    BY <1>19, <2>2 DEF Commit
<1>20. ASSUME NEW w \in Workers, TakeFrame(w) PROVE TypeOK'
  <2>1. Head(anonymizer_in) \in Frames /\ Rest(anonymizer_in) \in Seq(Frames)
    BY <1>20, RestItems DEF TakeFrame
  <2> QED
    BY <1>20, <2>1 DEF TakeFrame
<1>21. ASSUME NEW w \in Workers, Anonymize(w) PROVE TypeOK'
  <2>1. hand[w] \in Frames
    BY <1>21 DEF Anonymize
  <2> QED
    BY <1>21, <2>1 DEF Anonymize
<1>22. ASSUME NEW w \in Workers, SendResult(w) PROVE TypeOK'
  <2> DEFINE s == hand[w].stream
             x == [frame |-> hand[w], by |-> w]
  <2>1. hand[w] \in Frames
    BY <1>22 DEF SendResult, Sendable
  <2>2. s \in Streams /\ x \in Results
    BY <2>1 DEF Frames, Results
  <2>3. Pushed(encoder_in[s], x, EncoderCapacity) \in Seq(Results)
    BY <2>2, PushedItems, EncoderCapacityAssumption
  <2>4. encoder_in' = [encoder_in EXCEPT ![s] = Pushed(encoder_in[s], x, EncoderCapacity)]
    BY <1>22 DEF SendResult
  <2> QED
    BY <1>22, <2>2, <2>3, <2>4 DEF SendResult
<1>23. ASSUME NEW s \in Streams, TakeResult(s) PROVE TypeOK'
  <2>1. Head(encoder_in[s]) \in Results /\ Rest(encoder_in[s]) \in Seq(Results)
    BY <1>23, RestItems DEF TakeResult
  <2> QED
    BY <1>23, <2>1 DEF TakeResult
<1>24. ASSUME NEW s \in Streams, Publish(s) PROVE TypeOK'
  <2>1. result[s] \in Results
    BY <1>24 DEF Publish
  <2>2. result[s].by \in Workers /\ result[s].frame.id \in -1 .. MaxFrames - 1
    BY <2>1, MaxFramesAssumption DEF Results, Frames
  <2>3. last' \in [Streams -> [Workers -> -1 .. MaxFrames - 1]]
    BY <1>24, <2>2 DEF Publish
  <2> QED
    BY <1>24, <2>3 DEF Publish
<1>25. CASE UNCHANGED vars
  BY <1>25 DEF vars
<1> QED
  BY <1>1, <1>2, <1>3, <1>4, <1>5, <1>6, <1>7, <1>8, <1>9, <1>10, <1>11,
     <1>12, <1>13, <1>14, <1>15, <1>16, <1>17, <1>18, <1>19, <1>20, <1>21,
     <1>22, <1>23, <1>24, <1>25
  DEF Next, Main, Worker, Stream, Loop

(* Threads are started by start() alone, and stop() waits for all of them. *)
LEMMA LifeStep ==
  ASSUME TypeOK, Life, [Next]_vars
  PROVE  Life'
<1> USE DEF TypeOK, Life, lifecycle, path, PoolThreads, Anonymizers, Metrics, PipeThreads, Threads, Goto, Turn
<1>1. ASSUME FailEarly PROVE Life'
  BY <1>1 DEF FailEarly
<1>2. ASSUME Prepare PROVE Life'
  BY <1>2 DEF Prepare
<1>3. ASSUME NEW p \in Pools, StartPool(p) PROVE Life'
  BY <1>3 DEF StartPool
<1>4. ASSUME FailPool PROVE Life'
  BY <1>4 DEF FailPool
<1>5. ASSUME StartAnonymizers PROVE Life'
  BY <1>5 DEF StartAnonymizers
<1>6. ASSUME NEW s \in Streams, StartStream(s) PROVE Life'
  BY <1>6 DEF StartStream
<1>7. ASSUME NEW s \in Streams, SkipStream(s) PROVE Life'
  BY <1>7 DEF SkipStream
<1>8. ASSUME EndStart PROVE Life'
  BY <1>8 DEF EndStart, SomeStarted
<1>9. ASSUME StartNothing PROVE Life'
  BY <1>9 DEF StartNothing
<1>10. ASSUME Stop PROVE Life'
  BY <1>10 DEF Stop
<1>11. ASSUME Signal PROVE Life'
  BY <1>11 DEF Signal, Signalled
<1>12. ASSUME StopQueues PROVE Life'
  BY <1>12 DEF StopQueues
<1>13. ASSUME Join PROVE Life'
  BY <1>13 DEF Join, Joined
<1>14. ASSUME Clear PROVE Life'
  BY <1>14 DEF Clear
<1>15. ASSUME NEW s \in Streams, OpenSource(s) PROVE Life'
  BY <1>15 DEF OpenSource
<1>16. ASSUME NEW th \in Threads, Leave(th) PROVE Life'
  BY <1>16 DEF Leave
<1>17. ASSUME NEW th \in Threads, Enter(th) PROVE Life'
  BY <1>17 DEF Enter
<1>18. ASSUME NEW th \in Threads, EndBody(th) PROVE Life'
  BY <1>18 DEF EndBody
<1>19. ASSUME NEW s \in Streams, Commit(s) PROVE Life'
  BY <1>19 DEF Commit
<1>20. ASSUME NEW w \in Workers, TakeFrame(w) PROVE Life'
  BY <1>20 DEF TakeFrame
<1>21. ASSUME NEW w \in Workers, Anonymize(w) PROVE Life'
  BY <1>21 DEF Anonymize
<1>22. ASSUME NEW w \in Workers, SendResult(w) PROVE Life'
  BY <1>22 DEF SendResult, Sendable
<1>23. ASSUME NEW s \in Streams, TakeResult(s) PROVE Life'
  BY <1>23, ZenonT(60) DEF TakeResult
<1>24. ASSUME NEW s \in Streams, Publish(s) PROVE Life'
  BY <1>24, ZenonT(60) DEF Publish
<1>25. CASE UNCHANGED vars
  BY <1>25 DEF vars
<1> QED
  BY ZenonT(60), <1>1, <1>2, <1>3, <1>4, <1>5, <1>6, <1>7, <1>8, <1>9, <1>10, <1>11,
     <1>12, <1>13, <1>14, <1>15, <1>16, <1>17, <1>18, <1>19, <1>20, <1>21,
     <1>22, <1>23, <1>24, <1>25
  DEF Next, Main, Worker, Stream, Loop

(* A pipeline that runs has a stream that was started. *)
LEMMA RunningStep ==
  ASSUME TypeOK, RunningHasStreams, [Next]_vars
  PROVE  RunningHasStreams'
<1> USE DEF TypeOK, RunningHasStreams, Started, lifecycle, path,
            PoolThreads, Anonymizers, Metrics, PipeThreads, Threads, Goto, Turn
<1>1. ASSUME FailEarly PROVE RunningHasStreams'
  BY <1>1 DEF FailEarly
<1>2. ASSUME Prepare PROVE RunningHasStreams'
  BY <1>2 DEF Prepare
<1>3. ASSUME NEW p \in Pools, StartPool(p) PROVE RunningHasStreams'
  BY <1>3 DEF StartPool
<1>4. ASSUME FailPool PROVE RunningHasStreams'
  BY <1>4 DEF FailPool
<1>5. ASSUME StartAnonymizers PROVE RunningHasStreams'
  BY <1>5 DEF StartAnonymizers
<1>6. ASSUME NEW s \in Streams, StartStream(s) PROVE RunningHasStreams'
  BY <1>6 DEF StartStream
<1>7. ASSUME NEW s \in Streams, SkipStream(s) PROVE RunningHasStreams'
  BY <1>7 DEF SkipStream
<1>8. ASSUME EndStart PROVE RunningHasStreams'
  BY <1>8 DEF EndStart, SomeStarted
<1>9. ASSUME StartNothing PROVE RunningHasStreams'
  BY <1>9 DEF StartNothing
<1>10. ASSUME Stop PROVE RunningHasStreams'
  BY <1>10 DEF Stop
<1>11. ASSUME Signal PROVE RunningHasStreams'
  BY <1>11 DEF Signal, Signalled
<1>12. ASSUME StopQueues PROVE RunningHasStreams'
  BY <1>12 DEF StopQueues
<1>13. ASSUME Join PROVE RunningHasStreams'
  BY <1>13 DEF Join, Joined
<1>14. ASSUME Clear PROVE RunningHasStreams'
  BY <1>14 DEF Clear
<1>15. ASSUME NEW s \in Streams, OpenSource(s) PROVE RunningHasStreams'
  <2>1. pc' = pc
    BY <1>15 DEF OpenSource
  <2>2. \A u \in Streams : at[<<"coordinator", u>>] # "none" => at'[<<"coordinator", u>>] # "none"
    BY <1>15 DEF OpenSource
  <2> QED
    BY <2>1, <2>2
<1>16. ASSUME NEW th \in Threads, Leave(th) PROVE RunningHasStreams'
  <2>1. pc' = pc
    BY <1>16 DEF Leave
  <2>2. \A u \in Streams : at[<<"coordinator", u>>] # "none" => at'[<<"coordinator", u>>] # "none"
    BY <1>16 DEF Leave
  <2> QED
    BY <2>1, <2>2
<1>17. ASSUME NEW th \in Threads, Enter(th) PROVE RunningHasStreams'
  <2>1. pc' = pc
    BY <1>17 DEF Enter
  <2>2. \A u \in Streams : at[<<"coordinator", u>>] # "none" => at'[<<"coordinator", u>>] # "none"
    BY <1>17 DEF Enter
  <2> QED
    BY <2>1, <2>2
<1>18. ASSUME NEW th \in Threads, EndBody(th) PROVE RunningHasStreams'
  <2>1. pc' = pc
    BY <1>18 DEF EndBody
  <2>2. \A u \in Streams : at[<<"coordinator", u>>] # "none" => at'[<<"coordinator", u>>] # "none"
    BY <1>18 DEF EndBody
  <2> QED
    BY <2>1, <2>2
<1>19. ASSUME NEW s \in Streams, Commit(s) PROVE RunningHasStreams'
  BY <1>19 DEF Commit
<1>20. ASSUME NEW w \in Workers, TakeFrame(w) PROVE RunningHasStreams'
  <2>1. pc' = pc
    BY <1>20 DEF TakeFrame
  <2>2. \A u \in Streams : at[<<"coordinator", u>>] # "none" => at'[<<"coordinator", u>>] # "none"
    BY <1>20 DEF TakeFrame
  <2> QED
    BY <2>1, <2>2
<1>21. ASSUME NEW w \in Workers, Anonymize(w) PROVE RunningHasStreams'
  <2>1. pc' = pc
    BY <1>21 DEF Anonymize
  <2>2. \A u \in Streams : at[<<"coordinator", u>>] # "none" => at'[<<"coordinator", u>>] # "none"
    BY <1>21 DEF Anonymize
  <2> QED
    BY <2>1, <2>2
<1>22. ASSUME NEW w \in Workers, SendResult(w) PROVE RunningHasStreams'
  <2>1. pc' = pc
    BY <1>22 DEF SendResult
  <2>2. \A u \in Streams : at[<<"coordinator", u>>] # "none" => at'[<<"coordinator", u>>] # "none"
    BY <1>22 DEF SendResult, Sendable
  <2> QED
    BY <2>1, <2>2
<1>23. ASSUME NEW s \in Streams, TakeResult(s) PROVE RunningHasStreams'
  <2>1. pc' = pc
    BY <1>23 DEF TakeResult
  <2>2. \A u \in Streams : at'[<<"coordinator", u>>] = at[<<"coordinator", u>>]
    BY <1>23 DEF TakeResult
  <2> QED
    BY <2>1, <2>2
<1>24. ASSUME NEW s \in Streams, Publish(s) PROVE RunningHasStreams'
  <2>1. pc' = pc
    BY <1>24 DEF Publish
  <2>2. \A u \in Streams : at[<<"coordinator", u>>] # "none" => at'[<<"coordinator", u>>] # "none"
    BY <1>24 DEF Publish
  <2> QED
    BY <2>1, <2>2
<1>25. CASE UNCHANGED vars
  BY <1>25 DEF vars
<1> QED
  BY <1>1, <1>2, <1>3, <1>4, <1>5, <1>6, <1>7, <1>8, <1>9, <1>10, <1>11,
     <1>12, <1>13, <1>14, <1>15, <1>16, <1>17, <1>18, <1>19, <1>20, <1>21,
     <1>22, <1>23, <1>24, <1>25
  DEF Next, Main, Worker, Stream, Loop

(* A thread's place tells what it has in hand. *)
LEMMA InHandStep ==
  ASSUME TypeOK, TypeOK', Life, InHand, [Next]_vars
  PROVE  InHand'
<1> USE DEF TypeOK, Life, InHand, lifecycle, path, PoolThreads, Anonymizers, Metrics, PipeThreads, Threads, Goto, Turn, Bodies
<1>1. ASSUME FailEarly PROVE InHand'
  BY <1>1 DEF FailEarly
<1>2. ASSUME Prepare PROVE InHand'
  BY <1>2 DEF Prepare
<1>3. ASSUME NEW p \in Pools, StartPool(p) PROVE InHand'
  BY <1>3 DEF StartPool
<1>4. ASSUME FailPool PROVE InHand'
  BY <1>4 DEF FailPool
<1>5. ASSUME StartAnonymizers PROVE InHand'
  BY <1>5 DEF StartAnonymizers
<1>6. ASSUME NEW s \in Streams, StartStream(s) PROVE InHand'
  BY <1>6 DEF StartStream
<1>7. ASSUME NEW s \in Streams, SkipStream(s) PROVE InHand'
  BY <1>7 DEF SkipStream
<1>8. ASSUME EndStart PROVE InHand'
  BY <1>8 DEF EndStart, SomeStarted
<1>9. ASSUME StartNothing PROVE InHand'
  BY <1>9 DEF StartNothing
<1>10. ASSUME Stop PROVE InHand'
  BY <1>10 DEF Stop
<1>11. ASSUME Signal PROVE InHand'
  BY <1>11 DEF Signal, Signalled
<1>12. ASSUME StopQueues PROVE InHand'
  BY <1>12 DEF StopQueues
<1>13. ASSUME Join PROVE InHand'
  BY <1>13 DEF Join, Joined
<1>14. ASSUME Clear PROVE InHand'
  BY <1>14 DEF Clear
<1>15. ASSUME NEW s \in Streams, OpenSource(s) PROVE InHand'
  BY <1>15 DEF OpenSource
<1>16. ASSUME NEW th \in Threads, Leave(th) PROVE InHand'
  BY <1>16 DEF Leave
<1>17. ASSUME NEW th \in Threads, Enter(th) PROVE InHand'
  BY <1>17 DEF Enter
<1>18. ASSUME NEW th \in Threads, EndBody(th) PROVE InHand'
  BY <1>18 DEF EndBody
<1>19. ASSUME NEW s \in Streams, Commit(s) PROVE InHand'
  BY <1>19 DEF Commit
<1>20. ASSUME NEW w \in Workers, TakeFrame(w) PROVE InHand'
  <2>1. Head(anonymizer_in) \in Frames
    BY <1>20, RestItems DEF TakeFrame
  <2> QED
    BY <1>20, <2>1 DEF TakeFrame
<1>21. ASSUME NEW w \in Workers, Anonymize(w) PROVE InHand'
  BY <1>21 DEF Anonymize
<1>22. ASSUME NEW w \in Workers, SendResult(w) PROVE InHand'
  BY <1>22 DEF SendResult, Sendable
<1>23. ASSUME NEW s \in Streams, TakeResult(s) PROVE InHand'
  <2>1. Head(encoder_in[s]) \in Results
    BY <1>23, RestItems DEF TakeResult
  <2> QED
    BY <1>23, <2>1 DEF TakeResult
<1>24. ASSUME NEW s \in Streams, Publish(s) PROVE InHand'
  BY <1>24 DEF Publish
<1>25. CASE UNCHANGED vars
  BY <1>25 DEF vars
<1> QED
  BY <1>1, <1>2, <1>3, <1>4, <1>5, <1>6, <1>7, <1>8, <1>9, <1>10, <1>11,
     <1>12, <1>13, <1>14, <1>15, <1>16, <1>17, <1>18, <1>19, <1>20, <1>21,
     <1>22, <1>23, <1>24, <1>25
  DEF Next, Main, Worker, Stream, Loop

-----------------------------------------------------------------------------
(* The steps that move frames. *)
LEMMA PathSteps ==
  ASSUME [Next]_vars
  PROVE  \/ UNCHANGED path \/ Clear
         \/ \E s \in Streams : Commit(s) \/ TakeResult(s) \/ Publish(s)
         \/ \E w \in Workers : TakeFrame(w) \/ Anonymize(w) \/ SendResult(w)
<1>1. CASE Main \/ Stop
  BY <1>1 DEF Main, FailEarly, Prepare, StartPool, FailPool, StartAnonymizers, StartStream,
     SkipStream, EndStart, StartNothing, Stop, Signal, StopQueues, Join
<1>2. CASE \E s \in Streams : Stream(s)
  BY <1>2 DEF Stream, OpenSource
<1>3. CASE \E th \in Threads : Loop(th)
  BY <1>3 DEF Loop, Leave, Enter, EndBody
<1>4. CASE UNCHANGED vars
  BY <1>4 DEF vars
<1> QED
  BY <1>1, <1>2, <1>3, <1>4 DEF Next, Worker

(* A new frame is younger than everything in the path. *)
LEMMA CommitPath ==
  ASSUME TypeOK, TypeOK', Path, NEW s \in Streams, Commit(s)
  PROVE  Path'
<1> DEFINE f == [stream |-> s, id |-> committed[s]]
<1>1. /\ UNCHANGED <<encoder_in, hand, result, anonymized, last>>
      /\ committed' = [committed EXCEPT ![s] = @ + 1]
      /\ anonymizer_in' = Pushed(anonymizer_in, f, AnonymizerCapacity)
  BY DEF Commit
<1>2. f \in Frames /\ f.stream = s /\ f.id = committed[s]
  BY MaxFramesAssumption DEF Commit, Frames, TypeOK
<1> HIDE DEF f
<1>3. /\ \A i \in 1 .. Len(anonymizer_in') :
           \/ anonymizer_in'[i] = f
           \/ \E a \in 1 .. Len(anonymizer_in) : anonymizer_in'[i] = anonymizer_in[a]
      /\ \A i, j \in 1 .. Len(anonymizer_in') : i < j =>
           \E a \in 1 .. Len(anonymizer_in) :
             /\ anonymizer_in'[i] = anonymizer_in[a]
             /\ \/ anonymizer_in'[j] = f
                \/ \E b \in 1 .. Len(anonymizer_in) :
                     a < b /\ anonymizer_in'[j] = anonymizer_in[b]
  <2>1. anonymizer_in \in Seq(Frames) /\ stopped \in BOOLEAN
    BY DEF TypeOK
  <2>2. Behind(Pushed(anonymizer_in, f, AnonymizerCapacity), anonymizer_in, f)
    BY <1>2, <2>1, AnonymizerCapacityAssumption, PushedItems
  <2>3. Behind(anonymizer_in', anonymizer_in, f)
    BY <1>1, <2>2
  <2> QED
    BY <2>3 DEF Behind
<1>4. ASSUME NEW i \in 1 .. Len(anonymizer_in)
      PROVE  anonymizer_in[i].stream \in Streams /\ anonymizer_in[i].id \in Nat
  <2>1. anonymizer_in[i] \in Frames
    BY DEF TypeOK
  <2> QED
    BY <2>1, MaxFramesAssumption DEF Frames
<1>5. \A u \in Streams : committed[u] \in Nat
  BY MaxFramesAssumption DEF TypeOK
<1>6. ASSUME NEW g, g.stream \in Streams, g.id \in Int, Ahead(g)
      PROVE  /\ g.id < committed'[g.stream]
             /\ \A i \in 1 .. Len(anonymizer_in') :
                  anonymizer_in'[i].stream = g.stream => g.id < anonymizer_in'[i].id
  <2>1. g.id < committed[g.stream] /\ committed'[g.stream] >= committed[g.stream]
    BY <1>1, <1>5, <1>6 DEF Ahead, TypeOK
  <2>2. ASSUME NEW i \in 1 .. Len(anonymizer_in'), anonymizer_in'[i].stream = g.stream
        PROVE  g.id < anonymizer_in'[i].id
    <3>1. CASE anonymizer_in'[i] = f
      BY <1>2, <2>1, <2>2, <3>1
    <3>2. ASSUME NEW a \in 1 .. Len(anonymizer_in), anonymizer_in'[i] = anonymizer_in[a]
          PROVE  g.id < anonymizer_in'[i].id
      BY <1>6, <2>2, <3>2 DEF Ahead
    <3> QED
      BY <1>3, <3>1, <3>2
  <2>3. committed'[g.stream] \in Int
    BY <1>1, <1>5, <1>6 DEF TypeOK
  <2> QED
    BY <1>5, <1>6, <2>1, <2>2, <2>3
<1>7. Queued'
  <2>1. ASSUME NEW i \in 1 .. Len(anonymizer_in')
        PROVE  anonymizer_in'[i].id < committed'[anonymizer_in'[i].stream]
    <3>1. CASE anonymizer_in'[i] = f
      BY <1>1, <1>2, <1>5, <3>1 DEF TypeOK
    <3>2. ASSUME NEW a \in 1 .. Len(anonymizer_in), anonymizer_in'[i] = anonymizer_in[a]
          PROVE  anonymizer_in'[i].id < committed'[anonymizer_in'[i].stream]
      <4>1. anonymizer_in[a].id < committed[anonymizer_in[a].stream]
        BY DEF Path, Queued
      <4> QED
        BY <1>1, <1>4, <1>5, <3>2, <4>1 DEF TypeOK
    <3> QED
      BY <1>3, <3>1, <3>2
  <2>2. ASSUME NEW i \in 1 .. Len(anonymizer_in'), NEW j \in 1 .. Len(anonymizer_in'), i < j,
               anonymizer_in'[i].stream = anonymizer_in'[j].stream
        PROVE  anonymizer_in'[i].id < anonymizer_in'[j].id
    <3>1. PICK a \in 1 .. Len(anonymizer_in) :
            /\ anonymizer_in'[i] = anonymizer_in[a]
            /\ \/ anonymizer_in'[j] = f
               \/ \E b \in 1 .. Len(anonymizer_in) :
                    a < b /\ anonymizer_in'[j] = anonymizer_in[b]
      BY <1>3, <2>2
    <3>2. CASE anonymizer_in'[j] = f
      BY <1>2, <2>2, <3>1, <3>2 DEF Path, Queued
    <3>3. CASE \E b \in 1 .. Len(anonymizer_in) :
                 a < b /\ anonymizer_in'[j] = anonymizer_in[b]
      BY <2>2, <3>1, <3>3 DEF Path, Queued
    <3> QED
      BY <3>1, <3>2, <3>3
  <2> QED
    BY <2>1, <2>2 DEF Queued
<1>8. Passed'
  <2>1. ASSUME NEW w \in Workers, hand[w] # None PROVE Ahead(hand[w])'
    <3>1. hand[w].stream \in Streams /\ hand[w].id \in Int
      BY <2>1, SMTT(60) DEF TypeOK, Frames
    <3> QED
      BY <1>1, <1>6, <2>1, <3>1 DEF Path, Passed, Ahead
  <2>2. ASSUME NEW u \in Streams, NEW i \in 1 .. Len(encoder_in[u])
        PROVE encoder_in[u][i].frame.stream = u /\ Ahead(encoder_in[u][i].frame)'
    <3>1. encoder_in[u][i].frame.stream = u /\ encoder_in[u][i].frame.id \in Int
      <4>1. encoder_in[u] \in Seq(Results)
        BY DEF TypeOK
      <4>2. encoder_in[u][i] \in Results
        BY <4>1
      <4> QED
        BY <4>2 DEF Frames, Results, Path, Passed
    <3>2. Ahead(encoder_in[u][i].frame)
      BY <2>2, Zenon DEF Path, Passed
    <3> HIDE DEF Path
    <3> QED
      BY <1>1, <1>6, <3>1, <3>2 DEF Ahead
  <2>3. ASSUME NEW u \in Streams, result[u] # None
        PROVE result[u].frame.stream = u /\ Ahead(result[u].frame)'
    <3>1. result[u].frame.stream = u /\ result[u].frame.id \in Int
      BY <2>3 DEF TypeOK, Frames, Results, Path, Passed
    <3> QED
      BY <1>1, <1>6, <2>3, <3>1, ZenonT(60) DEF Path, Passed, Ahead
  <2>4. ASSUME NEW u \in Streams, NEW w \in Workers, last[u][w] # -1
        PROVE Ahead([stream |-> u, id |-> last[u][w]])'
    <3>1. last[u][w] \in Int
      BY <2>4, MaxFramesAssumption DEF TypeOK
    <3> QED
      BY <1>1, <1>6, <2>4, <3>1, ZenonT(60) DEF Path, Passed, Ahead
  <2> QED
    BY <1>1, <2>1, <2>2, <2>3, <2>4 DEF Passed
<1>9. Ordered'
  BY <1>1 DEF Path, Ordered
<1>10. OneHolder'
  <2>1. ASSUME NEW w \in Workers, hand[w] # None, NEW i \in 1 .. Len(anonymizer_in')
        PROVE  anonymizer_in'[i] # hand[w]
    <3>1. hand[w].id < committed[hand[w].stream] /\ hand[w].stream \in Streams /\ hand[w].id \in Int
      BY <2>1 DEF Path, Passed, Ahead, TypeOK, Frames
    <3> QED
      BY <1>2, <1>3, <1>5, <2>1, <3>1 DEF Path, OneHolder
  <2> QED
    BY <1>1, <2>1 DEF Path, OneHolder
<1>11. OnlyAnonymizedLeaves'
  BY <1>1 DEF Path, OnlyAnonymizedLeaves
<1> QED
  BY <1>7, <1>8, <1>9, <1>10, <1>11 DEF Path

(* A worker takes the oldest frame of the queue, which nobody else has. *)
LEMMA TakeFramePath ==
  ASSUME TypeOK, TypeOK', InHand, Path, NEW w \in Workers, TakeFrame(w)
  PROVE  Path'
<1> DEFINE q == anonymizer_in
<1>1. /\ UNCHANGED <<encoder_in, result, committed, anonymized, last>>
      /\ hand' = [hand EXCEPT ![w] = q[1]]
      /\ q' = Rest(q)
      /\ q \in Seq(Frames) /\ q # <<>>
      /\ q[1] \in Frames /\ 1 \in 1 .. Len(q)
  BY RestItems DEF TakeFrame, TypeOK
<1>2. Len(q') = Len(q) - 1 /\ \A i \in 1 .. Len(q) - 1 : q'[i] = q[i + 1]
  BY <1>1, RestItems
<1>3. ASSUME NEW i \in 1 .. Len(q')
      PROVE  i + 1 \in 1 .. Len(q) /\ q'[i] = q[i + 1]
  BY <1>1, <1>2, <1>3
<1>4. hand[w] = None
  BY DEF InHand, TakeFrame
<1>5. hand'[w] = q[1] /\ \A v \in Workers \ {w} : hand'[v] = hand[v]
  BY <1>1 DEF TypeOK
<1>6. q[1].id < committed[q[1].stream] /\ q[1].id \in Nat /\ q[1].stream \in Streams
  BY <1>1, MaxFramesAssumption DEF Path, Queued, Frames
<1>7. ASSUME NEW i \in 1 .. Len(q')
      PROVE  q'[i] # q[1] /\ (q'[i].stream = q[1].stream => q[1].id < q'[i].id)
  <2>1. i + 1 \in 1 .. Len(q) /\ q'[i] = q[i + 1] /\ 1 < i + 1
    BY <1>3
  <2>2. q[1].stream = q[i + 1].stream => q[1].id < q[i + 1].id
    BY <1>1, <2>1 DEF Path, Queued
  <2> QED
    BY <1>6, <2>1, <2>2
<1>8. ASSUME NEW g, Ahead(g)
      PROVE  /\ g.id < committed'[g.stream]
             /\ \A i \in 1 .. Len(q') : q'[i].stream = g.stream => g.id < q'[i].id
             /\ g # q[1] /\ (g.stream = q[1].stream => g.id < q[1].id)
  <2>1. g.stream = q[1].stream => g.id < q[1].id
    BY <1>1, <1>8 DEF Ahead
  <2>2. g # q[1]
    BY <1>6, <2>1
  <2> QED
    BY <1>1, <1>3, <1>8, <2>1, <2>2 DEF Ahead
<1>9. Queued'
  <2>1. ASSUME NEW i \in 1 .. Len(q') PROVE q'[i].id < committed'[q'[i].stream]
    BY <1>1, <1>3 DEF Path, Queued
  <2>2. ASSUME NEW i \in 1 .. Len(q'), NEW j \in 1 .. Len(q'), i < j,
               q'[i].stream = q'[j].stream
        PROVE  q'[i].id < q'[j].id
    <3>1. /\ i + 1 \in 1 .. Len(q) /\ j + 1 \in 1 .. Len(q) /\ i + 1 < j + 1
          /\ q'[i] = q[i + 1] /\ q'[j] = q[j + 1]
      BY <1>3, <2>2
    <3> QED
      BY <2>2, <3>1 DEF Path, Queued
  <2> QED
    BY <2>1, <2>2 DEF Queued
<1>10. Passed'
  <2>1. ASSUME NEW v \in Workers, hand'[v] # None PROVE Ahead(hand[v])'
    <3>1. CASE v = w
      BY <1>1, <1>5, <1>6, <1>7, <3>1 DEF Ahead
    <3>2. CASE v # w
      BY <1>1, <1>5, <1>8, <2>1, <3>2, SMTT(60) DEF Path, Passed, Ahead
    <3> QED
      BY <3>1, <3>2
  <2>2. ASSUME NEW u \in Streams, NEW i \in 1 .. Len(encoder_in[u])
        PROVE  encoder_in[u][i].frame.stream = u /\ Ahead(encoder_in[u][i].frame)'
    BY <1>1, <1>8, ZenonT(60) DEF Path, Passed, Ahead
  <2>3. ASSUME NEW u \in Streams, result[u] # None
        PROVE  result[u].frame.stream = u /\ Ahead(result[u].frame)'
    BY <1>1, <1>8, <2>3, ZenonT(60) DEF Path, Passed, Ahead
  <2>4. ASSUME NEW u \in Streams, NEW v \in Workers, last[u][v] # -1
        PROVE  Ahead([stream |-> u, id |-> last[u][v]])'
    <3> DEFINE g == [stream |-> u, id |-> last[u][v]]
    <3>1. Ahead(g)
      BY <2>4 DEF Path, Passed
    <3>2. /\ g.id < committed'[g.stream]
          /\ \A i \in 1 .. Len(q') : q'[i].stream = g.stream => g.id < q'[i].id
      BY <1>8, <3>1
    <3> QED
      BY <1>1, <3>2 DEF Ahead
  <2> QED
    BY <1>1, <2>1, <2>2, <2>3, <2>4 DEF Passed
<1>11. Ordered'
  <2>1. ASSUME NEW u \in Streams, q[1].stream = u
        PROVE  /\ last[u][w] < q[1].id
               /\ result[u] # None => result[u].frame.id < q[1].id
               /\ \A i \in 1 .. Len(encoder_in[u]) : encoder_in[u][i].frame.id < q[1].id
    <3>1. last[u][w] < q[1].id
      <4>1. CASE last[u][w] = -1
        BY <1>6, <4>1
      <4>2. CASE last[u][w] # -1
        <5> DEFINE g == [stream |-> u, id |-> last[u][w]]
        <5>1. Ahead(g)
          BY <4>2 DEF Path, Passed
        <5>2. g.stream = q[1].stream => g.id < q[1].id
          BY <1>8, <5>1
        <5> QED
          BY <2>1, <5>2
      <4> QED
        BY <4>1, <4>2
    <3>2. result[u] # None => result[u].frame.id < q[1].id
      BY <1>8, <2>1 DEF Path, Passed
    <3>3. \A i \in 1 .. Len(encoder_in[u]) : encoder_in[u][i].frame.id < q[1].id
      BY <1>8, <2>1 DEF Path, Passed
    <3> QED
      BY <3>1, <3>2, <3>3
  <2>2. ASSUME NEW u \in Streams, NEW v \in Workers, hand'[v] # None, hand'[v].stream = u
        PROVE  /\ last[u][v] < hand'[v].id
               /\ result[u] # None /\ result[u].by = v => result[u].frame.id < hand'[v].id
               /\ \A i \in 1 .. Len(encoder_in[u]) :
                    encoder_in[u][i].by = v => encoder_in[u][i].frame.id < hand'[v].id
    <3>1. CASE v = w
      BY <1>5, <2>1, <2>2, <3>1
    <3>2. CASE v # w
      BY <1>5, <2>2, <3>2 DEF Path, Ordered
    <3> QED
      BY <3>1, <3>2
  <2> QED
    BY <1>1, <2>2, SMTT(30) DEF Path, Ordered
<1>12. OneHolder'
  <2>1. ASSUME NEW v \in Workers, hand'[v] # None
        PROVE  /\ \A u \in Workers \ {v} : hand'[u] # hand'[v]
               /\ \A i \in 1 .. Len(q') : q'[i] # hand'[v]
               /\ \A s \in Streams :
                    /\ \A i \in 1 .. Len(encoder_in[s]) : encoder_in[s][i].frame # hand'[v]
                    /\ result[s] # None => result[s].frame # hand'[v]
    <3>1. CASE v = w
      <4>1. \A u \in Workers \ {w} : hand[u] # q[1]
        BY <1>1, <1>5, <2>1, <3>1 DEF Path, OneHolder
      <4>2. \A s \in Streams :
              /\ \A i \in 1 .. Len(encoder_in[s]) : encoder_in[s][i].frame # q[1]
              /\ result[s] # None => result[s].frame # q[1]
        BY <1>8 DEF Path, Passed
      <4> QED
        BY <1>5, <1>7, <3>1, <4>1, <4>2
    <3>2. CASE v # w
      <4>1. \A u \in Workers \ {v} : hand'[u] # hand'[v]
        BY <1>1, <1>5, <2>1, <3>2 DEF Path, OneHolder
      <4>2. \A i \in 1 .. Len(q') : q'[i] # hand'[v]
        BY <1>3, <1>5, <2>1, <3>2 DEF Path, OneHolder
      <4> QED
        BY <1>5, <2>1, <3>2, <4>1, <4>2 DEF Path, OneHolder
    <3> QED
      BY <3>1, <3>2
  <2> QED
    BY <1>1, <2>1 DEF OneHolder
<1>13. OnlyAnonymizedLeaves'
  BY <1>1 DEF Path, OnlyAnonymizedLeaves
<1> QED
  BY <1>9, <1>10, <1>11, <1>12, <1>13 DEF Path

\* Anonymizing the frame in hand leaves the path as it is.
LEMMA AnonymizePath ==
  ASSUME Path, NEW w \in Workers, Anonymize(w)
  PROVE  Path'
<1>1. /\ UNCHANGED <<anonymizer_in, encoder_in, hand, result, committed, last>>
      /\ anonymized \subseteq anonymized'
  BY DEF Anonymize
<1>2. Queued'
  BY <1>1 DEF Path, Queued
<1>3. Passed'
  BY <1>1 DEF Path, Passed, Ahead
<1>4. Ordered'
  BY <1>1 DEF Path, Ordered
<1>5. OneHolder'
  BY <1>1 DEF Path, OneHolder
<1>6. OnlyAnonymizedLeaves'
  BY <1>1 DEF Path, OnlyAnonymizedLeaves
<1> QED
  BY <1>2, <1>3, <1>4, <1>5, <1>6 DEF Path

(* A result goes behind those of its stream, which its worker sent before. *)
LEMMA SendResultPath ==
  ASSUME TypeOK, TypeOK', InHand, Path, NEW w \in Workers, SendResult(w)
  PROVE  Path'
<1> DEFINE s == hand[w].stream
           x == [frame |-> hand[w], by |-> w]
           e == encoder_in[s]
           r == encoder_in'[s]
<1>1. /\ UNCHANGED <<anonymizer_in, result, committed, anonymized, last>>
      /\ hand' = [hand EXCEPT ![w] = None]
      /\ encoder_in' = [encoder_in EXCEPT ![s] = Pushed(e, x, EncoderCapacity)]
  BY DEF SendResult
<1>2. hand[w] \in Frames /\ hand[w] # None /\ hand[w] \in anonymized
  BY NoneAssumption DEF SendResult, Sendable, InHand
<1>3. s \in Streams /\ x \in Results /\ x.frame = hand[w] /\ x.by = w
  BY <1>2 DEF Frames, Results
<1>4. /\ \A u \in Streams \ {s} : encoder_in'[u] = encoder_in[u]
      /\ r = Pushed(e, x, EncoderCapacity)
      /\ hand'[w] = None /\ \A v \in Workers \ {w} : hand'[v] = hand[v]
  BY <1>1, <1>3 DEF TypeOK
<1>5. Behind(r, e, x)
  <2>1. e \in Seq(Results) /\ stopped \in BOOLEAN
    BY <1>3 DEF TypeOK
  <2>2. Behind(Pushed(e, x, EncoderCapacity), e, x)
    BY <1>3, <2>1, EncoderCapacityAssumption, PushedItems
  <2> QED
    BY <1>4, <2>2
<1> HIDE DEF x
<1>6. ASSUME NEW i \in 1 .. Len(r)
      PROVE  r[i] = x \/ \E a \in 1 .. Len(e) : r[i] = e[a]
  BY <1>5 DEF Behind
<1>7. ASSUME NEW i \in 1 .. Len(r), NEW j \in 1 .. Len(r), i < j
      PROVE  \E a \in 1 .. Len(e) :
               /\ r[i] = e[a]
               /\ r[j] = x \/ \E b \in 1 .. Len(e) : a < b /\ r[j] = e[b]
  BY <1>5, <1>7 DEF Behind
<1> HIDE DEF r
<1>8. Queued'
  BY <1>1 DEF Path, Queued
<1>9. Passed'
  <2>1. ASSUME NEW v \in Workers, hand'[v] # None PROVE Ahead(hand[v])'
    BY <1>1, <1>4, <2>1 DEF Path, Passed, Ahead
  <2>2. ASSUME NEW i \in 1 .. Len(r) PROVE r[i].frame.stream = s /\ Ahead(r[i].frame)
    <3>1. CASE r[i] = x
      BY <1>2, <1>3, <3>1 DEF Path, Passed
    <3>2. ASSUME NEW a \in 1 .. Len(e), r[i] = e[a]
          PROVE  r[i].frame.stream = s /\ Ahead(r[i].frame)
      BY <1>3, <3>2 DEF Path, Passed
    <3> QED
      BY <1>6, <3>1, <3>2
  <2>3. ASSUME NEW u \in Streams, NEW i \in 1 .. Len(encoder_in'[u])
        PROVE  encoder_in'[u][i].frame.stream = u /\ Ahead(encoder_in[u][i].frame)'
    <3>1. encoder_in'[u][i].frame.stream = u /\ Ahead(encoder_in'[u][i].frame)
      <4>1. CASE u = s
        BY <2>2, <2>3, <4>1 DEF r
      <4>2. CASE u # s
        BY <1>4, <2>3, <4>2 DEF Path, Passed
      <4> QED
        BY <4>1, <4>2
    <3> QED
      BY <1>1, <3>1 DEF Ahead
  <2> QED
    BY <1>1, <2>1, <2>3 DEF Path, Passed, Ahead
<1>10. Ordered'
  <2>1. ASSUME NEW v \in Workers, v # w, hand[v] # None, hand[v].stream = s,
               NEW i \in 1 .. Len(r), r[i].by = v
        PROVE  r[i].frame.id < hand[v].id
    <3>1. PICK a \in 1 .. Len(e) : r[i] = e[a]
      BY <1>3, <1>6, <2>1
    <3> QED
      BY <1>3, <2>1, <3>1 DEF Path, Ordered
  <2>2. ASSUME NEW v \in Workers, NEW i \in 1 .. Len(r), r[i].by = v
        PROVE  /\ last[s][v] < r[i].frame.id
               /\ result[s] # None /\ result[s].by = v => result[s].frame.id < r[i].frame.id
    <3>1. CASE r[i] = x
      <4>1. v = w
        BY <1>3, <2>2, <3>1
      <4> QED
        BY <1>2, <1>3, <3>1, <4>1 DEF Path, Ordered
    <3>2. ASSUME NEW a \in 1 .. Len(e), r[i] = e[a]
          PROVE  /\ last[s][v] < r[i].frame.id
                 /\ result[s] # None /\ result[s].by = v => result[s].frame.id < r[i].frame.id
      BY <1>3, <2>2, <3>2 DEF Path, Ordered
    <3> QED
      BY <1>6, <3>1, <3>2
  <2>3. ASSUME NEW v \in Workers, NEW i \in 1 .. Len(r), NEW j \in 1 .. Len(r), i < j,
               r[i].by = v, r[j].by = v
        PROVE  r[i].frame.id < r[j].frame.id
    <3>1. PICK a \in 1 .. Len(e) :
            /\ r[i] = e[a]
            /\ r[j] = x \/ \E b \in 1 .. Len(e) : a < b /\ r[j] = e[b]
      BY <1>7, <2>3
    <3>2. CASE r[j] = x
      <4>1. v = w
        BY <1>3, <2>3, <3>2
      <4> QED
        BY <1>2, <1>3, <2>3, <3>1, <3>2, <4>1 DEF Path, Ordered
    <3>3. CASE \E b \in 1 .. Len(e) : a < b /\ r[j] = e[b]
      BY <1>3, <2>3, <3>1, <3>3 DEF Path, Ordered
    <3> QED
      BY <3>1, <3>2, <3>3
  <2>4. ASSUME NEW u \in Streams, NEW v \in Workers, hand'[v] # None, hand'[v].stream = u
        PROVE  /\ last[u][v] < hand'[v].id
               /\ result[u] # None /\ result[u].by = v => result[u].frame.id < hand'[v].id
               /\ \A i \in 1 .. Len(encoder_in'[u]) :
                    encoder_in'[u][i].by = v => encoder_in'[u][i].frame.id < hand'[v].id
    <3>1. v # w /\ hand'[v] = hand[v]
      BY <1>4, <2>4
    <3>2. CASE u = s
      BY <2>1, <2>4, <3>1, <3>2 DEF r, Path, Ordered
    <3>3. CASE u # s
      BY <1>4, <2>4, <3>1, <3>3 DEF Path, Ordered
    <3> QED
      BY <3>2, <3>3
  <2>5. ASSUME NEW u \in Streams, NEW v \in Workers,
               NEW i \in 1 .. Len(encoder_in'[u]), encoder_in'[u][i].by = v
        PROVE  /\ last[u][v] < encoder_in'[u][i].frame.id
               /\ result[u] # None /\ result[u].by = v =>
                    result[u].frame.id < encoder_in'[u][i].frame.id
               /\ \A j \in 1 .. Len(encoder_in'[u]) : i < j /\ encoder_in'[u][j].by = v
                    => encoder_in'[u][i].frame.id < encoder_in'[u][j].frame.id
    <3>1. CASE u = s
      BY <2>2, <2>3, <2>5, <3>1 DEF r
    <3>2. CASE u # s
      BY <1>4, <2>5, <3>2 DEF Path, Ordered
    <3> QED
      BY <3>1, <3>2
  <2>6. ASSUME NEW u \in Streams, NEW v \in Workers, result[u] # None, result[u].by = v
        PROVE  last[u][v] < result[u].frame.id
    BY <2>6 DEF Path, Ordered
  <2>7. UNCHANGED <<result, last>>
    BY <1>1
  <2> QED
    BY <2>4, <2>5, <2>6, <2>7, ZenonT(60) DEF Ordered
<1>11. OneHolder'
  <2>1. ASSUME NEW v \in Workers, hand'[v] # None, NEW i \in 1 .. Len(r)
        PROVE  r[i].frame # hand'[v]
    <3>1. v # w /\ hand'[v] = hand[v]
      BY <1>4, <2>1
    <3>2. hand[v] # hand[w]
      BY <1>2, <3>1 DEF Path, OneHolder
    <3>3. CASE r[i] = x
      BY <1>3, <3>1, <3>2, <3>3
    <3>4. ASSUME NEW a \in 1 .. Len(e), r[i] = e[a] PROVE r[i].frame # hand[v]
      BY <1>3, <2>1, <3>1, <3>4 DEF Path, OneHolder
    <3> QED
      BY <1>6, <3>1, <3>3, <3>4
  <2>2. ASSUME NEW v \in Workers, hand'[v] # None, NEW u \in Streams,
               NEW i \in 1 .. Len(encoder_in'[u])
        PROVE  encoder_in'[u][i].frame # hand'[v]
    <3>1. CASE u = s
      BY <2>1, <2>2, <3>1 DEF r
    <3>2. CASE u # s
      BY <1>4, <2>2, <3>2 DEF Path, OneHolder
    <3> QED
      BY <3>1, <3>2
  <2>3. ASSUME NEW v \in Workers, hand'[v] # None, NEW u \in Workers \ {v}
        PROVE  hand'[u] # hand'[v]
    BY <1>4, <2>3 DEF Path, OneHolder
  <2>4. ASSUME NEW v \in Workers, hand'[v] # None
        PROVE  hand'[v] = hand[v]
    BY <1>4, <2>4
  <2> QED
    BY <1>1, <2>2, <2>3, <2>4 DEF Path, OneHolder
<1>12. OnlyAnonymizedLeaves'
  <2>1. ASSUME NEW i \in 1 .. Len(r) PROVE r[i].frame \in anonymized
    <3>1. CASE r[i] = x
      BY <1>2, <1>3, <3>1
    <3>2. ASSUME NEW a \in 1 .. Len(e), r[i] = e[a] PROVE r[i].frame \in anonymized
      BY <1>3, <3>2 DEF Path, OnlyAnonymizedLeaves
    <3> QED
      BY <1>6, <3>1, <3>2
  <2>2. ASSUME NEW u \in Streams, NEW i \in 1 .. Len(encoder_in'[u])
        PROVE  encoder_in'[u][i].frame \in anonymized
    <3>1. CASE u = s
      BY <2>1, <2>2, <3>1 DEF r
    <3>2. CASE u # s
      BY <1>4, <2>2, <3>2 DEF Path, OnlyAnonymizedLeaves
    <3> QED
      BY <3>1, <3>2
  <2> QED
    BY <1>1, <2>2 DEF Path, OnlyAnonymizedLeaves
<1> QED
  BY <1>8, <1>9, <1>10, <1>11, <1>12 DEF Path

(* An encoder takes the oldest result of its stream. *)
LEMMA TakeResultPath ==
  ASSUME TypeOK, TypeOK', InHand, Path, NEW s \in Streams, TakeResult(s)
  PROVE  Path'
<1> DEFINE e == encoder_in[s]
           r == encoder_in'[s]
<1>1. /\ UNCHANGED <<anonymizer_in, hand, committed, anonymized, last>>
      /\ result' = [result EXCEPT ![s] = e[1]]
      /\ encoder_in' = [encoder_in EXCEPT ![s] = Rest(e)]
      /\ e \in Seq(Results) /\ e # <<>> /\ e[1] \in Results /\ 1 \in 1 .. Len(e)
  BY RestItems DEF TakeResult, TypeOK
<1>2. /\ r = Rest(e) /\ \A u \in Streams \ {s} : encoder_in'[u] = encoder_in[u]
      /\ result'[s] = e[1] /\ \A u \in Streams \ {s} : result'[u] = result[u]
  BY <1>1 DEF TypeOK
<1>3. Len(r) = Len(e) - 1 /\ \A i \in 1 .. Len(e) - 1 : r[i] = e[i + 1]
  <2>1. Len(Rest(e)) = Len(e) - 1 /\ \A i \in 1 .. Len(e) - 1 : Rest(e)[i] = e[i + 1]
    BY <1>1, RestItems
  <2> QED
    BY <1>2, <2>1
<1>4. ASSUME NEW i \in 1 .. Len(r)
      PROVE  i + 1 \in 1 .. Len(e) /\ r[i] = e[i + 1] /\ 1 < i + 1
  BY <1>1, <1>3, <1>4
<1> HIDE DEF r
<1>5. Queued'
  BY <1>1 DEF Path, Queued
<1>6. Passed'
  <2>1. ASSUME NEW v \in Workers, hand[v] # None PROVE Ahead(hand[v])'
    BY <1>1, <2>1 DEF Path, Passed, Ahead
  <2>2. ASSUME NEW u \in Streams, NEW i \in 1 .. Len(encoder_in'[u])
        PROVE  encoder_in'[u][i].frame.stream = u /\ Ahead(encoder_in'[u][i].frame)
    <3>1. CASE u = s
      BY <1>4, <2>2, <3>1 DEF r, Path, Passed
    <3>2. CASE u # s
      BY <1>2, <2>2, <3>2 DEF Path, Passed
    <3> QED
      BY <3>1, <3>2
  <2>3. ASSUME NEW u \in Streams, result'[u] # None
        PROVE  result'[u].frame.stream = u /\ Ahead(result'[u].frame)
    <3>1. CASE u = s
      BY <1>1, <1>2, <3>1 DEF Path, Passed
    <3>2. CASE u # s
      BY <1>2, <2>3, <3>2 DEF Path, Passed
    <3> QED
      BY <3>1, <3>2
  <2>4. ASSUME NEW u \in Streams, NEW v \in Workers, last[u][v] # -1
        PROVE  Ahead([stream |-> u, id |-> last[u][v]])
    BY <2>4 DEF Path, Passed
  <2>5. UNCHANGED <<anonymizer_in, committed, hand, last>>
    BY <1>1
  <2> QED
    BY <2>1, <2>2, <2>3, <2>4, <2>5, ZenonT(60) DEF Passed, Ahead
<1>7. Ordered'
  <2>1. ASSUME NEW u \in Streams, NEW v \in Workers, hand[v] # None, hand[v].stream = u
        PROVE  /\ last[u][v] < hand[v].id
               /\ result'[u] # None /\ result'[u].by = v => result'[u].frame.id < hand[v].id
               /\ \A i \in 1 .. Len(encoder_in'[u]) :
                    encoder_in'[u][i].by = v => encoder_in'[u][i].frame.id < hand[v].id
    <3>1. CASE u = s
      <4>1. \A i \in 1 .. Len(e) : e[i].by = v => e[i].frame.id < hand[v].id
        BY <2>1, <3>1 DEF Path, Ordered
      <4> QED
        BY <1>1, <1>2, <1>4, <2>1, <3>1, <4>1 DEF r, Path, Ordered
    <3>2. CASE u # s
      BY <1>2, <2>1, <3>2 DEF Path, Ordered
    <3> QED
      BY <3>1, <3>2
  <2>2. ASSUME NEW v \in Workers, NEW i \in 1 .. Len(r), r[i].by = v
        PROVE  /\ last[s][v] < r[i].frame.id
               /\ e[1].by = v => e[1].frame.id < r[i].frame.id
               /\ \A j \in 1 .. Len(r) : i < j /\ r[j].by = v => r[i].frame.id < r[j].frame.id
    <3>1. last[s][v] < r[i].frame.id /\ (e[1].by = v => e[1].frame.id < r[i].frame.id)
      BY <1>1, <1>4, <2>2 DEF Path, Ordered
    <3>2. ASSUME NEW j \in 1 .. Len(r), i < j, r[j].by = v
          PROVE  r[i].frame.id < r[j].frame.id
      <4>1. /\ i + 1 \in 1 .. Len(e) /\ j + 1 \in 1 .. Len(e) /\ i + 1 < j + 1
            /\ r[i] = e[i + 1] /\ r[j] = e[j + 1]
        BY <1>4, <3>2
      <4> QED
        BY <2>2, <3>2, <4>1 DEF Path, Ordered
    <3> QED
      BY <3>1, <3>2
  <2>3. ASSUME NEW u \in Streams, NEW v \in Workers,
               NEW i \in 1 .. Len(encoder_in'[u]), encoder_in'[u][i].by = v
        PROVE  /\ last[u][v] < encoder_in'[u][i].frame.id
               /\ result'[u] # None /\ result'[u].by = v =>
                    result'[u].frame.id < encoder_in'[u][i].frame.id
               /\ \A j \in 1 .. Len(encoder_in'[u]) : i < j /\ encoder_in'[u][j].by = v
                    => encoder_in'[u][i].frame.id < encoder_in'[u][j].frame.id
    <3>1. CASE u = s
      BY <1>2, <2>2, <2>3, <3>1 DEF r
    <3>2. CASE u # s
      BY <1>2, <2>3, <3>2 DEF Path, Ordered
    <3> QED
      BY <3>1, <3>2
  <2>4. ASSUME NEW u \in Streams, NEW v \in Workers, result'[u] # None, result'[u].by = v
        PROVE  last[u][v] < result'[u].frame.id
    <3>1. CASE u = s
      BY <1>1, <1>2, <2>4, <3>1 DEF Path, Ordered
    <3>2. CASE u # s
      BY <1>2, <2>4, <3>2 DEF Path, Ordered
    <3> QED
      BY <3>1, <3>2
  <2> QED
    BY <1>1, <2>1, <2>3, <2>4, SMTT(30) DEF Ordered
<1>8. OneHolder'
  <2>1. ASSUME NEW v \in Workers, hand[v] # None, NEW u \in Streams
        PROVE  /\ \A i \in 1 .. Len(encoder_in'[u]) : encoder_in'[u][i].frame # hand[v]
               /\ result'[u] # None => result'[u].frame # hand[v]
    <3>1. CASE u = s
      <4>1. \A i \in 1 .. Len(encoder_in[s]) : encoder_in[s][i].frame # hand[v]
        BY <2>1 DEF Path, OneHolder
      <4>2. \A i \in 1 .. Len(r) : r[i].frame # hand[v]
        BY <1>4, <4>1
      <4>3. result'[s].frame # hand[v]
        BY <1>1, <1>2, <4>1
      <4>4. encoder_in'[u] = r /\ result'[u] = result'[s]
        BY <3>1 DEF r
      <4> QED
        BY <4>2, <4>3, <4>4
    <3>2. CASE u # s
      BY <1>2, <2>1, <3>2 DEF Path, OneHolder
    <3> QED
      BY <3>1, <3>2
  <2> QED
    BY <1>1, <2>1 DEF Path, OneHolder
<1>9. OnlyAnonymizedLeaves'
  <2>1. ASSUME NEW u \in Streams
        PROVE  /\ \A i \in 1 .. Len(encoder_in'[u]) : encoder_in'[u][i].frame \in anonymized
               /\ result'[u] # None => result'[u].frame \in anonymized
    <3>1. CASE u = s
      BY <1>1, <1>2, <1>4, <2>1, <3>1 DEF r, Path, OnlyAnonymizedLeaves
    <3>2. CASE u # s
      BY <1>2, <2>1, <3>2 DEF Path, OnlyAnonymizedLeaves
    <3> QED
      BY <3>1, <3>2
  <2> QED
    BY <1>1, <2>1 DEF OnlyAnonymizedLeaves
<1> QED
  BY <1>5, <1>6, <1>7, <1>8, <1>9 DEF Path

(* What is published is older than what its worker has in the path. *)
LEMMA PublishPath ==
  ASSUME TypeOK, TypeOK', InHand, Path, NEW s \in Streams, Publish(s)
  PROVE  Path' /\ \A u \in Streams, v \in Workers : last'[u][v] >= last[u][v]
<1> DEFINE b == result[s].by
           f == result[s].frame
<1>1. /\ UNCHANGED <<anonymizer_in, encoder_in, hand, committed, anonymized>>
      /\ last' = [last EXCEPT ![s][b] = f.id]
      /\ result' = [result EXCEPT ![s] = None]
  BY DEF Publish
<1>2. result[s] # None /\ b \in Workers /\ f.id \in Nat
  <2>1. result[s] \in Results
    BY DEF Publish, InHand
  <2> QED
    BY <2>1, NoneAssumption, MaxFramesAssumption DEF Results, Frames
<1>3. /\ last'[s][b] = f.id
      /\ \A u \in Streams, v \in Workers : u # s \/ v # b => last'[u][v] = last[u][v]
      /\ result'[s] = None /\ \A u \in Streams \ {s} : result'[u] = result[u]
  BY <1>1, <1>2 DEF TypeOK
<1>4. f.stream = s /\ Ahead(f) /\ last[s][b] < f.id
  BY <1>2 DEF Path, Passed, Ordered
<1> HIDE DEF b, f
<1>5. Queued'
  BY <1>1 DEF Path, Queued
<1>6. Passed'
  <2>1. ASSUME NEW u \in Streams, NEW v \in Workers, last'[u][v] # -1
        PROVE  Ahead([stream |-> u, id |-> last'[u][v]])
    <3>1. CASE u = s /\ v = b
      BY <1>3, <1>4, <3>1 DEF Ahead
    <3>2. CASE u # s \/ v # b
      <4>1. last'[u][v] = last[u][v]
        BY <1>3, <3>2
      <4> QED
        BY <2>1, <4>1 DEF Path, Passed
    <3> QED
      BY <3>1, <3>2
  <2>2. ASSUME NEW u \in Streams, result'[u] # None
        PROVE  result'[u].frame.stream = u /\ Ahead(result'[u].frame)
    BY <1>3, <2>2 DEF Path, Passed
  <2> QED
    BY <1>1, <2>1, <2>2 DEF Path, Passed, Ahead
<1>7. Ordered'
  <2>1. ASSUME NEW u \in Streams, NEW v \in Workers, hand[v] # None, hand[v].stream = u
        PROVE  last'[u][v] < hand[v].id
    <3>1. CASE u = s /\ v = b
      BY <1>2, <1>3, <2>1, <3>1 DEF b, f, Path, Ordered
    <3>2. CASE u # s \/ v # b
      BY <1>3, <2>1, <3>2 DEF Path, Ordered
    <3> QED
      BY <3>1, <3>2
  <2>2. ASSUME NEW u \in Streams, NEW v \in Workers,
               NEW i \in 1 .. Len(encoder_in[u]), encoder_in[u][i].by = v
        PROVE  last'[u][v] < encoder_in[u][i].frame.id
    <3>1. CASE u = s /\ v = b
      BY <1>2, <1>3, <2>2, <3>1 DEF b, f, Path, Ordered
    <3>2. CASE u # s \/ v # b
      BY <1>3, <2>2, <3>2 DEF Path, Ordered
    <3> QED
      BY <3>1, <3>2
  <2>3. ASSUME NEW u \in Streams, result'[u] # None
        PROVE  u # s /\ result'[u] = result[u]
    BY <1>3, <2>3
  <2> QED
    BY <1>1, <1>3, <2>1, <2>2, <2>3, SMTT(30) DEF Path, Ordered
<1>8. OneHolder'
  BY <1>1, <1>3 DEF Path, OneHolder
<1>9. OnlyAnonymizedLeaves'
  BY <1>1, <1>3 DEF Path, OnlyAnonymizedLeaves
<1>10. ASSUME NEW u \in Streams, NEW v \in Workers PROVE last'[u][v] >= last[u][v]
  <2>1. last[u][v] \in Int
    BY MaxFramesAssumption DEF TypeOK
  <2> QED
    BY <1>2, <1>3, <1>4, <2>1
<1> QED
  BY <1>5, <1>6, <1>7, <1>8, <1>9, <1>10 DEF Path

(* stop() empties the encoders' queues. *)
LEMMA ClearPath ==
  ASSUME Path, Clear
  PROVE  Path'
<1>1. /\ UNCHANGED <<anonymizer_in, hand, result, committed, anonymized, last>>
      /\ \A s \in Streams : encoder_in'[s] = <<>>
  BY DEF Clear
<1>2. Queued'
  BY <1>1 DEF Path, Queued
<1>3. Passed'
  BY <1>1 DEF Path, Passed, Ahead
<1>4. Ordered'
  BY <1>1 DEF Path, Ordered
<1>5. OneHolder'
  BY <1>1 DEF Path, OneHolder
<1>6. OnlyAnonymizedLeaves'
  BY <1>1 DEF Path, OnlyAnonymizedLeaves
<1> QED
  BY <1>2, <1>3, <1>4, <1>5, <1>6 DEF Path

(* Whatever moves a frame keeps its stream in order. *)
LEMMA PathStep ==
  ASSUME TypeOK, TypeOK', InHand, Path, [Next]_vars
  PROVE  Path' /\ \A s \in Streams, w \in Workers : last'[s][w] >= last[s][w]
<1>1. CASE UNCHANGED path
  <2>1. Path'
    BY <1>1 DEF Path, path, Queued, Passed, Ahead, Ordered, OneHolder, OnlyAnonymizedLeaves
  <2>2. \A s \in Streams, w \in Workers : last'[s][w] >= last[s][w]
    BY <1>1, MaxFramesAssumption DEF path, TypeOK
  <2> QED
    BY <2>1, <2>2
<1>2. CASE UNCHANGED last /\ Path'
  BY <1>2, MaxFramesAssumption DEF TypeOK
<1>3. CASE Clear
  BY <1>2, <1>3, ClearPath DEF Clear
<1>4. ASSUME NEW s \in Streams, Commit(s) PROVE UNCHANGED last /\ Path'
  BY <1>4, CommitPath DEF Commit
<1>5. ASSUME NEW s \in Streams, TakeResult(s) PROVE UNCHANGED last /\ Path'
  BY <1>5, TakeResultPath DEF TakeResult
<1>6. CASE \E s \in Streams : Publish(s)
  BY <1>6, PublishPath
<1>7. ASSUME NEW w \in Workers, TakeFrame(w) PROVE UNCHANGED last /\ Path'
  BY <1>7, TakeFramePath DEF TakeFrame
<1>8. ASSUME NEW w \in Workers, Anonymize(w) PROVE UNCHANGED last /\ Path'
  BY <1>8, AnonymizePath DEF Anonymize
<1>9. ASSUME NEW w \in Workers, SendResult(w) PROVE UNCHANGED last /\ Path'
  BY <1>9, SendResultPath DEF SendResult
<1> QED
  BY <1>1, <1>2, <1>3, <1>4, <1>5, <1>6, <1>7, <1>8, <1>9, PathSteps

(* IInv is inductive. *)
LEMMA InitIInv == Init => IInv
<1> SUFFICES ASSUME Init PROVE IInv
  OBVIOUS
<1>1. TypeOK
  <2>1. last \in [Streams -> [Workers -> -1 .. MaxFrames - 1]]
    BY MaxFramesAssumption DEF Init
  <2>2. committed \in [Streams -> 0 .. MaxFrames]
    BY MaxFramesAssumption DEF Init
  <2>3. anonymizer_in \in Seq(Frames) /\ encoder_in \in [Streams -> Seq(Results)]
    BY DEF Init
  <2>4. hand \in [Workers -> Frames \cup {None}] /\ result \in [Streams -> Results \cup {None}]
    BY DEF Init
  <2>5. at \in [Threads -> {"none", "opening", "loop", "body", "work", "ready", "failed", "ended"}]
    BY DEF Init
  <2> QED
    BY <2>1, <2>2, <2>3, <2>4, <2>5 DEF Init, TypeOK
<1>2. Life
  BY DEF Init, Life, Threads, PoolThreads
<1>3. InHand
  BY DEF Init, InHand, Threads, Anonymizers, PipeThreads
<1>4. RunningHasStreams
  BY DEF Init, RunningHasStreams
<1>5. Path
  <2>1. /\ anonymizer_in = <<>>
        /\ \A s \in Streams : encoder_in[s] = <<>> /\ result[s] = None
        /\ \A w \in Workers : hand[w] = None
        /\ \A s \in Streams, w \in Workers : last[s][w] = -1
    BY DEF Init
  <2> QED
    BY <2>1 DEF Path, Queued, Passed, Ordered, OneHolder, OnlyAnonymizedLeaves
<1> QED
  BY <1>1, <1>2, <1>3, <1>4, <1>5 DEF IInv

\* The invariant is inductive.
LEMMA NextIInv == IInv /\ [Next]_vars => IInv'
<1> SUFFICES ASSUME IInv, [Next]_vars PROVE IInv'
  OBVIOUS
<1>1. TypeOK'
  BY TypeStep DEF IInv
<1>2. Life'
  BY LifeStep DEF IInv
<1>3. InHand'
  BY <1>1, InHandStep DEF IInv
<1>4. RunningHasStreams'
  BY RunningStep DEF IInv
<1>5. Path'
  BY <1>1, PathStep DEF IInv
<1> QED
  BY <1>1, <1>2, <1>3, <1>4, <1>5 DEF IInv

\* So it always holds.
LEMMA SpecIInv == Spec => []IInv
<1> QED
  BY InitIInv, NextIInv, PTL DEF Spec

-----------------------------------------------------------------------------
(* The variables of the pipeline keep their types. *)
THEOREM TypeCorrect == Spec => []TypeOK
<1>1. IInv => TypeOK
  BY DEF IInv
<1> QED
  BY <1>1, SpecIInv, PTL

(* What stop() frees, also after a start() that failed, no thread uses. *)
THEOREM StopFreesUnused == Spec => []NothingOutlivesStop
<1>1. IInv => NothingOutlivesStop
  BY DEF IInv, Life, NothingOutlivesStop
<1> QED
  BY <1>1, SpecIInv, PTL

(* A pipeline that runs has a stream that was started. *)
THEOREM StartsAStream == Spec => []RunningHasStreams
<1>1. IInv => RunningHasStreams
  BY DEF IInv
<1> QED
  BY <1>1, SpecIInv, PTL

(* No image reaches an encoder before it was anonymized. *)
THEOREM EncodesAnonymized == Spec => []OnlyAnonymizedLeaves
<1>1. IInv => OnlyAnonymizedLeaves
  BY DEF IInv, Path
<1> QED
  BY <1>1, SpecIInv, PTL

(* A frame in an anonymizer's hand is nowhere else. *)
THEOREM HeldOnce == Spec => []OneHolder
<1>1. IInv => OneHolder
  BY DEF IInv, Path
<1> QED
  BY <1>1, SpecIInv, PTL

(* What one anonymizer worked on is published in the order of the commits, *)
(* however the streams share the anonymizers and whatever queues drop.     *)
THEOREM PublishedInOrder == Spec => WorkerInOrder
<1>1. IInv /\ [Next]_vars
        => [\A s \in Streams, w \in Workers : last'[s][w] >= last[s][w]]_vars
  <2> SUFFICES ASSUME IInv, [Next]_vars
               PROVE  \A s \in Streams, w \in Workers : last'[s][w] >= last[s][w]
    OBVIOUS
  <2>1. TypeOK'
    BY TypeStep DEF IInv
  <2> QED
    BY <2>1, PathStep DEF IInv
<1> QED
  BY <1>1, SpecIInv, PTL DEF Spec, WorkerInOrder

(* One writer per image, encoding after it, and each worker's frames in order. *)
THEOREM FramesLeave == Spec => FramesLeaveRight
BY EncodesAnonymized, HeldOnce, PublishedInOrder, PTL DEF FramesLeaveRight
=============================================================================
