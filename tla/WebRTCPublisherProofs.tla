------------------------- MODULE WebRTCPublisherProofs -------------------------
(***************************************************************************)
(* For any threads, streams and limit: the types of WebRTCPublisher, and   *)
(* its safety properties from one inductive invariant.                     *)
(***************************************************************************)
EXTENDS WebRTCPublisher, FiniteSetTheorems, TLAPS

(* The ids that were given out. *)
Known == 1 .. next_id - 1

(* Ids are known before they are used, and sessions are new when they get one. *)
Made ==
  /\ sessions_ \subseteq Known /\ raced \subseteq Known
  /\ \A t \in Threads :
       held[t] \subseteq Known /\ removed[t] \subseteq Known /\ dead[t] \subseteq Known
  /\ \A i \in Ids \ Known : elements[i] = {}

Starting == {"appsrc", "webrtc", "found", "play"}
Offering == Starting \cup {"insert", "build", "remote_offer", "answer", "fail", "hung"}
Deleting == {"delete", "halt"}

(* What a thread has in hand at each step. *)
InHand ==
  \A t \in Threads :
    /\ session[t] # 0 => session[t] \in held[t]
    /\ pc[t] \in Offering => session[t] # 0
    /\ pc[t] \in {"idle", "check"} => held[t] = {} /\ session[t] = 0
    /\ pc[t] \in {"publish", "push"} => session[t] = 0
    /\ read[t] => pc[t] \in {"appsrc", "webrtc", "play"}
    /\ pc[t] \notin Deleting => removed[t] = {} /\ then[t] = "idle"
    /\ pc[t] \in Deleting /\ then[t] # "return" => held[t] = {} /\ session[t] = 0
    /\ pc[t] \in Deleting /\ then[t] = "return" => session[t] # 0

(* A session is made by one offer. *)
OneMaker == \A t, u \in Threads : t # u /\ session[t] # 0 => session[t] # session[u]

(* A session that is not yet listed is known to its offer alone. *)
Unlisted ==
  \A t \in Threads : pc[t] = "insert" =>
    /\ session[t] \notin sessions_
    /\ stream_key[session[t]] = stream[t]
    /\ \A u \in Threads : session[t] \notin removed[u] /\ session[t] \notin dead[u]
    /\ \A u \in Threads \ {t} : session[t] \notin held[u]

Unbuilt == \A t \in Threads : pc[t] \in {"insert", "build"} => elements[session[t]] = {}

(* A session that is listed keeps what its start() has set so far. *)
Built ==
  \A t \in Threads : session[t] \in sessions_ =>
    /\ pc[t] \in Starting => "pipeline" \in elements[session[t]]
    /\ pc[t] = "play" => elements[session[t]] = Elements

(* The pipeline that start() is about to play is its session's still, or   *)
(* was taken after it was read.                                            *)
Reading ==
  \A t \in Threads : pc[t] = "play" /\ read[t] =>
    "pipeline" \in elements[session[t]] \/ session[t] \in overtaken

(* Who pushes holds the mutex of a session that has its appsrc, and nobody *)
(* else holds a mutex between two steps; who halts still has the session.  *)
Hands ==
  /\ \A t \in Threads : pc[t] = "push" =>
       current[t] \in Ids /\ mutex[current[t]] = t /\ "appsrc" \in elements[current[t]]
  /\ \A t \in Threads : pc[t] = "halt" =>
       current[t] \in removed[t]

(* What plays has its pipeline, is being halted, or was overtaken. *)
Stopping ==
  \A i \in Ids : playing[i] =>
    \/ "pipeline" \in elements[i] \/ i \in overtaken
    \/ \E t \in Threads : pc[t] = "halt" /\ current[t] = i

(* What is to be stopped is no longer listed, except by the offer that     *)
(* failed to start it, which will delete it.                               *)
Erased ==
  \A t \in Threads :
    /\ \A i \in removed[t] : i \notin sessions_ \/ session[t] = i
    /\ pc[t] \in Deleting /\ then[t] = "return" =>
         session[t] \notin sessions_ \/ session[t] \in todo[t]

(* What an offer found ended is gone or still to be deleted by it. *)
Room ==
  \A t \in Threads :
    pc[t] \in Deleting /\ then[t] = "check" => dead[t] \cap sessions_ \subseteq todo[t]

(* The peers of a stream that were counted rightly; there is room for one  *)
(* more as long as the count of an offer is up to date.                    *)
Fresh(s) == Peers(s) \ raced

Counted ==
  \A t \in Threads :
    pc[t] = "insert" /\ session[t] \notin raced => Cardinality(Fresh(stream[t])) < MaxPeers

IInv ==
  /\ TypeOK /\ Made /\ InHand /\ OneMaker /\ Unlisted /\ Unbuilt
  /\ Built /\ Reading /\ Hands /\ Stopping /\ Erased /\ Room /\ Counted
  /\ LimitUnlessRaced /\ ListedIsLive /\ NothingRunsUnowned /\ EndedMakeRoom

-----------------------------------------------------------------------------
(* Each part of the invariant is kept by every step: first the types. *)
LEMMA TypeStep ==
  ASSUME TypeOK, InHand, [Next]_vars
  PROVE  TypeOK'
<1> USE MaxSessionsAssumption
    DEF TypeOK, Ids, At, Goto, publisher, gstreamer, peer, offer, start, InHand, Offering, Starting, Deleting, Peers
<1>1. ASSUME NEW t \in Threads, NEW i \in Ids, Erase(t, i) PROVE TypeOK'
  BY <1>1 DEF Erase
<1>2. ASSUME NEW t \in Threads, NEW i \in Ids, Take(t, i) PROVE TypeOK'
  BY <1>2 DEF Take, Takable, AfterTake, BeingPlayed
<1>3. ASSUME NEW t \in Threads, NEW i \in Ids, TakeRest(t, i) PROVE TypeOK'
  BY <1>3 DEF TakeRest, Takable
<1>4. ASSUME NEW t \in Threads, Halt(t) PROVE TypeOK'
  BY <1>4 DEF Halt
<1>5. ASSUME NEW t \in Threads, EndDelete(t) PROVE TypeOK'
  BY <1>5 DEF EndDelete
<1>6. ASSUME NEW t \in Threads, Return(t) PROVE TypeOK'
  BY <1>6 DEF Return, Destroyed
<1>7. ASSUME NEW t \in Threads, NEW i \in Ids, DeleteSession(t, i) PROVE TypeOK'
  BY <1>7 DEF DeleteSession
<1>8. ASSUME NEW t \in Threads, ClearSessions(t) PROVE TypeOK'
  BY <1>8 DEF ClearSessions
<1>9. ASSUME NEW t \in Threads, NEW s \in Streams, Offer(t, s) PROVE TypeOK'
  BY <1>9 DEF Offer, ShouldExpire
<1>10. ASSUME NEW t \in Threads, Accept(t) PROVE TypeOK'
  BY <1>10 DEF Accept, HasRoom
<1>11. ASSUME NEW t \in Threads, Refuse(t) PROVE TypeOK'
  BY <1>11 DEF Refuse
<1>12. ASSUME NEW t \in Threads, Insert(t) PROVE TypeOK'
  <2>1. session[t] \in Ids
    BY <1>12 DEF Insert
  <2> DEFINE Rivals == {u \in Threads \ {t} : pc[u] = "insert" /\ stream[u] = stream[t]}
  <2>2. \A u \in Rivals : session[u] \in Ids
    OBVIOUS
  <2>3. raced' = raced \cup {session[u] : u \in Rivals}
    BY <1>12 DEF Insert
  <2>4. ASSUME NEW i \in raced' PROVE i \in Ids
    <3>1. CASE i \in raced
      BY <3>1
    <3>2. CASE i \notin raced
      <4>1. PICK u \in Rivals : i = session[u]
        BY <2>3, <2>4, <3>2
      <4> QED
        BY <2>2, <4>1
    <3> QED
      BY <3>1, <3>2
  <2> QED
    BY <1>12, <2>1, <2>4 DEF Insert
<1>13. ASSUME NEW t \in Threads, Build(t) PROVE TypeOK'
  <2>1. elements \in [Ids -> SUBSET Elements] /\ {"pipeline"} \in SUBSET Elements
    BY DEF Elements
  <2>2. \/ elements' = elements
        \/ elements' = [elements EXCEPT ![session[t]] = {"pipeline"}]
    BY <1>13 DEF Build
  <2>3. elements' \in [Ids -> SUBSET Elements]
    <3> HIDE DEF TypeOK, InHand, Ids
    <3> QED
      BY <2>1, <2>2
  <2> QED
    BY <1>13, <2>3 DEF Build
<1>14. ASSUME NEW t \in Threads, Play(t) PROVE TypeOK'
  <2>1. session[t] \in Ids /\ {session[t]} \in SUBSET Ids
    BY <1>14 DEF Play, GiveUp, ReadNothing
  <2>2. CASE Play(t)!2!1
    BY <1>14, <2>1, <2>2 DEF Play, GiveUp, ReadNothing
  <2>3. CASE Play(t)!2!2
    BY <1>14, <2>1, <2>3 DEF Play, GiveUp, ReadNothing
  <2> QED
    BY <1>14, <2>2, <2>3 DEF Play, GiveUp, ReadNothing
<1>15. ASSUME NEW t \in Threads, Negotiate(t) PROVE TypeOK'
  BY <1>15 DEF Negotiate, Negotiated
<1>16. ASSUME NEW t \in Threads, Fail(t) PROVE TypeOK'
  BY <1>16 DEF Fail, Failed
<1>17. ASSUME NEW t \in Threads, NEW s \in Streams, PublishFrame(t, s) PROVE TypeOK'
  BY <1>17 DEF PublishFrame
<1>18. ASSUME NEW t \in Threads, NEW i \in Ids, PassSession(t, i) PROVE TypeOK'
  BY <1>18 DEF PassSession
<1>19. ASSUME NEW t \in Threads, NEW i \in Ids, BeginPush(t, i) PROVE TypeOK'
  BY <1>19 DEF BeginPush
<1>20. ASSUME NEW t \in Threads, EndPush(t) PROVE TypeOK'
  BY <1>20 DEF EndPush
<1>21. ASSUME NEW t \in Threads, EndPublish(t) PROVE TypeOK'
  BY <1>21 DEF EndPublish
<1>22. CASE \E s \in Streams : RegisterStream(s)
  BY <1>22 DEF RegisterStream
<1>23. CASE \E i \in Ids : Notify(i)
  BY <1>23 DEF Notify
<1>24. CASE \E i \in Ids : Store(i)
  BY <1>24 DEF Store
<1>25. CASE \E i \in Ids : GrowIdle(i)
  BY <1>25 DEF GrowIdle
<1>26. CASE UNCHANGED vars
  BY <1>26 DEF vars
<1>27. ASSUME NEW t \in Threads, ReadPipeline(t) PROVE TypeOK'
  BY <1>27 DEF ReadPipeline
<1>28. ASSUME NEW t \in Threads, FindElement(t) PROVE TypeOK'
  <2>1. pc[t] \in Elements /\ session[t] \in Ids
    BY <1>28 DEF FindElement, Elements, Starting
  <2>2. \/ elements' = elements
        \/ elements' = [elements EXCEPT ![session[t]] = elements[session[t]] \cup {pc[t]}]
    BY <1>28 DEF FindElement
  <2>3. elements \in [Ids -> SUBSET Elements]
    OBVIOUS
  <2>4. elements' \in [Ids -> SUBSET Elements]
    <3> HIDE DEF TypeOK, InHand, Ids
    <3>1. elements[session[t]] \cup {pc[t]} \in SUBSET Elements
      BY <2>1, <2>3
    <3> QED
      BY <2>2, <2>3, <3>1
  <2> QED
    BY <1>28, <2>4 DEF FindElement
<1>29. ASSUME NEW t \in Threads, Found(t) PROVE TypeOK'
  <2>1. session[t] \in Ids /\ {session[t]} \in SUBSET Ids
    BY <1>29 DEF Found, Starting
  <2>2. CASE Goto(t, "play") /\ UNCHANGED <<todo, removed, then>>
    BY <1>29, <2>2 DEF Found
  <2>3. CASE GiveUp(t)
    BY <1>29, <2>1, <2>3 DEF Found, GiveUp
  <2> QED
    BY <1>29, <2>2, <2>3 DEF Found
<1> QED
  BY <1>1, <1>2, <1>3, <1>4, <1>5, <1>6, <1>7, <1>8, <1>9, <1>10, <1>11,
     <1>12, <1>13, <1>14, <1>15, <1>16, <1>17, <1>18, <1>19, <1>20, <1>21,
     <1>22, <1>23, <1>24, <1>25, <1>26, <1>27, <1>28, <1>29
  DEF Next, Step

(* Nobody holds or lists an id that was not given out. *)
LEMMA MadeStep ==
  ASSUME TypeOK, TypeOK', Made, InHand, [Next]_vars
  PROVE  Made'
<1> USE DEF TypeOK, Ids, Goto, publisher, gstreamer, peer, offer, start,
            Made, Known, InHand, Offering, Starting, Deleting, Peers
<1>1. ASSUME NEW t \in Threads, NEW i \in Ids, Erase(t, i) PROVE Made'
  BY <1>1 DEF Erase
<1>2. ASSUME NEW t \in Threads, NEW i \in Ids, Take(t, i) PROVE Made'
  BY <1>2 DEF Take, Takable, AfterTake, BeingPlayed
<1>3. ASSUME NEW t \in Threads, NEW i \in Ids, TakeRest(t, i) PROVE Made'
  BY <1>3 DEF TakeRest, Takable
<1>4. ASSUME NEW t \in Threads, Halt(t) PROVE Made'
  BY <1>4 DEF Halt
<1>5. ASSUME NEW t \in Threads, Return(t) PROVE Made'
  BY <1>5 DEF Return, Destroyed
<1>6. ASSUME NEW t \in Threads, ClearSessions(t) PROVE Made'
  BY <1>6, ZenonT(60) DEF ClearSessions
<1>7. ASSUME NEW t \in Threads, NEW s \in Streams, Offer(t, s) PROVE Made'
  BY <1>7 DEF Offer, ShouldExpire
<1>8. ASSUME NEW t \in Threads, Accept(t) PROVE Made'
  BY <1>8 DEF Accept, HasRoom
<1>9. ASSUME NEW t \in Threads, Refuse(t) PROVE Made'
  BY <1>9 DEF Refuse
<1>10. ASSUME NEW t \in Threads, Insert(t) PROVE Made'
  BY <1>10 DEF Insert
<1>11. ASSUME NEW t \in Threads, Build(t) PROVE Made'
  BY <1>11 DEF Build
<1>12. ASSUME NEW t \in Threads, Play(t) PROVE Made'
  BY <1>12 DEF Play, GiveUp, ReadNothing
<1>13. ASSUME NEW t \in Threads, NEW s \in Streams, PublishFrame(t, s) PROVE Made'
  BY <1>13 DEF PublishFrame
<1>14. ASSUME NEW t \in Threads,
              \/ \E i \in Ids : DeleteSession(t, i) \/ PassSession(t, i) \/ BeginPush(t, i)
              \/ EndDelete(t) \/ Negotiate(t) \/ Fail(t) \/ EndPush(t) \/ EndPublish(t)
      PROVE Made'
  BY <1>14 DEF EndDelete, DeleteSession, Negotiate, Negotiated, Fail, Failed,
     PassSession, BeginPush, EndPush, EndPublish
<1>15. CASE \/ \E s \in Streams : RegisterStream(s)
            \/ \E i \in Ids : Notify(i) \/ Store(i) \/ GrowIdle(i)
            \/ UNCHANGED vars
  BY <1>15 DEF RegisterStream, Notify, Store, GrowIdle, vars
<1>16. ASSUME NEW t \in Threads, ReadPipeline(t) PROVE Made'
  BY <1>16 DEF ReadPipeline
<1>17. ASSUME NEW t \in Threads, FindElement(t) PROVE Made'
  BY <1>17 DEF FindElement, ReadNothing
<1>18. ASSUME NEW t \in Threads, Found(t) PROVE Made'
  BY <1>18 DEF Found, GiveUp
<1> QED
  BY <1>1, <1>2, <1>3, <1>4, <1>5, <1>6, <1>7, <1>8, <1>9, <1>10, <1>11,
     <1>12, <1>13, <1>14, <1>15, <1>16, <1>17, <1>18
  DEF Next, Step

(* A thread's steps go with what it has in hand. *)
LEMMA InHandStep ==
  ASSUME TypeOK, TypeOK', InHand, [Next]_vars
  PROVE  InHand'
<1> USE DEF TypeOK, Ids, Goto, publisher, gstreamer, peer, offer, start,
            InHand, Offering, Starting, Deleting
<1>1. ASSUME NEW t \in Threads, NEW i \in Ids, Erase(t, i) PROVE InHand'
  BY <1>1 DEF Erase
<1>2. ASSUME NEW t \in Threads, NEW i \in Ids, TakeRest(t, i) PROVE InHand'
  BY <1>2 DEF TakeRest, Takable
<1>3. ASSUME NEW t \in Threads, Halt(t) PROVE InHand'
  BY <1>3 DEF Halt
<1>4. ASSUME NEW t \in Threads, EndDelete(t) PROVE InHand'
  BY <1>4 DEF EndDelete
<1>5. ASSUME NEW t \in Threads, Return(t) PROVE InHand'
  BY <1>5 DEF Return, Destroyed
<1>6. ASSUME NEW t \in Threads, ClearSessions(t) PROVE InHand'
  BY <1>6 DEF ClearSessions
<1>7. ASSUME NEW t \in Threads, NEW s \in Streams, Offer(t, s) PROVE InHand'
  BY <1>7 DEF Offer, ShouldExpire
<1>8. ASSUME NEW t \in Threads, Accept(t) PROVE InHand'
  BY <1>8 DEF Accept, HasRoom
<1>9. ASSUME NEW t \in Threads, Play(t) PROVE InHand'
  BY <1>9 DEF Play, GiveUp, ReadNothing
<1>10. ASSUME NEW t \in Threads, Fail(t) PROVE InHand'
  BY <1>10 DEF Fail, Failed
<1>11. ASSUME NEW t \in Threads, NEW s \in Streams, PublishFrame(t, s) PROVE InHand'
  BY <1>11 DEF PublishFrame
<1>12. ASSUME NEW t \in Threads,
              \/ \E i \in Ids : Take(t, i) \/ DeleteSession(t, i) \/ PassSession(t, i)
              \/ \E i \in Ids : BeginPush(t, i)
              \/ Refuse(t) \/ Insert(t) \/ Build(t) \/ Negotiate(t) \/ EndPush(t)
              \/ EndPublish(t)
      PROVE InHand'
  BY <1>12 DEF Take, Takable, AfterTake, BeingPlayed, DeleteSession, Refuse, Insert, Build,
     Negotiate, Negotiated, PassSession, BeginPush, EndPush, EndPublish
<1>13. CASE \/ \E s \in Streams : RegisterStream(s)
            \/ \E i \in Ids : Notify(i) \/ Store(i) \/ GrowIdle(i)
            \/ UNCHANGED vars
  BY <1>13 DEF RegisterStream, Notify, Store, GrowIdle, vars
<1>14. ASSUME NEW t \in Threads, ReadPipeline(t) PROVE InHand'
  BY <1>14 DEF ReadPipeline
<1>15. ASSUME NEW t \in Threads, FindElement(t) PROVE InHand'
  BY <1>15 DEF FindElement, ReadNothing
<1>16. ASSUME NEW t \in Threads, Found(t) PROVE InHand'
  BY <1>16 DEF Found, GiveUp
<1> QED
  BY <1>1, <1>2, <1>3, <1>4, <1>5, <1>6, <1>7, <1>8, <1>9, <1>10, <1>11,
     <1>12, <1>13, <1>14, <1>15, <1>16
  DEF Next, Step

(* Two offers never make the same session. *)
LEMMA OneMakerStep ==
  ASSUME TypeOK, TypeOK', Made, InHand, OneMaker, [Next]_vars
  PROVE  OneMaker'
<1> USE DEF TypeOK, Ids, Goto, publisher, gstreamer, peer, offer, start,
            Made, Known, InHand, Offering, Starting, Deleting, OneMaker
<1>1. ASSUME NEW t \in Threads, Return(t) PROVE OneMaker'
  BY <1>1 DEF Return, Destroyed
<1>2. ASSUME NEW t \in Threads, Accept(t) PROVE OneMaker'
  BY <1>2 DEF Accept, HasRoom
<1>3. ASSUME NEW t \in Threads,
             \/ \E i \in Ids : Erase(t, i) \/ Take(t, i) \/ TakeRest(t, i)
             \/ \E i \in Ids : DeleteSession(t, i) \/ PassSession(t, i) \/ BeginPush(t, i)
             \/ \E s \in Streams : Offer(t, s) \/ PublishFrame(t, s)
             \/ Halt(t) \/ EndDelete(t) \/ ClearSessions(t) \/ Refuse(t) \/ Insert(t)
             \/ Build(t) \/ Play(t) \/ Negotiate(t) \/ Fail(t) \/ EndPush(t)
             \/ EndPublish(t)
      PROVE OneMaker'
  BY <1>3 DEF Erase, Take, Takable, AfterTake, BeingPlayed, TakeRest, Halt, EndDelete,
     DeleteSession, ClearSessions, Offer, ShouldExpire, Refuse, Insert, Build, Play,
     Negotiate, Negotiated, Fail, Failed, PublishFrame, PassSession, BeginPush,
     EndPush, EndPublish
<1>4. CASE \/ \E s \in Streams : RegisterStream(s)
           \/ \E i \in Ids : Notify(i) \/ Store(i) \/ GrowIdle(i)
           \/ UNCHANGED vars
  BY <1>4 DEF RegisterStream, Notify, Store, GrowIdle, vars
<1>5. ASSUME NEW t \in Threads, ReadPipeline(t) PROVE OneMaker'
  BY <1>5 DEF ReadPipeline
<1>6. ASSUME NEW t \in Threads, FindElement(t) PROVE OneMaker'
  BY <1>6 DEF FindElement, ReadNothing
<1>7. ASSUME NEW t \in Threads, Found(t) PROVE OneMaker'
  BY <1>7 DEF Found, GiveUp
<1> QED
  BY <1>1, <1>2, <1>3, <1>4, <1>5, <1>6, <1>7
  DEF Next, Step

(* Nobody else meets a session before Insert lists it. *)
LEMMA UnlistedStep ==
  ASSUME TypeOK, TypeOK', Made, InHand, OneMaker, Unlisted, [Next]_vars
  PROVE  Unlisted'
<1> USE DEF TypeOK, Ids, Goto, publisher, gstreamer, peer, offer, start,
            Made, Known, InHand, Offering, Starting, Deleting, OneMaker, Unlisted, Holds,
            Peers
<1>1. ASSUME NEW t \in Threads, NEW i \in Ids, Erase(t, i) PROVE Unlisted'
  BY <1>1 DEF Erase
<1>2. ASSUME NEW t \in Threads, NEW i \in Ids, TakeRest(t, i) PROVE Unlisted'
  BY <1>2 DEF TakeRest, Takable
<1>3. ASSUME NEW t \in Threads, Halt(t) PROVE Unlisted'
  BY <1>3 DEF Halt
<1>4. ASSUME NEW t \in Threads, Return(t) PROVE Unlisted'
  BY <1>4 DEF Return, Destroyed
<1>5. ASSUME NEW t \in Threads, ClearSessions(t) PROVE Unlisted'
  BY <1>5 DEF ClearSessions
<1>6. ASSUME NEW t \in Threads, NEW s \in Streams, Offer(t, s) PROVE Unlisted'
  BY <1>6 DEF Offer, ShouldExpire
<1>7. ASSUME NEW t \in Threads, Accept(t) PROVE Unlisted'
  BY <1>7 DEF Accept, HasRoom
<1>8. ASSUME NEW t \in Threads, Refuse(t) PROVE Unlisted'
  BY <1>8 DEF Refuse
<1>9. ASSUME NEW t \in Threads, Insert(t) PROVE Unlisted'
  BY <1>9 DEF Insert
<1>10. ASSUME NEW t \in Threads, Play(t) PROVE Unlisted'
  <2>1. ASSUME NEW u \in Threads, pc'[u] = "insert"
        PROVE  u # t /\ pc[u] = "insert" /\ session[u] # session[t]
    BY <1>10, <2>1 DEF Play, GiveUp, ReadNothing
  <2>2. removed'[t] \subseteq removed[t] \cup {session[t]}
    BY <1>10 DEF Play, GiveUp, ReadNothing
  <2>3. /\ \A u \in Threads \ {t} : removed'[u] = removed[u]
        /\ UNCHANGED <<sessions_, stream_key, stream, session, held, dead>>
    BY <1>10 DEF Play, GiveUp, ReadNothing
  <2>4. SUFFICES ASSUME NEW u \in Threads, pc'[u] = "insert"
                 PROVE  /\ session[u] \notin sessions_ /\ stream_key[session[u]] = stream[u]
                        /\ \A v \in Threads : session[u] \notin removed'[v] /\ session[u] \notin dead[v]
                        /\ \A v \in Threads \ {u} : session[u] \notin held[v]
    BY <2>3
  <2>5. pc[u] = "insert" /\ session[u] # session[t]
    BY <2>1, <2>4
  <2>6. ASSUME NEW v \in Threads PROVE session[u] \notin removed'[v]
    <3>1. session[u] \notin removed[v]
      BY <2>5
    <3>2. CASE v = t
      BY <2>2, <2>5, <3>1, <3>2
    <3>3. CASE v # t
      BY <2>3, <3>1, <3>3
    <3> QED
      BY <3>2, <3>3
  <2> QED
    BY <2>5, <2>6
<1>11. ASSUME NEW t \in Threads, NEW s \in Streams, PublishFrame(t, s) PROVE Unlisted'
  BY <1>11 DEF PublishFrame
<1>12. ASSUME NEW t \in Threads,
              \/ \E i \in Ids : Take(t, i) \/ DeleteSession(t, i) \/ PassSession(t, i)
              \/ \E i \in Ids : BeginPush(t, i)
              \/ EndDelete(t) \/ Build(t) \/ Negotiate(t) \/ Fail(t) \/ EndPush(t)
              \/ EndPublish(t)
      PROVE Unlisted'
  BY <1>12 DEF Take, Takable, AfterTake, BeingPlayed, EndDelete, DeleteSession, Build, Negotiate,
     Negotiated, Fail, Failed, PassSession, BeginPush, EndPush, EndPublish
<1>13. CASE \/ \E s \in Streams : RegisterStream(s)
            \/ \E i \in Ids : Notify(i) \/ Store(i) \/ GrowIdle(i)
            \/ UNCHANGED vars
  BY <1>13 DEF RegisterStream, Notify, Store, GrowIdle, vars
<1>14. ASSUME NEW t \in Threads, ReadPipeline(t) PROVE Unlisted'
  BY <1>14 DEF ReadPipeline
<1>15. ASSUME NEW t \in Threads, FindElement(t) PROVE Unlisted'
  BY <1>15 DEF FindElement, ReadNothing
<1>16. ASSUME NEW t \in Threads, Found(t) PROVE Unlisted'
  <2>1. ASSUME NEW u \in Threads, pc'[u] = "insert"
        PROVE  u # t /\ pc[u] = "insert" /\ session[u] # session[t]
    BY <1>16, <2>1 DEF Found, GiveUp
  <2>2. removed'[t] \subseteq removed[t] \cup {session[t]}
    BY <1>16 DEF Found, GiveUp
  <2>3. /\ \A u \in Threads \ {t} : removed'[u] = removed[u]
        /\ UNCHANGED <<sessions_, stream_key, stream, session, held, dead>>
    BY <1>16 DEF Found, GiveUp
  <2>4. SUFFICES ASSUME NEW u \in Threads, pc'[u] = "insert"
                 PROVE  /\ session[u] \notin sessions_ /\ stream_key[session[u]] = stream[u]
                        /\ \A v \in Threads : session[u] \notin removed'[v] /\ session[u] \notin dead[v]
                        /\ \A v \in Threads \ {u} : session[u] \notin held[v]
    BY <2>3
  <2>5. pc[u] = "insert" /\ session[u] # session[t]
    BY <2>1, <2>4
  <2>6. ASSUME NEW v \in Threads PROVE session[u] \notin removed'[v]
    <3>1. session[u] \notin removed[v]
      BY <2>5
    <3>2. CASE v = t
      BY <2>2, <2>5, <3>1, <3>2
    <3>3. CASE v # t
      BY <2>3, <3>1, <3>3
    <3> QED
      BY <3>2, <3>3
  <2> QED
    BY <2>5, <2>6
<1> QED
  BY <1>1, <1>2, <1>3, <1>4, <1>5, <1>6, <1>7, <1>8, <1>9, <1>10, <1>11,
     <1>12, <1>13, <1>14, <1>15, <1>16
  DEF Next, Step

(* A session has no elements before its start(). *)
LEMMA UnbuiltStep ==
  ASSUME TypeOK, TypeOK', Made, InHand, OneMaker, Unlisted, Unbuilt, [Next]_vars
  PROVE  Unbuilt'
<1> USE DEF TypeOK, Ids, Goto, publisher, gstreamer, peer, offer, start,
            Made, Known, InHand, Offering, Starting, Deleting, OneMaker, Unlisted, Unbuilt
<1>1. ASSUME NEW t \in Threads, NEW i \in Ids, Take(t, i) PROVE Unbuilt'
  BY <1>1 DEF Take, Takable, AfterTake, BeingPlayed
<1>2. ASSUME NEW t \in Threads, Return(t) PROVE Unbuilt'
  BY <1>2 DEF Return, Destroyed
<1>3. ASSUME NEW t \in Threads, Accept(t) PROVE Unbuilt'
  BY <1>3 DEF Accept, HasRoom
<1>4. ASSUME NEW t \in Threads, Build(t) PROVE Unbuilt'
  BY <1>4 DEF Build
<1>5. ASSUME NEW t \in Threads,
             \/ \E i \in Ids : Erase(t, i) \/ TakeRest(t, i) \/ DeleteSession(t, i)
             \/ \E i \in Ids : PassSession(t, i) \/ BeginPush(t, i)
             \/ \E s \in Streams : Offer(t, s) \/ PublishFrame(t, s)
             \/ Halt(t) \/ EndDelete(t) \/ ClearSessions(t) \/ Refuse(t) \/ Insert(t)
             \/ Play(t) \/ Negotiate(t) \/ Fail(t) \/ EndPush(t) \/ EndPublish(t)
      PROVE Unbuilt'
  BY <1>5 DEF Erase, TakeRest, Halt, EndDelete, DeleteSession, ClearSessions,
     Offer, ShouldExpire, Refuse, Insert, Play, GiveUp, ReadNothing, Negotiate, Negotiated, Fail, Failed,
     PublishFrame, PassSession, BeginPush, EndPush, EndPublish
<1>6. CASE \/ \E s \in Streams : RegisterStream(s)
           \/ \E i \in Ids : Notify(i) \/ Store(i) \/ GrowIdle(i)
           \/ UNCHANGED vars
  BY <1>6 DEF RegisterStream, Notify, Store, GrowIdle, vars
<1>7. ASSUME NEW t \in Threads, ReadPipeline(t) PROVE Unbuilt'
  BY <1>7 DEF ReadPipeline
<1>8. ASSUME NEW t \in Threads, FindElement(t) PROVE Unbuilt'
  BY <1>8 DEF FindElement, ReadNothing
<1>9. ASSUME NEW t \in Threads, Found(t) PROVE Unbuilt'
  BY <1>9 DEF Found, GiveUp
<1> QED
  BY <1>1, <1>2, <1>3, <1>4, <1>5, <1>6, <1>7, <1>8, <1>9
  DEF Next, Step

(* Nobody takes from a listed session what its start() has set. *)
LEMMA BuiltStep ==
  ASSUME TypeOK, TypeOK', Made, InHand, OneMaker, Erased, Built, [Next]_vars
  PROVE  Built'
<1> USE DEF TypeOK, Ids, Goto, publisher, gstreamer, peer, offer, start,
            Made, Known, InHand, Offering, Starting, Deleting, OneMaker, Erased, Built
<1>1. ASSUME NEW t \in Threads, NEW i \in Ids, Take(t, i) PROVE Built'
  BY <1>1 DEF Take, Takable, AfterTake, BeingPlayed
<1>2. ASSUME NEW t \in Threads, NEW i \in Ids, TakeRest(t, i) PROVE Built'
  BY <1>2 DEF TakeRest, Takable
<1>3. ASSUME NEW t \in Threads, Accept(t) PROVE Built'
  BY <1>3 DEF Accept, HasRoom
<1>4. ASSUME NEW t \in Threads, Insert(t) PROVE Built'
  BY <1>4 DEF Insert
<1>5. ASSUME NEW t \in Threads, Build(t) PROVE Built'
  BY <1>5 DEF Build
<1>6. ASSUME NEW t \in Threads, ReadPipeline(t) PROVE Built'
  BY <1>6 DEF ReadPipeline
<1>7. ASSUME NEW t \in Threads, FindElement(t) PROVE Built'
  BY <1>7 DEF FindElement, ReadNothing
<1>8. ASSUME NEW t \in Threads, Found(t) PROVE Built'
  BY <1>8 DEF Found, GiveUp, Elements
<1>9. ASSUME NEW t \in Threads, Play(t) PROVE Built'
  BY <1>9 DEF Play, GiveUp, ReadNothing
<1>10. ASSUME NEW t \in Threads,
             \/ \E i \in Ids : Erase(t, i) \/ DeleteSession(t, i)
             \/ \E i \in Ids : PassSession(t, i) \/ BeginPush(t, i)
             \/ \E s \in Streams : Offer(t, s) \/ PublishFrame(t, s)
             \/ Halt(t) \/ EndDelete(t) \/ Return(t) \/ ClearSessions(t) \/ Refuse(t)
             \/ Negotiate(t) \/ Fail(t) \/ EndPush(t) \/ EndPublish(t)
      PROVE Built'
  BY <1>10 DEF Erase, Halt, EndDelete, Return, Destroyed, DeleteSession, ClearSessions,
     Offer, ShouldExpire, Refuse, Negotiate, Negotiated, Fail, Failed,
     PublishFrame, PassSession, BeginPush, EndPush, EndPublish
<1>11. CASE \/ \E s \in Streams : RegisterStream(s)
            \/ \E i \in Ids : Notify(i) \/ Store(i) \/ GrowIdle(i)
            \/ UNCHANGED vars
  BY <1>11 DEF RegisterStream, Notify, Store, GrowIdle, vars
<1> HIDE DEF TypeOK, Made, InHand, OneMaker, Erased, Built
<1> QED
  BY <1>1, <1>2, <1>3, <1>4, <1>5, <1>6, <1>7, <1>8, <1>9, <1>10, <1>11
  DEF Next, Step

(* Whoever takes a pipeline that is about to be played has overtaken it. *)
LEMMA ReadingStep ==
  ASSUME TypeOK, TypeOK', InHand, OneMaker, Reading, [Next]_vars
  PROVE  Reading'
<1> USE DEF TypeOK, Ids, Goto, publisher, gstreamer, peer, offer, start,
            InHand, Offering, Starting, Deleting, OneMaker, Reading
<1>1. ASSUME NEW t \in Threads, NEW i \in Ids, Take(t, i) PROVE Reading'
  BY <1>1 DEF Take, Takable, AfterTake, BeingPlayed
<1>2. ASSUME NEW t \in Threads, NEW i \in Ids, TakeRest(t, i) PROVE Reading'
  BY <1>2 DEF TakeRest, Takable
<1>3. ASSUME NEW t \in Threads, Accept(t) PROVE Reading'
  BY <1>3 DEF Accept, HasRoom
<1>4. ASSUME NEW t \in Threads, Return(t) PROVE Reading'
  BY <1>4 DEF Return, Destroyed
<1>5. ASSUME NEW t \in Threads, Build(t) PROVE Reading'
  BY <1>5 DEF Build
<1>6. ASSUME NEW t \in Threads, ReadPipeline(t) PROVE Reading'
  BY <1>6 DEF ReadPipeline
<1>7. ASSUME NEW t \in Threads, FindElement(t) PROVE Reading'
  BY <1>7 DEF FindElement, ReadNothing
<1>8. ASSUME NEW t \in Threads, Found(t) PROVE Reading'
  BY <1>8 DEF Found, GiveUp
<1>9. ASSUME NEW t \in Threads, Play(t) PROVE Reading'
  BY <1>9 DEF Play, GiveUp, ReadNothing
<1>10. ASSUME NEW t \in Threads,
             \/ \E i \in Ids : Erase(t, i) \/ DeleteSession(t, i)
             \/ \E i \in Ids : PassSession(t, i) \/ BeginPush(t, i)
             \/ \E s \in Streams : Offer(t, s) \/ PublishFrame(t, s)
             \/ Halt(t) \/ EndDelete(t) \/ ClearSessions(t) \/ Refuse(t) \/ Insert(t)
             \/ Negotiate(t) \/ Fail(t) \/ EndPush(t) \/ EndPublish(t)
      PROVE Reading'
  BY <1>10 DEF Erase, Halt, EndDelete, DeleteSession, ClearSessions,
     Offer, ShouldExpire, Refuse, Insert, Negotiate, Negotiated, Fail, Failed,
     PublishFrame, PassSession, BeginPush, EndPush, EndPublish
<1>11. CASE \/ \E s \in Streams : RegisterStream(s)
            \/ \E i \in Ids : Notify(i) \/ Store(i) \/ GrowIdle(i)
            \/ UNCHANGED vars
  BY <1>11 DEF RegisterStream, Notify, Store, GrowIdle, vars
<1> HIDE DEF TypeOK, InHand, OneMaker, Reading
<1> QED
  BY <1>1, <1>2, <1>3, <1>4, <1>5, <1>6, <1>7, <1>8, <1>9, <1>10, <1>11
  DEF Next, Step

(* push_frame and stop() keep out of each other's way. *)
LEMMA HandsStep ==
  ASSUME TypeOK, TypeOK', Made, InHand, OneMaker, Unbuilt, Hands, [Next]_vars
  PROVE  Hands'
<1> USE DEF TypeOK, Ids, Goto, publisher, gstreamer, peer, offer, start,
            Made, Known, InHand, Offering, Starting, Deleting, OneMaker, Unbuilt, Hands
<1>1. ASSUME NEW t \in Threads, NEW i \in Ids, Erase(t, i) PROVE Hands'
  BY <1>1 DEF Erase
<1>2. ASSUME NEW t \in Threads, NEW i \in Ids, Take(t, i) PROVE Hands'
  <2>1. pc' = [pc EXCEPT ![t] = "halt"] /\ current' = [current EXCEPT ![t] = i]
    BY <1>2 DEF Take
  <2>2. elements' = [elements EXCEPT ![i] = {}] /\ mutex' = [mutex EXCEPT ![i] = Free]
    BY <1>2 DEF Take, AfterTake
  <2>3. mutex[i] = Free /\ i \in removed[t] /\ removed' = removed
    BY <1>2 DEF Take, Takable
  <2>4. ASSUME NEW u \in Threads, pc'[u] = "push"
        PROVE current'[u] \in Ids /\ mutex'[current'[u]] = u /\ "appsrc" \in elements'[current'[u]]
    <3>1. u # t /\ pc[u] = "push" /\ current'[u] = current[u]
      BY <2>1, <2>4
    <3>2. current[u] # i
      BY <2>3, <3>1, ThreadsAssumption
    <3> QED
      BY <2>2, <3>1, <3>2
  <2>5. ASSUME NEW u \in Threads, pc'[u] = "halt"
        PROVE current'[u] \in removed'[u]
    BY <2>1, <2>2, <2>3, <2>5
  <2> QED
    BY <2>4, <2>5
<1>3. ASSUME NEW t \in Threads, NEW i \in Ids, TakeRest(t, i) PROVE Hands'
  <2>1. elements' = [elements EXCEPT ![i] = {}] /\ mutex[i] = Free /\ pc[t] = "delete"
    BY <1>3 DEF TakeRest, Takable
  <2>2. removed' = [removed EXCEPT ![t] = @ \ {i}] /\ UNCHANGED <<pc, current, mutex>>
    BY <1>3 DEF TakeRest
  <2>3. ASSUME NEW u \in Threads, pc'[u] = "push"
        PROVE current'[u] \in Ids /\ mutex'[current'[u]] = u /\ "appsrc" \in elements'[current'[u]]
    BY <2>1, <2>2, <2>3, ThreadsAssumption
  <2>4. ASSUME NEW u \in Threads, pc'[u] = "halt" PROVE current'[u] \in removed'[u]
    BY <2>1, <2>2, <2>4
  <2> QED
    BY <2>3, <2>4
<1>4. ASSUME NEW t \in Threads, Halt(t) PROVE Hands'
  BY <1>4 DEF Halt
<1>5. ASSUME NEW t \in Threads, Return(t) PROVE Hands'
  BY <1>5 DEF Return, Destroyed
<1>6. ASSUME NEW t \in Threads, ClearSessions(t) PROVE Hands'
  BY <1>6 DEF ClearSessions
<1>7. ASSUME NEW t \in Threads, Build(t) PROVE Hands'
  BY <1>7 DEF Build
<1>8. ASSUME NEW t \in Threads, Play(t) PROVE Hands'
  BY <1>8 DEF Play, GiveUp, ReadNothing
<1>9. ASSUME NEW t \in Threads, NEW i \in Ids, BeginPush(t, i) PROVE Hands'
  <2>1. pc' = [pc EXCEPT ![t] = "push"] /\ current' = [current EXCEPT ![t] = i]
    BY <1>9 DEF BeginPush
  <2>2. mutex' = [mutex EXCEPT ![i] = t] /\ UNCHANGED <<elements, removed>>
    BY <1>9 DEF BeginPush
  <2>3. mutex[i] = Free /\ "appsrc" \in elements[i]
    BY <1>9 DEF BeginPush
  <2>4. ASSUME NEW u \in Threads, pc'[u] = "push"
        PROVE current'[u] \in Ids /\ mutex'[current'[u]] = u /\ "appsrc" \in elements'[current'[u]]
    <3>1. CASE u = t
      BY <2>1, <2>2, <2>3, <3>1
    <3>2. CASE u # t
      BY <2>1, <2>2, <2>3, <2>4, <3>2, ThreadsAssumption
    <3> QED
      BY <3>1, <3>2
  <2>5. ASSUME NEW u \in Threads, pc'[u] = "halt"
        PROVE current'[u] \in removed'[u]
    BY <2>1, <2>2, <2>5
  <2> QED
    BY <2>4, <2>5
<1>10. ASSUME NEW t \in Threads, EndPush(t) PROVE Hands'
  BY <1>10 DEF EndPush
<1>11. ASSUME NEW t \in Threads,
              \/ \E i \in Ids : DeleteSession(t, i) \/ PassSession(t, i)
              \/ \E s \in Streams : Offer(t, s) \/ PublishFrame(t, s)
              \/ EndDelete(t) \/ Accept(t) \/ Refuse(t) \/ Insert(t) \/ Negotiate(t)
              \/ Fail(t) \/ EndPublish(t)
      PROVE Hands'
  BY <1>11 DEF EndDelete, DeleteSession, Offer, ShouldExpire, Accept, HasRoom, Refuse,
     Insert, Negotiate, Negotiated, Fail, Failed, PublishFrame, PassSession, EndPublish
<1>12. CASE \/ \E s \in Streams : RegisterStream(s)
            \/ \E i \in Ids : Notify(i) \/ Store(i) \/ GrowIdle(i)
            \/ UNCHANGED vars
  BY <1>12 DEF RegisterStream, Notify, Store, GrowIdle, vars
<1>13. ASSUME NEW t \in Threads, ReadPipeline(t) PROVE Hands'
  BY <1>13 DEF ReadPipeline
<1>14. ASSUME NEW t \in Threads, FindElement(t) PROVE Hands'
  BY <1>14 DEF FindElement, ReadNothing
<1>15. ASSUME NEW t \in Threads, Found(t) PROVE Hands'
  BY <1>15 DEF Found, GiveUp
<1> QED
  BY <1>1, <1>2, <1>3, <1>4, <1>5, <1>6, <1>7, <1>8, <1>9, <1>10, <1>11,
     <1>12, <1>13, <1>14, <1>15
  DEF Next, Step

(* What stop() took plays only until it is halted. *)
LEMMA StoppingStep ==
  ASSUME TypeOK, TypeOK', Made, InHand, OneMaker, Unbuilt, Reading, Hands, Stopping,
         [Next]_vars
  PROVE  Stopping'
<1> USE DEF TypeOK, Ids, Goto, publisher, gstreamer, peer, offer, start,
            Made, Known, InHand, Offering, Starting, Deleting, OneMaker, Unbuilt, Reading,
            Hands, Stopping
<1>1. ASSUME NEW t \in Threads, NEW i \in Ids, Take(t, i) PROVE Stopping'
  BY <1>1 DEF Take, Takable, AfterTake, BeingPlayed
<1>2. ASSUME NEW t \in Threads, Halt(t) PROVE Stopping'
  BY <1>2 DEF Halt
<1>3. ASSUME NEW t \in Threads, Build(t) PROVE Stopping'
  BY <1>3 DEF Build
<1>4. ASSUME NEW t \in Threads, Play(t) PROVE Stopping'
  BY <1>4 DEF Play, GiveUp, ReadNothing
<1>5. ASSUME NEW t \in Threads, NEW i \in Ids, BeginPush(t, i) PROVE Stopping'
  BY <1>5 DEF BeginPush
<1>6. ASSUME NEW t \in Threads, EndPush(t) PROVE Stopping'
  BY <1>6 DEF EndPush
<1>7. ASSUME NEW t \in Threads,
             \/ \E i \in Ids : Erase(t, i) \/ TakeRest(t, i) \/ DeleteSession(t, i)
             \/ \E i \in Ids : PassSession(t, i)
             \/ \E s \in Streams : Offer(t, s) \/ PublishFrame(t, s)
             \/ EndDelete(t) \/ Return(t) \/ ClearSessions(t) \/ Accept(t) \/ Refuse(t)
             \/ Insert(t) \/ Negotiate(t) \/ Fail(t) \/ EndPublish(t)
      PROVE Stopping'
  BY <1>7 DEF Erase, TakeRest, EndDelete, Return, Destroyed, DeleteSession,
     ClearSessions, Offer, ShouldExpire, Accept, HasRoom, Refuse, Insert, Negotiate,
     Negotiated, Fail, Failed, PublishFrame, PassSession, EndPublish
<1>8. CASE \/ \E s \in Streams : RegisterStream(s)
           \/ \E i \in Ids : Notify(i) \/ Store(i) \/ GrowIdle(i)
           \/ UNCHANGED vars
  BY <1>8 DEF RegisterStream, Notify, Store, GrowIdle, vars
<1>9. ASSUME NEW t \in Threads, ReadPipeline(t) PROVE Stopping'
  BY <1>9 DEF ReadPipeline
<1>10. ASSUME NEW t \in Threads, FindElement(t) PROVE Stopping'
  BY <1>10 DEF FindElement, ReadNothing
<1>11. ASSUME NEW t \in Threads, Found(t) PROVE Stopping'
  BY <1>11 DEF Found, GiveUp
<1> QED
  BY <1>1, <1>2, <1>3, <1>4, <1>5, <1>6, <1>7, <1>8, <1>9, <1>10, <1>11, ZenonT(60)
  DEF Next, Step

(* Sessions are erased before they are stopped. *)
LEMMA ErasedStep ==
  ASSUME TypeOK, TypeOK', Made, InHand, OneMaker, Unlisted, Erased, [Next]_vars
  PROVE  Erased'
<1> USE DEF TypeOK, Ids, Goto, publisher, gstreamer, peer, offer, start,
            Made, Known, InHand, Offering, Starting, Deleting, OneMaker, Unlisted, Erased
<1>1. ASSUME NEW t \in Threads, NEW i \in Ids, Erase(t, i) PROVE Erased'
  BY <1>1 DEF Erase
<1>2. ASSUME NEW t \in Threads, NEW i \in Ids, TakeRest(t, i) PROVE Erased'
  BY <1>2 DEF TakeRest, Takable
<1>3. ASSUME NEW t \in Threads, Halt(t) PROVE Erased'
  BY <1>3 DEF Halt
<1>4. ASSUME NEW t \in Threads, EndDelete(t) PROVE Erased'
  BY <1>4 DEF EndDelete
<1>5. ASSUME NEW t \in Threads, Return(t) PROVE Erased'
  BY <1>5 DEF Return, Destroyed
<1>6. ASSUME NEW t \in Threads, NEW i \in Ids, DeleteSession(t, i) PROVE Erased'
  BY <1>6 DEF DeleteSession
<1>7. ASSUME NEW t \in Threads, ClearSessions(t) PROVE Erased'
  BY <1>7 DEF ClearSessions
<1>8. ASSUME NEW t \in Threads, NEW s \in Streams, Offer(t, s) PROVE Erased'
  BY <1>8 DEF Offer, ShouldExpire
<1>9. ASSUME NEW t \in Threads, Accept(t) PROVE Erased'
  BY <1>9 DEF Accept, HasRoom
<1>10. ASSUME NEW t \in Threads, Insert(t) PROVE Erased'
  BY <1>10 DEF Insert
<1>11. ASSUME NEW t \in Threads, Play(t) PROVE Erased'
  BY <1>11 DEF Play, GiveUp, ReadNothing
<1>12. ASSUME NEW t \in Threads, Fail(t) PROVE Erased'
  BY <1>12 DEF Fail, Failed
<1>13. ASSUME NEW t \in Threads, NEW s \in Streams, PublishFrame(t, s) PROVE Erased'
  BY <1>13 DEF PublishFrame
<1>14. ASSUME NEW t \in Threads, NEW i \in Ids, PassSession(t, i) PROVE Erased'
  BY <1>14 DEF PassSession
<1>15. ASSUME NEW t \in Threads, NEW i \in Ids, BeginPush(t, i) PROVE Erased'
  BY <1>15 DEF BeginPush
<1>16. ASSUME NEW t \in Threads,
              \/ \E i \in Ids : Take(t, i)
              \/ Refuse(t) \/ Build(t) \/ Negotiate(t) \/ EndPush(t) \/ EndPublish(t)
      PROVE Erased'
  BY <1>16 DEF Take, Takable, AfterTake, BeingPlayed, Refuse, Build, Negotiate, Negotiated, EndPush,
     EndPublish
<1>17. CASE \/ \E s \in Streams : RegisterStream(s)
            \/ \E i \in Ids : Notify(i) \/ Store(i) \/ GrowIdle(i)
            \/ UNCHANGED vars
  BY <1>17 DEF RegisterStream, Notify, Store, GrowIdle, vars
<1>18. ASSUME NEW t \in Threads, ReadPipeline(t) PROVE Erased'
  BY <1>18 DEF ReadPipeline
<1>19. ASSUME NEW t \in Threads, FindElement(t) PROVE Erased'
  BY <1>19 DEF FindElement, ReadNothing
<1>20. ASSUME NEW t \in Threads, Found(t) PROVE Erased'
  BY <1>20 DEF Found, GiveUp
<1> QED
  BY <1>1, <1>2, <1>3, <1>4, <1>5, <1>6, <1>7, <1>8, <1>9, <1>10, <1>11,
     <1>12, <1>13, <1>14, <1>15, <1>16, <1>17, <1>18, <1>19, <1>20
  DEF Next, Step

(* What an offer found ended is not listed again. *)
LEMMA RoomStep ==
  ASSUME TypeOK, TypeOK', Made, InHand, Unlisted, Room, [Next]_vars
  PROVE  Room'
<1> USE DEF TypeOK, Ids, Goto, publisher, gstreamer, peer, offer, start,
            Made, Known, InHand, Offering, Starting, Deleting, Unlisted, Room
<1>1. ASSUME NEW t \in Threads, NEW i \in Ids, Erase(t, i) PROVE Room'
  BY <1>1 DEF Erase
<1>2. ASSUME NEW t \in Threads, EndDelete(t) PROVE Room'
  BY <1>2 DEF EndDelete
<1>3. ASSUME NEW t \in Threads, NEW i \in Ids, DeleteSession(t, i) PROVE Room'
  BY <1>3 DEF DeleteSession
<1>4. ASSUME NEW t \in Threads, ClearSessions(t) PROVE Room'
  BY <1>4 DEF ClearSessions
<1>5. ASSUME NEW t \in Threads, NEW s \in Streams, Offer(t, s) PROVE Room'
  BY <1>5 DEF Offer, ShouldExpire
<1>6. ASSUME NEW t \in Threads, Accept(t) PROVE Room'
  BY <1>6 DEF Accept, HasRoom
<1>7. ASSUME NEW t \in Threads, Refuse(t) PROVE Room'
  BY <1>7 DEF Refuse
<1>8. ASSUME NEW t \in Threads, Insert(t) PROVE Room'
  BY <1>8 DEF Insert
<1>9. ASSUME NEW t \in Threads, Play(t) PROVE Room'
  BY <1>9 DEF Play, GiveUp, ReadNothing
<1>10. ASSUME NEW t \in Threads, Fail(t) PROVE Room'
  BY <1>10 DEF Fail, Failed
<1>11. ASSUME NEW t \in Threads, NEW s \in Streams, PublishFrame(t, s) PROVE Room'
  BY <1>11 DEF PublishFrame
<1>12. ASSUME NEW t \in Threads, NEW i \in Ids, PassSession(t, i) PROVE Room'
  BY <1>12 DEF PassSession
<1>13. ASSUME NEW t \in Threads, NEW i \in Ids, BeginPush(t, i) PROVE Room'
  BY <1>13 DEF BeginPush
<1>14. ASSUME NEW t \in Threads,
              \/ \E i \in Ids : Take(t, i) \/ TakeRest(t, i)
              \/ Halt(t) \/ Return(t) \/ Build(t) \/ Negotiate(t) \/ EndPush(t)
              \/ EndPublish(t)
      PROVE Room'
  BY <1>14 DEF Take, Takable, AfterTake, BeingPlayed, TakeRest, Halt, Return, Destroyed,
     Build, Negotiate, Negotiated, EndPush, EndPublish
<1>15. CASE \/ \E s \in Streams : RegisterStream(s)
            \/ \E i \in Ids : Notify(i) \/ Store(i) \/ GrowIdle(i)
            \/ UNCHANGED vars
  BY <1>15 DEF RegisterStream, Notify, Store, GrowIdle, vars
<1>16. ASSUME NEW t \in Threads, ReadPipeline(t) PROVE Room'
  BY <1>16 DEF ReadPipeline
<1>17. ASSUME NEW t \in Threads, FindElement(t) PROVE Room'
  BY <1>17 DEF FindElement, ReadNothing
<1>18. ASSUME NEW t \in Threads, Found(t) PROVE Room'
  BY <1>18 DEF Found, GiveUp
<1> QED
  BY <1>1, <1>2, <1>3, <1>4, <1>5, <1>6, <1>7, <1>8, <1>9, <1>10, <1>11,
     <1>12, <1>13, <1>14, <1>15, <1>16, <1>17, <1>18
  DEF Next, Step

(* A listed session stays live until its own offer gives it up. *)
LEMMA ListedIsLiveStep ==
  ASSUME TypeOK, TypeOK', Made, InHand, OneMaker, Unlisted, Unbuilt, Hands,
         Stopping, Erased, Built, ListedIsLive, [Next]_vars
  PROVE  ListedIsLive'
<1> USE DEF TypeOK, Ids, Goto, publisher, gstreamer, peer, offer, start,
            Made, Known, InHand, Offering, Starting, Deleting, OneMaker, Unlisted, Unbuilt,
            Hands, Stopping, Erased, Built, ListedIsLive, Unready
<1>1. ASSUME NEW t \in Threads, NEW i \in Ids, Erase(t, i) PROVE ListedIsLive'
  BY <1>1 DEF Erase
<1>2. ASSUME NEW t \in Threads, NEW i \in Ids, Take(t, i) PROVE ListedIsLive'
  BY <1>2 DEF Take, Takable, AfterTake, BeingPlayed
<1>3. ASSUME NEW t \in Threads, Halt(t) PROVE ListedIsLive'
  BY <1>3 DEF Halt
<1>4. ASSUME NEW t \in Threads, Return(t) PROVE ListedIsLive'
  BY <1>4 DEF Return, Destroyed
<1>5. ASSUME NEW t \in Threads, ClearSessions(t) PROVE ListedIsLive'
  BY <1>5 DEF ClearSessions
<1>6. ASSUME NEW t \in Threads, Accept(t) PROVE ListedIsLive'
  BY <1>6 DEF Accept, HasRoom
<1>7. ASSUME NEW t \in Threads, Insert(t) PROVE ListedIsLive'
  BY <1>7 DEF Insert
<1>8. ASSUME NEW t \in Threads, Build(t) PROVE ListedIsLive'
  BY <1>8 DEF Build
<1>9. ASSUME NEW t \in Threads, Play(t) PROVE ListedIsLive'
  BY <1>9 DEF Play, GiveUp, ReadNothing
<1>10. ASSUME NEW t \in Threads,
              \/ \E i \in Ids : TakeRest(t, i) \/ DeleteSession(t, i) \/ PassSession(t, i)
              \/ \E i \in Ids : BeginPush(t, i)
              \/ \E s \in Streams : Offer(t, s) \/ PublishFrame(t, s)
              \/ EndDelete(t) \/ Refuse(t) \/ Negotiate(t) \/ Fail(t) \/ EndPush(t)
              \/ EndPublish(t)
      PROVE ListedIsLive'
  <2>1. ASSUME NEW i \in Ids, TakeRest(t, i) \/ DeleteSession(t, i) PROVE ListedIsLive'
    BY <2>1 DEF TakeRest, Takable, DeleteSession
  <2>2. ASSUME NEW i \in Ids, PassSession(t, i) \/ BeginPush(t, i) PROVE ListedIsLive'
    BY <2>2 DEF PassSession, BeginPush
  <2>3. ASSUME NEW s \in Streams, Offer(t, s) \/ PublishFrame(t, s) PROVE ListedIsLive'
    BY <2>3 DEF Offer, ShouldExpire, PublishFrame
  <2>4. CASE EndDelete(t)
    BY <2>4 DEF EndDelete
  <2>5. CASE Refuse(t)
    BY <2>5 DEF Refuse
  <2>6. CASE EndPush(t) \/ EndPublish(t)
    BY <2>6 DEF EndPush, EndPublish
  <2>7. CASE Negotiate(t)
    BY <2>7 DEF Negotiate, Negotiated
  <2>8. CASE Fail(t)
    BY <2>8 DEF Fail, Failed
  <2> HIDE DEF TypeOK, Made, InHand, Unlisted, Hands, Stopping, Erased, Built, ListedIsLive
  <2> QED
    BY <1>10, <2>1, <2>2, <2>3, <2>4, <2>5, <2>6, <2>7, <2>8
<1>11. CASE \/ \E s \in Streams : RegisterStream(s)
            \/ \E i \in Ids : Notify(i) \/ Store(i) \/ GrowIdle(i)
            \/ UNCHANGED vars
  BY <1>11 DEF RegisterStream, Notify, Store, GrowIdle, vars
<1>12. ASSUME NEW t \in Threads, ReadPipeline(t) PROVE ListedIsLive'
  BY <1>12 DEF ReadPipeline
<1>13. ASSUME NEW t \in Threads, FindElement(t) PROVE ListedIsLive'
  <2>1. session[t] \in Ids /\ pc'[t] \in Unready
    BY <1>13 DEF FindElement
  <2>2. /\ \A u \in Threads \ {t} : pc'[u] = pc[u]
        /\ \A i \in Ids \ {session[t]} : elements'[i] = elements[i]
        /\ UNCHANGED <<sessions_, session, playing>>
    BY <1>13 DEF FindElement
  <2> QED
    BY <2>1, <2>2
<1>14. ASSUME NEW t \in Threads, Found(t) PROVE ListedIsLive'
  BY <1>14 DEF Found, GiveUp
<1> HIDE DEF TypeOK, Made, InHand, Unlisted, Hands, Stopping, Erased, Built, ListedIsLive
<1> QED
  BY <1>1, <1>2, <1>3, <1>4, <1>5, <1>6, <1>7, <1>8, <1>9, <1>10, <1>11, <1>12, <1>13, <1>14
  DEF Next, Step

(* The last copy of a session takes its pipeline with it. *)
LEMMA NothingRunsUnownedStep ==
  ASSUME TypeOK, TypeOK', Made, InHand, Hands, Stopping, NothingRunsUnowned, [Next]_vars
  PROVE  NothingRunsUnowned'
<1> USE DEF TypeOK, Ids, Goto, publisher, gstreamer, peer, offer, start,
            Made, Known, InHand, Offering, Starting, Deleting, Hands, Stopping, NothingRunsUnowned,
            Holds, Peers
<1>1. ASSUME NEW t \in Threads, NEW i \in Ids, Erase(t, i) PROVE NothingRunsUnowned'
  BY <1>1 DEF Erase
<1>2. ASSUME NEW t \in Threads, NEW i \in Ids, TakeRest(t, i) PROVE NothingRunsUnowned'
  BY <1>2 DEF TakeRest, Takable
<1>3. ASSUME NEW t \in Threads, Halt(t) PROVE NothingRunsUnowned'
  BY <1>3 DEF Halt
<1>4. ASSUME NEW t \in Threads, Return(t) PROVE NothingRunsUnowned'
  BY <1>4 DEF Return, Destroyed
<1>5. ASSUME NEW t \in Threads, ClearSessions(t) PROVE NothingRunsUnowned'
  BY <1>5 DEF ClearSessions
<1>6. ASSUME NEW t \in Threads, Accept(t) PROVE NothingRunsUnowned'
  BY <1>6 DEF Accept, HasRoom
<1>7. ASSUME NEW t \in Threads, Insert(t) PROVE NothingRunsUnowned'
  BY <1>7 DEF Insert
<1>8. ASSUME NEW t \in Threads, Play(t) PROVE NothingRunsUnowned'
  BY <1>8, SMTT(60) DEF Play, GiveUp, ReadNothing
<1>9. ASSUME NEW t \in Threads, NEW s \in Streams, PublishFrame(t, s) PROVE NothingRunsUnowned'
  BY <1>9 DEF PublishFrame
<1>10. ASSUME NEW t \in Threads,
              \/ \E i \in Ids : Take(t, i) \/ DeleteSession(t, i) \/ PassSession(t, i)
              \/ \E i \in Ids : BeginPush(t, i)
              \/ \E s \in Streams : Offer(t, s)
              \/ EndDelete(t) \/ Refuse(t) \/ Build(t) \/ Negotiate(t) \/ Fail(t)
              \/ EndPush(t) \/ EndPublish(t)
      PROVE NothingRunsUnowned'
  BY <1>10 DEF Take, Takable, AfterTake, BeingPlayed, EndDelete, DeleteSession, Offer, ShouldExpire,
     Refuse, Build, Negotiate, Negotiated, Fail, Failed, PassSession, BeginPush,
     EndPush, EndPublish
<1>11. CASE \/ \E s \in Streams : RegisterStream(s)
            \/ \E i \in Ids : Notify(i) \/ Store(i) \/ GrowIdle(i)
            \/ UNCHANGED vars
  BY <1>11 DEF RegisterStream, Notify, Store, GrowIdle, vars
<1>12. ASSUME NEW t \in Threads, ReadPipeline(t) PROVE NothingRunsUnowned'
  BY <1>12 DEF ReadPipeline
<1>13. ASSUME NEW t \in Threads, FindElement(t) PROVE NothingRunsUnowned'
  BY <1>13 DEF FindElement, ReadNothing
<1>14. ASSUME NEW t \in Threads, Found(t) PROVE NothingRunsUnowned'
  BY <1>14 DEF Found, GiveUp
<1> QED
  BY <1>1, <1>2, <1>3, <1>4, <1>5, <1>6, <1>7, <1>8, <1>9, <1>10, <1>11, <1>12, <1>13, <1>14
  DEF Next, Step

(* The deletions are over when the peers are counted. *)
LEMMA EndedMakeRoomStep ==
  ASSUME TypeOK, TypeOK', Made, InHand, Unlisted, Room, EndedMakeRoom, [Next]_vars
  PROVE  EndedMakeRoom'
<1> USE DEF TypeOK, Ids, Goto, publisher, gstreamer, peer, offer, start,
            Made, Known, InHand, Offering, Starting, Deleting, Unlisted, Room, EndedMakeRoom
<1>1. ASSUME NEW t \in Threads, NEW i \in Ids, Erase(t, i) PROVE EndedMakeRoom'
  BY <1>1 DEF Erase
<1>2. ASSUME NEW t \in Threads, ClearSessions(t) PROVE EndedMakeRoom'
  BY <1>2 DEF ClearSessions
<1>3. ASSUME NEW t \in Threads, NEW s \in Streams, Offer(t, s) PROVE EndedMakeRoom'
  BY <1>3 DEF Offer, ShouldExpire
<1>4. ASSUME NEW t \in Threads, Accept(t) PROVE EndedMakeRoom'
  BY <1>4 DEF Accept, HasRoom
<1>5. ASSUME NEW t \in Threads, Refuse(t) PROVE EndedMakeRoom'
  BY <1>5 DEF Refuse
<1>6. ASSUME NEW t \in Threads, Insert(t) PROVE EndedMakeRoom'
  BY <1>6 DEF Insert
<1>7. ASSUME NEW t \in Threads,
             \/ \E i \in Ids : Take(t, i) \/ TakeRest(t, i) \/ DeleteSession(t, i)
             \/ \E i \in Ids : PassSession(t, i) \/ BeginPush(t, i)
             \/ \E s \in Streams : PublishFrame(t, s)
             \/ Halt(t) \/ EndDelete(t) \/ Return(t) \/ Build(t) \/ Play(t)
             \/ Negotiate(t) \/ Fail(t) \/ EndPush(t) \/ EndPublish(t)
      PROVE EndedMakeRoom'
  BY <1>7 DEF Take, Takable, AfterTake, BeingPlayed, TakeRest, Halt, EndDelete, Return,
     Destroyed, DeleteSession, Build, Play, GiveUp, ReadNothing, Negotiate, Negotiated, Fail, Failed,
     PublishFrame, PassSession, BeginPush, EndPush, EndPublish
<1>8. CASE \/ \E s \in Streams : RegisterStream(s)
           \/ \E i \in Ids : Notify(i) \/ Store(i) \/ GrowIdle(i)
           \/ UNCHANGED vars
  BY <1>8 DEF RegisterStream, Notify, Store, GrowIdle, vars
<1>9. ASSUME NEW t \in Threads, ReadPipeline(t) PROVE EndedMakeRoom'
  BY <1>9 DEF ReadPipeline
<1>10. ASSUME NEW t \in Threads, FindElement(t) PROVE EndedMakeRoom'
  BY <1>10 DEF FindElement, ReadNothing
<1>11. ASSUME NEW t \in Threads, Found(t) PROVE EndedMakeRoom'
  BY <1>11 DEF Found, GiveUp
<1> QED
  BY <1>1, <1>2, <1>3, <1>4, <1>5, <1>6, <1>7, <1>8, <1>9, <1>10, <1>11
  DEF Next, Step

(* Sets of sessions are finite.                                            *)
LEMMA FreshFinite ==
  ASSUME TypeOK, NEW s \in Streams
  PROVE  /\ IsFiniteSet(Fresh(s))
         /\ Cardinality(Fresh(s)) \in Nat
         /\ Cardinality(Peers(s)) \in Nat
         /\ Cardinality(Fresh(s)) <= Cardinality(Peers(s))
<1>1. IsFiniteSet(Ids)
  BY FS_Interval, MaxSessionsAssumption DEF Ids
<1>2. Peers(s) \subseteq Ids /\ Fresh(s) \subseteq Peers(s)
  BY DEF TypeOK, Peers, Fresh
<1>3. IsFiniteSet(Peers(s))
  BY <1>1, <1>2, FS_Subset
<1>4. IsFiniteSet(Fresh(s)) /\ Cardinality(Fresh(s)) <= Cardinality(Peers(s))
  BY <1>2, <1>3, FS_Subset
<1> QED
  BY <1>3, <1>4, FS_CardinalityType

(* What an insertion does to the limit: it spends the room that its offer  *)
(* was counted into, and outdates the counts of the others.                *)
LEMMA InsertCounts ==
  ASSUME TypeOK, Made, InHand, Unlisted, Counted, LimitUnlessRaced,
         NEW t \in Threads, Insert(t)
  PROVE  Counted' /\ LimitUnlessRaced'
<1>1. /\ stream[t] \in Streams
      /\ stream_key[session[t]] = stream[t] /\ session[t] \notin sessions_
  BY DEF Insert, TypeOK, Unlisted
<1>2. /\ sessions_' = sessions_ \cup {session[t]} /\ stream_key' = stream_key
      /\ raced' = raced \cup {session[u] : u \in {v \in Threads \ {t} :
                                        pc[v] = "insert" /\ stream[v] = stream[t]}}
      /\ pc' = [pc EXCEPT ![t] = "build"]
      /\ session' = session /\ stream' = stream
  BY DEF Insert, Goto
<1>3. ASSUME NEW s \in Streams, s # stream[t] \/ session[t] \in raced
      PROVE  Cardinality(Fresh(s)') <= Cardinality(Fresh(s))
  <2>1. Fresh(s)' \subseteq Fresh(s)
    BY <1>1, <1>2, <1>3 DEF Fresh, Peers
  <2> QED
    BY <2>1, FreshFinite, FS_Subset
<1>4. ASSUME NEW s \in Streams, s = stream[t], session[t] \notin raced
      PROVE  Cardinality(Fresh(s)') <= MaxPeers
  <2>1. Fresh(s)' \subseteq Fresh(s) \cup {session[t]}
    BY <1>1, <1>2 DEF Fresh, Peers
  <2>2. IsFiniteSet(Fresh(s)) /\ Cardinality(Fresh(s)) \in Nat
    BY FreshFinite
  <2>3. session[t] \notin Fresh(s)
    BY <1>1 DEF Fresh, Peers
  <2>4. /\ IsFiniteSet(Fresh(s) \cup {session[t]})
        /\ Cardinality(Fresh(s) \cup {session[t]}) = Cardinality(Fresh(s)) + 1
    BY <2>2, <2>3, FS_AddElement
  <2>5. /\ Cardinality(Fresh(s)') <= Cardinality(Fresh(s)) + 1
        /\ Cardinality(Fresh(s)') \in Nat
    BY <2>1, <2>4, FS_Subset, FS_CardinalityType
  <2>6. Cardinality(Fresh(s)) < MaxPeers
    BY <1>4 DEF Counted, Insert
  <2> QED
    BY <2>2, <2>5, <2>6, MaxPeersAssumption
<1>5. LimitUnlessRaced'
  <2> SUFFICES ASSUME NEW s \in Streams PROVE Cardinality(Fresh(s)') <= MaxPeers
    BY DEF LimitUnlessRaced, Fresh
  <2>1. Cardinality(Fresh(s)) <= MaxPeers /\ Cardinality(Fresh(s)) \in Nat
    BY FreshFinite DEF LimitUnlessRaced, Fresh
  <2>2. CASE s # stream[t] \/ session[t] \in raced
    <3>1. Cardinality(Fresh(s)') <= Cardinality(Fresh(s))
      BY <1>3, <2>2
    <3>2. Cardinality(Fresh(s)') \in Nat
      <4>1. Fresh(s)' \subseteq Fresh(s)
        BY <1>1, <1>2, <2>2 DEF Fresh, Peers
      <4> QED
        BY <4>1, FreshFinite, FS_Subset, FS_CardinalityType
    <3> QED
      BY <2>1, <3>1, <3>2, MaxPeersAssumption
  <2>3. CASE s = stream[t] /\ session[t] \notin raced
    BY <1>4, <2>3
  <2> QED
    BY <2>2, <2>3
<1>6. Counted'
  <2> SUFFICES ASSUME NEW u \in Threads, pc'[u] = "insert", session'[u] \notin raced'
               PROVE  Cardinality(Fresh(stream[u])') < MaxPeers
    BY <1>2 DEF Counted
  <2>1. u # t /\ pc[u] = "insert" /\ stream[u] \in Streams
    BY <1>2 DEF TypeOK
  <2>2. stream[u] # stream[t] /\ session[u] \notin raced
    BY <1>2, <2>1
  <2>3. Fresh(stream[u])' \subseteq Fresh(stream[u])
    BY <1>1, <1>2, <2>2 DEF Fresh, Peers
  <2>4. /\ Cardinality(Fresh(stream[u])') <= Cardinality(Fresh(stream[u]))
        /\ Cardinality(Fresh(stream[u])') \in Nat /\ Cardinality(Fresh(stream[u])) \in Nat
    BY <2>1, <2>3, FreshFinite, FS_Subset, FS_CardinalityType
  <2>5. Cardinality(Fresh(stream[u])) < MaxPeers
    BY <2>1, <2>2 DEF Counted
  <2> QED
    BY <2>4, <2>5, MaxPeersAssumption
<1> QED
  BY <1>5, <1>6

(* A step that adds no session to a stream's and starts no insertion.      *)
Shrinks ==
  /\ \A s \in Streams : Fresh(s)' \subseteq Fresh(s)
  /\ \A u \in Threads : pc'[u] = "insert" =>
       /\ pc[u] = "insert" /\ stream'[u] = stream[u]
       /\ session'[u] \in raced' \/ session[u] \notin raced

(* Such a step keeps the limit. *)
LEMMA ShrinkCounts ==
  ASSUME TypeOK, Counted, LimitUnlessRaced, Shrinks
  PROVE  Counted' /\ LimitUnlessRaced'
<1>1. ASSUME NEW s \in Streams
      PROVE  /\ Cardinality(Fresh(s)') <= Cardinality(Fresh(s))
             /\ Cardinality(Fresh(s)') \in Nat /\ Cardinality(Fresh(s)) \in Nat
  <2>1. Fresh(s)' \subseteq Fresh(s)
    BY DEF Shrinks
  <2> QED
    BY <2>1, FreshFinite, FS_Subset, FS_CardinalityType
<1>2. LimitUnlessRaced'
  <2> SUFFICES ASSUME NEW s \in Streams PROVE Cardinality(Fresh(s)') <= MaxPeers
    BY DEF LimitUnlessRaced, Fresh
  <2>1. Cardinality(Fresh(s)) <= MaxPeers
    BY DEF LimitUnlessRaced, Fresh
  <2> QED
    BY <1>1, <2>1, MaxPeersAssumption
<1>3. Counted'
  <2> SUFFICES ASSUME NEW u \in Threads, pc'[u] = "insert", session'[u] \notin raced'
               PROVE  Cardinality(Fresh(stream[u])') < MaxPeers
    BY DEF Counted
  <2>1. pc[u] = "insert" /\ stream'[u] = stream[u] /\ session[u] \notin raced
    BY DEF Shrinks
  <2>2. PICK s \in Streams : s = stream[u]
    BY DEF TypeOK
  <2>3. Cardinality(Fresh(s)) < MaxPeers
    BY <2>1, <2>2 DEF Counted
  <2>4. Cardinality(Fresh(s)') < MaxPeers
    BY <1>1, <2>3, MaxPeersAssumption
  <2> QED
    BY <2>1, <2>2, <2>4
<1> QED
  BY <1>2, <1>3

(* An accepted offer has counted the peers it is to join. *)
LEMMA AcceptCounts ==
  ASSUME TypeOK, Made, InHand, Counted, LimitUnlessRaced, NEW t \in Threads, Accept(t)
  PROVE  Counted' /\ LimitUnlessRaced'
<1>1. /\ next_id \in Ids /\ next_id \notin sessions_
      /\ stream[t] \in Streams /\ HasRoom(stream[t])
  BY DEF Accept, TypeOK, Made, Known, Ids
<1>2. /\ sessions_' = sessions_ /\ raced' = raced /\ stream' = stream
      /\ stream_key' = [stream_key EXCEPT ![next_id] = stream[t]]
      /\ session' = [session EXCEPT ![t] = next_id]
      /\ pc' = [pc EXCEPT ![t] = "insert"]
  BY DEF Accept, Goto
<1>3. ASSUME NEW s \in Streams PROVE Fresh(s)' = Fresh(s)
  BY <1>1, <1>2 DEF Fresh, Peers, TypeOK
<1>4. LimitUnlessRaced'
  <2> SUFFICES ASSUME NEW s \in Streams PROVE Cardinality(Fresh(s)') <= MaxPeers
    BY DEF LimitUnlessRaced, Fresh
  <2> QED
    BY <1>3 DEF LimitUnlessRaced, Fresh
<1>5. Counted'
  <2> SUFFICES ASSUME NEW u \in Threads, pc'[u] = "insert", session'[u] \notin raced'
               PROVE  Cardinality(Fresh(stream[u])') < MaxPeers
    BY <1>2 DEF Counted
  <2>1. PICK s \in Streams : s = stream[u]
    BY DEF TypeOK
  <2>2. Cardinality(Fresh(s)) < MaxPeers
    <3>1. CASE u = t
      BY <1>1, <2>1, <3>1, FreshFinite, MaxPeersAssumption DEF HasRoom
    <3>2. CASE u # t
      BY <1>2, <2>1, <3>2 DEF Counted, TypeOK
    <3> QED
      BY <3>1, <3>2
  <2>3. Cardinality(Fresh(s)') < MaxPeers
    BY <1>3, <2>2
  <2> QED
    BY <1>2, <2>1, <2>3
<1> QED
  BY <1>4, <1>5

(* The limit is kept by every step. *)
LEMMA LimitStep ==
  ASSUME TypeOK, Made, InHand, Unlisted, Counted, LimitUnlessRaced, [Next]_vars
  PROVE  Counted' /\ LimitUnlessRaced'
<1> USE DEF Shrinks, Fresh, Peers, TypeOK, Goto, publisher, offer, start
<1>1. ASSUME NEW t \in Threads, NEW i \in Ids, Erase(t, i) PROVE Shrinks
  BY <1>1 DEF Erase, Unlisted
<1>2. ASSUME NEW t \in Threads, NEW i \in Ids, Take(t, i) PROVE Shrinks
  BY <1>2 DEF Take, Takable, AfterTake, BeingPlayed
<1>3. ASSUME NEW t \in Threads, NEW i \in Ids, TakeRest(t, i) PROVE Shrinks
  BY <1>3 DEF TakeRest, Takable
<1>4. ASSUME NEW t \in Threads, Halt(t) PROVE Shrinks
  BY <1>4 DEF Halt
<1>5. ASSUME NEW t \in Threads, EndDelete(t) PROVE Shrinks
  BY <1>5 DEF EndDelete
<1>6. ASSUME NEW t \in Threads, Return(t) PROVE Shrinks
  BY <1>6 DEF Return
<1>7. ASSUME NEW t \in Threads, NEW i \in Ids, DeleteSession(t, i) PROVE Shrinks
  BY <1>7 DEF DeleteSession
<1>8. ASSUME NEW t \in Threads, ClearSessions(t) PROVE Shrinks
  BY <1>8 DEF ClearSessions, Unlisted
<1>9. ASSUME NEW t \in Threads, NEW s \in Streams, Offer(t, s) PROVE Shrinks
  BY <1>9 DEF Offer
<1>10. ASSUME NEW t \in Threads, Refuse(t) PROVE Shrinks
  BY <1>10 DEF Refuse
<1>11. ASSUME NEW t \in Threads, Build(t) PROVE Shrinks
  BY <1>11 DEF Build
<1>12. ASSUME NEW t \in Threads, Play(t) PROVE Shrinks
  BY <1>12 DEF Play, GiveUp, ReadNothing
<1>13. ASSUME NEW t \in Threads, Negotiate(t) PROVE Shrinks
  BY <1>13 DEF Negotiate, Negotiated
<1>14. ASSUME NEW t \in Threads, Fail(t) PROVE Shrinks
  BY <1>14 DEF Fail
<1>15. ASSUME NEW t \in Threads, NEW i \in Ids, PassSession(t, i) PROVE Shrinks
  BY <1>15 DEF PassSession
<1>16. ASSUME NEW t \in Threads, NEW i \in Ids, BeginPush(t, i) PROVE Shrinks
  BY <1>16 DEF BeginPush
<1>17. ASSUME NEW t \in Threads, EndPush(t) PROVE Shrinks
  BY <1>17 DEF EndPush
<1>18. ASSUME NEW t \in Threads, EndPublish(t) PROVE Shrinks
  BY <1>18 DEF EndPublish
<1>19. ASSUME NEW t \in Threads, NEW s \in Streams, PublishFrame(t, s) PROVE Shrinks
  BY <1>19 DEF PublishFrame
<1>20. ASSUME NEW s \in Streams, RegisterStream(s) PROVE Shrinks
  BY <1>20 DEF RegisterStream
<1>21. ASSUME NEW i \in Ids, Notify(i) PROVE Shrinks
  BY <1>21 DEF Notify
<1>22. ASSUME NEW i \in Ids, Store(i) PROVE Shrinks
  BY <1>22 DEF Store
<1>23. ASSUME NEW i \in Ids, GrowIdle(i) PROVE Shrinks
  BY <1>23 DEF GrowIdle
<1>24. CASE UNCHANGED vars
  <2>1. Shrinks
    BY <1>24 DEF vars
  <2> QED
    BY <2>1, ShrinkCounts
<1>25. ASSUME NEW t \in Threads, ReadPipeline(t) PROVE Shrinks
  BY <1>25 DEF ReadPipeline
<1>26. ASSUME NEW t \in Threads, FindElement(t) PROVE Shrinks
  BY <1>26 DEF FindElement, ReadNothing
<1>27. ASSUME NEW t \in Threads, Found(t) PROVE Shrinks
  BY <1>27 DEF Found, GiveUp
<1> QED
  BY <1>1, <1>2, <1>3, <1>4, <1>5, <1>6, <1>7, <1>8, <1>9, <1>10, <1>11, <1>12, <1>13, <1>14, <1>15, <1>16, <1>17, <1>18, <1>19, <1>20, <1>21, <1>22, <1>23, <1>24, <1>25, <1>26, <1>27, ShrinkCounts, InsertCounts, AcceptCounts DEF Next, Step

-----------------------------------------------------------------------------
(* A publisher without streams and sessions satisfies the invariant. *)
LEMMA InitIInv == Init => IInv
<1> SUFFICES ASSUME Init PROVE IInv
  OBVIOUS
<1>1. TypeOK
  <2>1. AnyStream \in Streams
    BY StreamsAssumption DEF AnyStream
  <2>2. 1 \in 1 .. MaxSessions + 1
    BY MaxSessionsAssumption
  <2>3. /\ streams_ \in SUBSET Streams /\ sessions_ \in SUBSET Ids
        /\ next_id \in 1 .. MaxSessions + 1
        /\ raced \in SUBSET Ids /\ overtaken \in SUBSET Ids
    BY <2>2 DEF Init
  <2>4. /\ stream_key \in [Ids -> Streams]
        /\ elements \in [Ids -> SUBSET Elements]
        /\ mutex \in [Ids -> Threads \cup {Free}]
    BY <2>1 DEF Init
  <2>5. /\ ended \in [Ids -> BOOLEAN] /\ idle \in [Ids -> BOOLEAN]
        /\ playing \in [Ids -> BOOLEAN] /\ callback \in [Ids -> BOOLEAN]
    BY DEF Init
  <2>6. /\ pc \in [Threads -> At] /\ stream \in [Threads -> Streams]
        /\ session \in [Threads -> Ids \cup {0}] /\ current \in [Threads -> Ids \cup {0}]
        /\ read \in [Threads -> BOOLEAN]
        /\ then \in [Threads -> {"idle", "check", "return"}]
    BY <2>1 DEF Init, At
  <2>7. /\ held \in [Threads -> SUBSET Ids] /\ todo \in [Threads -> SUBSET Ids]
        /\ removed \in [Threads -> SUBSET Ids] /\ dead \in [Threads -> SUBSET Ids]
    BY DEF Init
  <2> QED
    BY <2>3, <2>4, <2>5, <2>6, <2>7 DEF TypeOK
<1>2. Made /\ InHand /\ OneMaker
  BY DEF Init, Made, Known, InHand, Offering, Starting, Deleting, OneMaker, Ids
<1>3. Unlisted /\ Unbuilt /\ Built /\ Reading /\ Hands /\ Stopping /\ Erased /\ Room
  BY DEF Init, Unlisted, Unbuilt, Built, Reading, Hands, Stopping, Erased, Room, Deleting
<1>4. Counted
  BY DEF Init, Counted
<1>5. LimitUnlessRaced
  <2> SUFFICES ASSUME NEW s \in Streams PROVE Cardinality(Peers(s) \ raced) <= MaxPeers
    BY DEF LimitUnlessRaced
  <2>1. Peers(s) \ raced = {}
    BY DEF Init, Peers
  <2> QED
    BY <2>1, FS_EmptySet, MaxPeersAssumption
<1>6. ListedIsLive /\ NothingRunsUnowned /\ EndedMakeRoom
  BY DEF Init, ListedIsLive, NothingRunsUnowned, EndedMakeRoom
<1> QED
  BY <1>1, <1>2, <1>3, <1>4, <1>5, <1>6 DEF IInv

(* The invariant is inductive. *)
LEMMA NextIInv == IInv /\ [Next]_vars => IInv'
<1> SUFFICES ASSUME IInv, [Next]_vars PROVE IInv'
  OBVIOUS
<1> USE DEF IInv
<1>1. TypeOK'
  BY TypeStep
<1>2. Made' /\ InHand' /\ OneMaker' /\ Unlisted' /\ Unbuilt'
  BY <1>1, MadeStep, InHandStep, OneMakerStep, UnlistedStep, UnbuiltStep
<1>3. Built' /\ Reading' /\ Hands' /\ Stopping' /\ Erased' /\ Room'
  BY <1>1, BuiltStep, ReadingStep, HandsStep, StoppingStep, ErasedStep, RoomStep
<1>4. Counted' /\ LimitUnlessRaced'
  BY LimitStep
<1>5. ListedIsLive' /\ NothingRunsUnowned' /\ EndedMakeRoom'
  BY <1>1, ListedIsLiveStep, NothingRunsUnownedStep, EndedMakeRoomStep
<1> QED
  BY <1>1, <1>2, <1>3, <1>4, <1>5

(* Every state the publisher reaches satisfies the invariant.              *)
THEOREM Inductive == Spec => []IInv
  BY InitIInv, NextIInv, PTL DEF Spec

(* The publisher's, the sessions' and the threads' variables keep their    *)
(* types, whoever calls it and however its calls interleave.               *)
THEOREM TypeCorrect == Spec => []TypeOK
<1>1. IInv => TypeOK
  BY DEF IInv
<1> QED
  BY <1>1, Inductive, PTL

(* max_peers_per_stream is exceeded by sessions that were counted before   *)
(* another one was inserted, and by nothing else.                          *)
THEOREM LimitHolds == Spec => []LimitUnlessRaced
<1>1. IInv => LimitUnlessRaced
  BY DEF IInv
<1> QED
  BY <1>1, Inductive, PTL

(* A session that publish_frame finds in sessions_ plays, unless the offer *)
(* that made it is starting it or deleting it.                             *)
THEOREM ListedSessionsAreLive == Spec => []ListedIsLive
<1>1. IInv => ListedIsLive
  BY DEF IInv
<1> QED
  BY <1>1, Inductive, PTL

(* stop() never takes the appsrc that push_frame is filling a buffer for.  *)
THEOREM PushesAreSafe == Spec => []PushIsSafe
<1>1. IInv => PushIsSafe
  BY DEF IInv, Hands, PushIsSafe
<1> QED
  BY <1>1, Inductive, PTL

(* A pipeline that runs is in sessions_ or in the hands of a call that     *)
(* will stop it, unless stop() took it after its start() had read it and   *)
(* before its start() played it.                                           *)
THEOREM RunningIsOwned == Spec => []NothingRunsUnowned
<1>1. IInv => NothingRunsUnowned
  BY DEF IInv
<1> QED
  BY <1>1, Inductive, PTL

(* The peers of an offer's stream are counted without the sessions that    *)
(* expire_idle_sessions found ended.                                       *)
THEOREM EndedSessionsMakeRoom == Spec => []EndedMakeRoom
<1>1. IInv => EndedMakeRoom
  BY DEF IInv
<1> QED
  BY <1>1, Inductive, PTL

(* Peers are limited, and ended sessions do not use up the limit. *)
THEOREM RoomHolds == Spec => []RoomIsKept
BY LimitHolds, EndedSessionsMakeRoom, PTL DEF RoomIsKept

(* Sessions that are known are usable, sessions that run are known. *)
THEOREM OwnershipHolds == Spec => []SessionsAreOwned
BY ListedSessionsAreLive, PushesAreSafe, RunningIsOwned, PTL DEF SessionsAreOwned
=============================================================================
