----------------------------- MODULE ControlProofs -----------------------------
(***************************************************************************)
(* Proofs about the commands the Runner takes and about two services of    *)
(* the Controller that gives them: RunnerManager for every set of clients  *)
(* and streams and any number of commands, AnalyticsService for every set  *)
(* of rules and callers and any capacity, and RenderJobs for every set of  *)
(* requests that cancel the job.                                           *)
(***************************************************************************)
EXTENDS RunnerManager, AnalyticsService, RenderJobs, TLAPS

-----------------------------------------------------------------------------
(***************************************************************************)
(* RunnerManager.                                                          *)
(***************************************************************************)
(* Type correctness of the Runner and of its callers.                      *)
THEOREM TypeCorrect == Spec => []TypeOK
<1> USE DEF TypeOK, Config
<1>1. ASSUME Init PROVE TypeOK
  <2>1. last_error \in BOOLEAN
    BY <1>1 DEF Init
  <2>2. commands \in Nat /\ epoch \in Nat
    BY <1>1 DEF Init
  <2> QED
    BY <1>1, <2>1, <2>2 DEF Init
<1>2. TypeOK /\ [Next]_vars => TypeOK'
  <2> SUFFICES ASSUME TypeOK, [Next]_vars PROVE TypeOK'
    OBVIOUS
  <2> USE DEF Goto, command, pipeline, outside
  <2>1. ASSUME NEW c \in Clients, Call(c) PROVE TypeOK'
    BY <2>1 DEF Call
  <2>2. ASSUME NEW c \in Clients, Acquire(c) PROVE TypeOK'
    BY <2>2 DEF Acquire
  <2>3. ASSUME NEW c \in Clients, StopRuntime(c) PROVE TypeOK'
    BY <2>3 DEF StopRuntime, AfterStop
  <2>4. ASSUME NEW c \in Clients, ClearSessions(c) PROVE TypeOK'
    BY <2>4 DEF ClearSessions, AfterStop
  <2>5. ASSUME NEW c \in Clients, Install(c) PROVE TypeOK'
    BY <2>5 DEF Install, Configure
  <2>6. ASSUME NEW c \in Clients, Rollback(c) PROVE TypeOK'
    BY <2>6 DEF Rollback, Configure
  <2>7. ASSUME NEW c \in Clients, StartRuntime(c) PROVE TypeOK'
    BY <2>7 DEF StartRuntime, AfterFailure
  <2>8. ASSUME NEW c \in Clients, RefuseStart(c) PROVE TypeOK'
    BY <2>8 DEF RefuseStart, AfterFailure
  <2>9. ASSUME NEW c \in Clients, KeepRunning(c) PROVE TypeOK'
    BY <2>9 DEF KeepRunning
  <2>10. ASSUME NEW c \in Clients, Unlock(c) PROVE TypeOK'
    BY <2>10 DEF Unlock
  <2>11. ASSUME NEW s \in Streams, HandleOffer(s) PROVE TypeOK'
    BY <2>11 DEF HandleOffer
  <2>12. CASE EndSession
    BY <2>12 DEF EndSession
  <2>13. CASE UNCHANGED vars
    BY <2>13 DEF vars
  <2> QED
    BY <2>1, <2>2, <2>3, <2>4, <2>5, <2>6, <2>7, <2>8, <2>9, <2>10, <2>11, <2>12, <2>13
    DEF Next, Execute
<1> QED
  BY <1>1, <1>2, PTL DEF Spec

-----------------------------------------------------------------------------
(* A client is past Acquire exactly while it holds the mutex, and there    *)
(* what the steps to come rely on holds.                                   *)
Inside(c) == pc[c] \notin {"idle", "lock"}
Holding == \A c \in Clients : Inside(c) <=> lock = c

(* The new configuration of c's reload is in place, not yet accepted.      *)
Trying(c) == pc[c] = "rollback" \/ (pc[c] = "start" /\ op[c] = "reload")

Progress ==
  \A c \in Clients :
    /\ pc[c] = "install" => op[c] = "reload"
    /\ pc[c] \in {"clear", "install", "restart"} \/ Trying(c) => runtime = {}
    /\ pc[c] \in {"stop", "clear", "install", "rollback"} \/ Trying(c) => old_config[c] = accepted

(* Nobody is between the two halves of stop_locked_. *)
Calm == \A c \in Clients : pc[c] # "clear"

Agreement ==
  /\ state = "running" <=> runtime # {}
  /\ runtime # {} => runtime = config
  /\ last_status = "running" <=> runtime # {}
  /\ state # "stopping"

Errors ==
  /\ runtime # {} => ~last_error
  /\ state = "error" => last_error

IInv ==
  /\ TypeOK
  /\ Holding
  /\ Progress
  /\ Calm => Agreement
  /\ Calm => Errors
  /\ Calm => \A x \in sessions : x[2] = epoch
  /\ telemetry_streams = config /\ config \subseteq registered
  /\ (\A c \in Clients : ~Trying(c)) => config = accepted

\* Every step keeps the inductive invariant.
LEMMA InvariantStep == IInv /\ TypeOK' /\ [Next]_vars => IInv'
<1> SUFFICES ASSUME IInv, TypeOK', [Next]_vars PROVE IInv'
  OBVIOUS
<1> USE FreeAssumption
    DEF TypeOK, Config, Goto, command, pipeline, outside,
        IInv, Holding, Inside, Progress, Trying, Calm, Agreement, Errors
<1>1. ASSUME NEW c \in Clients, Call(c) PROVE IInv'
  BY <1>1 DEF Call
<1>2. ASSUME NEW c \in Clients, Acquire(c) PROVE IInv'
  BY <1>2 DEF Acquire
<1>3. ASSUME NEW c \in Clients, StopRuntime(c) PROVE IInv'
  BY <1>3 DEF StopRuntime, AfterStop
<1>4. ASSUME NEW c \in Clients, ClearSessions(c) PROVE IInv'
  BY <1>4 DEF ClearSessions, AfterStop
<1>5. ASSUME NEW c \in Clients, Install(c) PROVE IInv'
  BY <1>5 DEF Install, Configure
<1>6. ASSUME NEW c \in Clients, Rollback(c) PROVE IInv'
  BY <1>6 DEF Rollback, Configure
<1>7. ASSUME NEW c \in Clients, StartRuntime(c) PROVE IInv'
  BY <1>7 DEF StartRuntime, AfterFailure
<1>8. ASSUME NEW c \in Clients, RefuseStart(c) PROVE IInv'
  BY <1>8 DEF RefuseStart, AfterFailure
<1>9. ASSUME NEW c \in Clients, KeepRunning(c) PROVE IInv'
  BY <1>9 DEF KeepRunning
<1>10. ASSUME NEW c \in Clients, Unlock(c) PROVE IInv'
  BY <1>10 DEF Unlock
<1>11. ASSUME NEW s \in Streams, HandleOffer(s) PROVE IInv'
  BY <1>11 DEF HandleOffer
<1>12. CASE EndSession
  BY <1>12 DEF EndSession
<1>13. CASE UNCHANGED vars
  BY <1>13 DEF vars
<1> QED
  BY <1>1, <1>2, <1>3, <1>4, <1>5, <1>6, <1>7, <1>8, <1>9, <1>10, <1>11, <1>12, <1>13
  DEF Next, Execute

(* The inductive invariant. *)
THEOREM Inductive == Spec => []IInv
<1>1. Init /\ TypeOK => IInv
  BY FreeAssumption DEF Init, TypeOK, IInv, Holding, Inside, Progress, Trying, Calm, Agreement,
                        Errors
<1> QED
  BY <1>1, InvariantStep, TypeCorrect, PTL DEF Spec

\* While nobody holds the mutex, the command that ended last has left all of
\* it in agreement.
LEMMA NobodyInside ==
  ASSUME IInv, lock = Free
  PROVE  /\ Agreement /\ Errors
         /\ telemetry_streams = config /\ config \subseteq registered
         /\ config = accepted
         /\ \A x \in sessions : x[2] = epoch
<1>1. \A c \in Clients : ~Inside(c)
  BY FreeAssumption DEF IInv, Holding
<1>2. Calm /\ \A c \in Clients : ~Trying(c)
  BY <1>1 DEF Inside, Calm, Trying
<1> QED
  BY <1>2 DEF IInv

(* Between commands everything that tells about the pipeline agrees.       *)
THEOREM SettledHolds == Spec => []Settled
<1>1. IInv => Settled
  BY NobodyInside DEF Settled, Agreement, Errors
<1> QED
  BY <1>1, Inductive, PTL

(* Between commands the configuration is the last one accepted.            *)
THEOREM ConfigIsKept == Spec => []ConfigIsAccepted
<1>1. IInv => ConfigIsAccepted
  BY NobodyInside DEF ConfigIsAccepted
<1> QED
  BY <1>1, Inductive, PTL

(* No peer stays connected across a stop or a reload.                      *)
THEOREM SessionsAreFresh == Spec => []NoStaleSession
<1>1. IInv => NoStaleSession
  BY NobodyInside DEF NoStaleSession
<1> QED
  BY <1>1, Inductive, PTL

(* Between commands a client finds everything in agreement. *)
THEOREM CommandsLeaveOrder == Spec => []CommandsAgree
BY SettledHolds, ConfigIsKept, SessionsAreFresh, PTL DEF CommandsAgree

-----------------------------------------------------------------------------
(***************************************************************************)
(* AnalyticsService.                                                       *)
(***************************************************************************)
\* The request of a caller that has one.
Request(k) ==
  /\ k.at \in {"read", "write", "apply", "refresh"}
  /\ k.op \in {"create", "update", "delete"}
  /\ k.rule \in Rules

\* What the loop keeps of a request.
Record == [op : {"none", "create", "update", "delete"}, rule : Rules \cup {NoCall.rule},
           at : {"idle", "read", "write", "apply", "refresh"},
           read : Nat, write : Nat, seen : Nat]

\* The state of the service, and where its requests are.
RulesTyped ==
  /\ kept \in [Rules -> Nat] /\ engine \in [Rules -> Nat]
  /\ version \in Nat /\ latest \in Nat /\ received \in Nat /\ worker.frame \in Nat
  /\ pending \in Seq(Nat)
  /\ call \in [Callers -> Record]
  /\ \A c \in Callers : call[c].at = "idle" \/ Request(call[c])

\* A rule that two requests have not changed at a time has one request at
\* most.  Its engine copy is the stored rule until the write, and what the
\* request will give the engine is the stored rule after it: an update has
\* found the rule, and nobody else has deleted it since.
OneAtATime ==
  \A r \in Rules \ raced : \A c, d \in Changing(r) : c = d

\* The engine applies the stored rule as long as no request is between its write and its apply.
CopyFollows ==
  \A r \in Rules \ raced :
    (\A c \in Changing(r) : call[c].at # "apply") => engine[r] = kept[r]

\* What a request relies on when it writes and applies.
RequestFits ==
  \A c \in Callers : call[c].rule \notin raced =>
    /\ call[c].at = "write" /\ call[c].op = "update" => kept[call[c].rule] # 0
    /\ call[c].at = "apply" => kept[call[c].rule] = Applied(call[c])

\* The inductive invariant of the rules.
RulesInv == RulesTyped /\ OneAtATime /\ CopyFollows /\ RequestFits


\* A caller without a request.
LEMMA NoCallIsTyped == NoCall \in Record /\ NoCall.at = "idle"
  BY DEF NoCall, Record

\* What changes no rule and no request keeps what is said of them.
LEMMA FramesKeepRules ==
  ASSUME OneAtATime, CopyFollows, RequestFits, kept' = kept, engine' = engine, raced' = raced,
         call' = call
  PROVE  (OneAtATime /\ CopyFollows /\ RequestFits)'
  BY DEF OneAtATime, CopyFollows, RequestFits, Changing, Applied

\* A request arrives.
LEMMA CallRuleKeeps ==
  ASSUME RulesInv, NEW c \in Callers, NEW o \in {"create", "update", "delete"}, NEW r \in Rules,
         CallRule(c, o, r)
  PROVE  RulesInv'
<1> USE DEF RulesInv
<1> DEFINE k == [op |-> o, rule |-> r, at |-> IF o = "create" THEN "write" ELSE "read",
                 read |-> 0, write |-> version', seen |-> 0]
<1>1. /\ version' \in Nat /\ call[c].at = "idle" /\ c \notin Changing(r)
      /\ kept' = kept /\ engine' = engine
      /\ call' = [call EXCEPT ![c] = k]
      /\ raced' = IF Changing(r) = {} THEN raced ELSE raced \cup {r}
      /\ o = "create" => r \notin raced /\ kept[r] = 0 /\ engine[r] = 0 /\ Changing(r) = {}
  BY DEF CallRule, RulesTyped, Changing
<1>2. k \in Record /\ Request(k) /\ k.rule = r /\ k.at \in {"read", "write"}
      /\ (k.at = "write" => k.op = "create")
  BY <1>1 DEF Record, Request
<1> HIDE DEF k
<1>3. RulesTyped'
  <2>1. call' \in [Callers -> Record]
    BY <1>1, <1>2 DEF RulesTyped
  <2>2. \A d \in Callers : call'[d].at = "idle" \/ Request(call'[d])
    BY <1>1, <1>2 DEF RulesTyped
  <2>3. UNCHANGED << latest, received, pending, worker >>
    BY DEF CallRule, frameVars
  <2> QED
    BY <1>1, <2>1, <2>2, <2>3 DEF RulesTyped, Request
<1>4. /\ Changing(r)' = Changing(r) \cup {c}
      /\ \A s \in Rules : s # r => Changing(s)' = Changing(s)
      /\ \A d \in Callers : d # c => call'[d] = call[d]
      /\ call'[c] = k
  BY <1>1, <1>2 DEF RulesTyped, Changing
<1>5. OneAtATime'
  BY <1>1, <1>4 DEF OneAtATime
<1>6. CopyFollows'
  BY <1>1, <1>2, <1>4 DEF CopyFollows, Changing
<1>7. RequestFits'
  BY <1>1, <1>2, <1>4 DEF RequestFits, Applied
<1> QED
  BY <1>3, <1>5, <1>6, <1>7

\* A request goes on without touching a rule, or ends: then it was the only
\* one of its rule that could still change it.
LEMMA GoingOnKeeps ==
  ASSUME RulesInv, NEW c \in Callers, NEW k \in Record, Request(k) \/ k = NoCall,
         call' = [call EXCEPT ![c] = k], UNCHANGED << kept, engine, raced, version >>,
         call[c].at # "idle", k = NoCall \/ (k.rule = call[c].rule /\ k.op = call[c].op),
         k.at \in {"read", "write", "apply"} => call[c].at \in {"read", "write", "apply"},
         k.at # "apply",
         call[c].at = "apply" => call[c].rule \in raced \/ engine[call[c].rule] = kept[call[c].rule],
         k.at = "write" /\ k.op = "update" => k.rule \in raced \/ kept[k.rule] # 0
  PROVE  (OneAtATime /\ CopyFollows /\ RequestFits)'
<1> USE DEF RulesInv
<1>1. /\ \A d \in Callers : d # c => call'[d] = call[d]
      /\ call'[c] = k
  BY DEF RulesTyped
<1>2. \A s \in Rules : /\ Changing(s)' \subseteq Changing(s)
                       /\ Changing(s) \subseteq Changing(s)' \cup {c}
  <2> SUFFICES ASSUME NEW s \in Rules
               PROVE  Changing(s)' \subseteq Changing(s) /\ Changing(s) \subseteq Changing(s)' \cup {c}
    OBVIOUS
  <2>1. c \in Changing(s)' => c \in Changing(s)
    BY <1>1, NoCallIsTyped DEF Changing
  <2> QED
    BY <1>1, <2>1 DEF Changing
<1>3. OneAtATime'
  BY <1>2 DEF OneAtATime
<1>4. CopyFollows'
  <2> SUFFICES ASSUME NEW s \in Rules \ raced, \A d \in Changing(s)' : call'[d].at # "apply"
               PROVE  engine[s] = kept[s]
    BY DEF CopyFollows
  <2>1. CASE \A d \in Changing(s) : call[d].at # "apply"
    BY <2>1 DEF CopyFollows
  <2>2. ASSUME NEW d \in Changing(s), call[d].at = "apply" PROVE engine[s] = kept[s]
    <3>1. d = c
      BY <1>1, <1>2, <2>2 DEF Changing
    <3> QED
      BY <3>1, <2>2 DEF Changing
  <2> QED
    BY <2>1, <2>2
<1>5. RequestFits'
  <2> SUFFICES ASSUME NEW d \in Callers, call'[d].rule \notin raced
               PROVE  /\ call'[d].at = "write" /\ call'[d].op = "update" => kept[call'[d].rule] # 0
                      /\ call'[d].at = "apply" => kept[call'[d].rule] = Applied(call'[d])
    BY DEF RequestFits, Applied
  <2>1. CASE d # c
    BY <2>1, <1>1 DEF RequestFits
  <2>2. CASE d = c
    BY <2>2, <1>1
  <2> QED
    BY <2>1, <2>2
<1> QED
  BY <1>3, <1>4, <1>5

\* What a request does leaves the state of the service typed.
LEMMA GoingOnTyped ==
  ASSUME RulesTyped, NEW c \in Callers, NEW k \in Record, Request(k) \/ k = NoCall,
         call' = [call EXCEPT ![c] = k], UNCHANGED << version, received, pending, worker >>,
         kept' \in [Rules -> Nat], engine' \in [Rules -> Nat], latest' \in Nat
  PROVE  RulesTyped'
<1>1. call' \in [Callers -> Record]
  BY DEF RulesTyped
<1>2. \A d \in Callers : call'[d].at = "idle" \/ Request(call'[d])
  BY NoCallIsTyped DEF RulesTyped
<1> QED
  BY <1>1, <1>2 DEF RulesTyped, Request

\* The threads of the store and the loop: reading, writing, applying, and the
\* refresh of the snapshots.
LEMMA ReadRuleKeeps ==
  ASSUME RulesInv, NEW c \in Callers, ReadRule(c) PROVE RulesInv'
<1> USE DEF RulesInv
<1> DEFINE now == kept[call[c].rule]
           k == IF call[c].op = "update" /\ now = 0 THEN NoCall
                ELSE [call[c] EXCEPT !.read = now, !.at = "write"]
<1>1. call[c].at = "read" /\ call[c] \in Record /\ Request(call[c]) /\ now \in Nat
  BY DEF ReadRule, RulesTyped, Request
<1>2. call' = [call EXCEPT ![c] = k]
  BY DEF ReadRule, Ends, RulesTyped
<1>3. k \in Record /\ (Request(k) \/ k = NoCall)
  BY <1>1, NoCallIsTyped DEF Record, Request
<1>4. /\ k.at \in {"idle", "write"}
      /\ k = NoCall \/ (k.rule = call[c].rule /\ k.op = call[c].op)
      /\ k.at = "write" /\ k.op = "update" => kept[k.rule] # 0
  <2>1. CASE call[c].op = "update" /\ now = 0
    BY <2>1, NoCallIsTyped
  <2>2. CASE ~(call[c].op = "update" /\ now = 0)
    <3>1. k = [call[c] EXCEPT !.read = now, !.at = "write"]
      BY <2>2
    <3>2. k.at = "write" /\ k.rule = call[c].rule /\ k.op = call[c].op
      BY <3>1, <1>1 DEF Record
    <3> QED
      BY <3>2, <2>2
  <2> QED
    BY <2>1, <2>2
<1>5. UNCHANGED << kept, engine, raced, version, received, pending, worker, latest >>
  BY DEF ReadRule, ruleVars, frameVars
<1> HIDE DEF k
<1>6. (OneAtATime /\ CopyFollows /\ RequestFits)'
  BY <1>1, <1>2, <1>3, <1>4, <1>5, GoingOnKeeps
<1>7. RulesTyped'
  BY <1>1, <1>2, <1>3, <1>5, GoingOnTyped DEF RulesTyped
<1> QED
  BY <1>6, <1>7

\* The snapshot read before the await is stored after it, and no rule changes.
LEMMA RefreshKeeps ==
  ASSUME RulesInv, NEW c \in Callers, Refresh(c) PROVE RulesInv'
<1> USE DEF RulesInv
<1>1. call[c].at = "refresh" /\ call[c].seen \in Nat /\ call' = [call EXCEPT ![c] = NoCall]
      /\ latest' = call[c].seen
  BY DEF Refresh, Ends, RulesTyped, Record
<1>2. UNCHANGED << kept, engine, raced, version, received, pending, worker >>
  BY DEF Refresh, ruleVars, frameVars
<1>3. (OneAtATime /\ CopyFollows /\ RequestFits)'
  <2> DEFINE k == NoCall
  <2>1. k \in Record /\ k = NoCall /\ k.at = "idle" /\ call' = [call EXCEPT ![c] = k]
    BY <1>1, NoCallIsTyped
  <2> HIDE DEF k
  <2> QED
    BY <1>1, <1>2, <2>1, GoingOnKeeps
<1>4. RulesTyped'
  BY <1>1, <1>2, NoCallIsTyped, GoingOnTyped DEF RulesTyped
<1> QED
  BY <1>3, <1>4

\* The write: from here on the stored rule is what the engine will get.
LEMMA WriteRuleKeeps ==
  ASSUME RulesInv, NEW c \in Callers, WriteRule(c) PROVE RulesInv'
<1> USE DEF RulesInv
<1> DEFINE w == call[c]
           k == IF w.op = "delete" /\ kept[w.rule] = 0 THEN NoCall ELSE [w EXCEPT !.at = "apply"]
<1>1. w.at = "write" /\ w \in Record /\ Request(w) /\ Written(w) \in Nat
  BY DEF WriteRule, RulesTyped, Request, Record, Written
<1>2. call' = [call EXCEPT ![c] = k] /\ kept' = [kept EXCEPT ![w.rule] = Written(w)]
  BY DEF WriteRule, Ends, Goes, RulesTyped
<1>3. k \in Record /\ (Request(k) \/ k = NoCall)
  BY <1>1, NoCallIsTyped DEF Record, Request
<1>4. UNCHANGED << engine, raced, version, received, pending, worker, latest >>
  BY DEF WriteRule, frameVars
<1>5. /\ k = NoCall => w.op = "delete" /\ kept[w.rule] = 0
      /\ k # NoCall => k.at = "apply" /\ k.rule = w.rule /\ k.op = w.op /\ k.write = w.write
      /\ k.at \in {"idle", "apply"}
  BY <1>1, NoCallIsTyped DEF Record
<1>6. RulesTyped'
  <2>1. kept' \in [Rules -> Nat]
    BY <1>1, <1>2 DEF RulesTyped, Request
  <2> HIDE DEF k, w
  <2> QED
    BY <1>2, <1>3, <1>4, <2>1, GoingOnTyped DEF RulesTyped
<1>7. /\ \A d \in Callers : d # c => call'[d] = call[d]
      /\ call'[c] = k
      /\ \A s \in Rules : s # w.rule => kept'[s] = kept[s]
      /\ kept'[w.rule] = Written(w)
  BY <1>1, <1>2 DEF RulesTyped, Request
<1>8. \A s \in Rules : Changing(s)' \subseteq Changing(s) /\ Changing(s) \subseteq Changing(s)' \cup {c}
  <2>1. k.at \in {"read", "write", "apply"} => k.rule = w.rule
    BY <1>5, NoCallIsTyped
  <2> HIDE DEF k
  <2> QED
    BY <1>1, <1>7, <2>1 DEF Changing
<1>9. OneAtATime'
  BY <1>4, <1>8 DEF OneAtATime
<1>10. w.rule \notin raced => Written(w) = IF w.op = "delete" THEN 0 ELSE w.write
  BY <1>1 DEF RequestFits, Written, Request
<1>11. c \in Changing(w.rule) /\ w.rule \in Rules
  BY <1>1 DEF Changing, Request
<1>12. CopyFollows'
  <2> SUFFICES ASSUME NEW s \in Rules, s \notin raced, \A d \in Changing(s)' : call'[d].at # "apply"
               PROVE  engine[s] = kept'[s]
    BY <1>4 DEF CopyFollows
  <2>1. CASE s # w.rule
    <3>1. Changing(s)' = Changing(s) /\ c \notin Changing(s)
      BY <1>8, <2>1 DEF Changing
    <3>2. \A d \in Changing(s) : call[d].at # "apply"
      BY <3>1, <1>7 DEF Changing
    <3> QED
      BY <3>2, <2>1, <1>7 DEF CopyFollows
  <2>2. CASE s = w.rule
    <3>1. \A d \in Changing(s) : d = c
      BY <1>11, <2>2 DEF OneAtATime
    <3>2. engine[s] = kept[s]
      BY <3>1, <1>1 DEF CopyFollows
    <3>3. k = NoCall
      BY <1>5, <1>7, <1>11, <2>2 DEF Changing
    <3> QED
      BY <3>2, <3>3, <1>5, <1>7, <1>10, <2>2
  <2> QED
    BY <2>1, <2>2
<1>13. RequestFits'
  <2> SUFFICES ASSUME NEW d \in Callers, call'[d].rule \notin raced
               PROVE  /\ call'[d].at = "write" /\ call'[d].op = "update" => kept'[call'[d].rule] # 0
                      /\ call'[d].at = "apply" => kept'[call'[d].rule] = Applied(call'[d])
    BY <1>4 DEF RequestFits, Applied
  <2>1. CASE d = c
    <3>1. k.at # "write" /\ (k.at = "apply" => k # NoCall)
      BY <1>5, NoCallIsTyped
    <3>2. k.at = "apply" => Applied(k) = Applied(w) /\ k.rule = w.rule
      BY <1>5, <3>1 DEF Applied
    <3>3. k.at = "apply" => w.rule \notin raced /\ kept'[w.rule] = Applied(w)
      BY <2>1, <1>7, <1>10, <3>2 DEF Applied
    <3> HIDE DEF k
    <3> QED
      BY <2>1, <1>7, <3>1, <3>2, <3>3
  <2>2. CASE d # c
    <3>1. call[d] \in Record /\ call'[d] = call[d]
      BY <2>2, <1>7 DEF RulesTyped
    <3>2. CASE call[d].at \in {"write", "apply"}
      <4>1. call[d].rule \in Rules /\ d \in Changing(call[d].rule)
        BY <3>2 DEF RulesTyped, Request, Changing
      <4>2. call[d].rule # w.rule
        BY <4>1, <1>11, <2>2, <3>1 DEF OneAtATime
      <4> QED
        BY <4>1, <4>2, <3>1, <1>7 DEF RequestFits
    <3> QED
      BY <3>1, <3>2
  <2> QED
    BY <2>1, <2>2
<1> QED
  BY <1>6, <1>9, <1>12, <1>13

\* The engine gets the rule, and the request is no longer one that changes it.
LEMMA ApplyRuleKeeps ==
  ASSUME RulesInv, NEW c \in Callers, ApplyRule(c) PROVE RulesInv'
<1> USE DEF RulesInv
<1> DEFINE a == call[c]
           k == IF latest = 0 \/ (a.op = "delete" /\ a.read = 0) THEN NoCall
                ELSE [a EXCEPT !.at = "refresh", !.seen = latest]
<1>1. a.at = "apply" /\ a \in Record /\ Request(a) /\ Applied(a) \in Nat /\ latest \in Nat
  BY DEF ApplyRule, RulesTyped, Request, Record, Applied
<1>2. call' = [call EXCEPT ![c] = k] /\ engine' = [engine EXCEPT ![a.rule] = Applied(a)]
  BY DEF ApplyRule, Ends, RulesTyped
<1>3. k \in Record /\ (Request(k) \/ k = NoCall) /\ k.at \in {"idle", "refresh"}
  BY <1>1, NoCallIsTyped DEF Record, Request
<1>4. UNCHANGED << kept, raced, version, received, pending, worker, latest >>
  BY DEF ApplyRule, frameVars
<1>5. RulesTyped'
  <2>1. engine' \in [Rules -> Nat]
    BY <1>1, <1>2 DEF RulesTyped, Request
  <2> HIDE DEF k, a
  <2> QED
    BY <1>2, <1>3, <1>4, <2>1, GoingOnTyped DEF RulesTyped
<1>6. /\ \A d \in Callers : d # c => call'[d] = call[d]
      /\ call'[c] = k
      /\ \A s \in Rules : s # a.rule => engine'[s] = engine[s]
      /\ engine'[a.rule] = Applied(a)
  BY <1>1, <1>2 DEF RulesTyped, Request
<1>7. \A s \in Rules : Changing(s)' \subseteq Changing(s) /\ Changing(s) \subseteq Changing(s)' \cup {c}
  BY <1>1, <1>3, <1>6, NoCallIsTyped DEF Changing
<1>8. OneAtATime'
  BY <1>4, <1>7 DEF OneAtATime
<1>9. CopyFollows'
  <2> SUFFICES ASSUME NEW s \in Rules, s \notin raced, \A d \in Changing(s)' : call'[d].at # "apply"
               PROVE  engine'[s] = kept[s]
    BY <1>4 DEF CopyFollows
  <2>1. CASE s # a.rule
    <3>1. \A d \in Changing(s) : call[d].at # "apply"
      BY <1>6, <1>7, <2>1 DEF Changing
    <3> QED
      BY <3>1, <2>1, <1>6 DEF CopyFollows
  <2>2. CASE s = a.rule
    BY <2>2, <1>1, <1>6 DEF RequestFits
  <2> QED
    BY <2>1, <2>2
<1>10. RequestFits'
  BY <1>3, <1>4, <1>6, ZenonT(60) DEF RequestFits, Applied
<1> QED
  BY <1>5, <1>8, <1>9, <1>10

\* The frames: the queue, the worker and the snapshot.
LEMMA FramesTyped ==
  ASSUME RulesTyped, HandleEvent \/ Work PROVE RulesTyped'
<1> USE CapacityAssumption
<1>1. UNCHANGED << kept, engine, version, call >>
  BY DEF HandleEvent, Work, TakeFrame, Persisted, Broadcast, ruleVars
<1>2. CASE HandleEvent
  <2>1. Enqueued(pending, received + 1) \in Seq(Nat)
    BY DEF RulesTyped, Enqueued
  <2> QED
    BY <1>1, <1>2, <2>1 DEF HandleEvent, RulesTyped, Request
<1>3. CASE TakeFrame
  <2>1. Head(pending) \in Nat /\ Tail(pending) \in Seq(Nat)
    BY <1>3 DEF TakeFrame, RulesTyped
  <2> QED
    BY <1>1, <1>3, <2>1 DEF TakeFrame, RulesTyped, WorkerGoes, Request
<1>4. CASE Persisted
  BY <1>1, <1>4 DEF Persisted, RulesTyped, WorkerGoes, Request
<1>5. CASE Broadcast
  BY <1>1, <1>5 DEF Broadcast, RulesTyped, WorkerGoes, Request
<1> QED
  BY <1>2, <1>3, <1>4, <1>5 DEF Work

\* A restart reads the rules from the database and knows no request.
LEMMA RestartKeeps ==
  ASSUME RulesInv, Restart PROVE RulesInv'
<1> USE DEF RulesInv
<1>1. call' = [c \in Callers |-> NoCall] /\ raced' = {} /\ engine' = kept /\ kept' = kept
      /\ version' = version /\ received' = received
      /\ pending' = << >> /\ worker'.frame = 0 /\ latest' = 0
  BY DEF Restart
<1>2. << >> \in Seq(Nat)
  OBVIOUS
<1>3. RulesTyped'
  BY <1>1, <1>2, NoCallIsTyped DEF RulesTyped
<1>4. OneAtATime' /\ CopyFollows' /\ RequestFits'
  BY <1>1, NoCallIsTyped DEF OneAtATime, CopyFollows, RequestFits, Changing
<1> QED
  BY <1>3, <1>4

\* The inductive invariant of the rules.
LEMMA RulesInvHolds == AnalyticsSpec => []RulesInv
<1>1. ASSUME AnalyticsInit PROVE RulesInv
  <2>1. << >> \in Seq(Nat)
    OBVIOUS
  <2>2. RulesTyped
    BY <1>1, <2>1, NoCallIsTyped DEF AnalyticsInit, RulesTyped
  <2>3. OneAtATime /\ CopyFollows /\ RequestFits
    BY <1>1, NoCallIsTyped DEF AnalyticsInit, OneAtATime, CopyFollows, RequestFits, Changing
  <2> QED
    BY <2>2, <2>3 DEF RulesInv
<1>2. RulesInv /\ [AnalyticsNext]_analyticsVars => RulesInv'
  <2> SUFFICES ASSUME RulesInv, [AnalyticsNext]_analyticsVars PROVE RulesInv'
    OBVIOUS
  <2>1. ASSUME NEW c \in Callers, NEW r \in Rules, NEW o \in {"create", "update", "delete"},
               CallRule(c, o, r)
        PROVE  RulesInv'
    BY <2>1, CallRuleKeeps
  <2>2. ASSUME NEW c \in Callers, ReadRule(c) \/ WriteRule(c) \/ ApplyRule(c) \/ Refresh(c)
        PROVE  RulesInv'
    BY <2>2, ReadRuleKeeps, WriteRuleKeeps, ApplyRuleKeeps, RefreshKeeps
  <2>3. CASE HandleEvent \/ Work
    <3>1. UNCHANGED << kept, engine, raced, call >>
      BY <2>3 DEF HandleEvent, Work, TakeFrame, Persisted, Broadcast, ruleVars
    <3> QED
      BY <2>3, <3>1, FramesKeepRules, FramesTyped DEF RulesInv
  <2>4. CASE Restart
    BY <2>4, RestartKeeps
  <2>5. CASE UNCHANGED analyticsVars
    <3>1. UNCHANGED << kept, engine, raced, call, version, latest, received, worker, pending >>
      BY <2>5 DEF analyticsVars, ruleVars, frameVars
    <3>2. RulesTyped'
      BY <3>1 DEF RulesInv, RulesTyped, Request
    <3> QED
      BY <3>1, <3>2, FramesKeepRules DEF RulesInv
  <2> QED
    BY <2>1, <2>2, <2>3, <2>4, <2>5 DEF AnalyticsNext
<1>3. QED
  BY <1>1, <1>2, PTL DEF AnalyticsSpec

(* The engine applies the stored rule whenever no request is changing it,  *)
(* unless two requests have changed it at a time.                          *)
THEOREM EngineFollowsHolds == AnalyticsSpec => [](\A r \in Rules : EngineFollows(r))
<1>1. RulesInv => \A r \in Rules : EngineFollows(r)
  BY DEF RulesInv, CopyFollows, EngineFollows
<1>2. QED
  BY <1>1, RulesInvHolds, PTL

-----------------------------------------------------------------------------
(***************************************************************************)
(* RenderJobs.                                                             *)
(***************************************************************************)
\* The task has its process from spawning to the end; before that there is
\* none, and after it none runs.  A cancel that waits has found one.
ProcessInv ==
  /\ task \in {"none", "created", "spawning", "waiting", "gathering", "done"}
  /\ process \in {"none", "alive", "told", "killed", "ended"}
  /\ listed <=> task \in {"waiting", "gathering"}
  /\ task \in {"none", "created", "spawning"} => process = "none"
  /\ task = "waiting" => process # "none"
  /\ task = "gathering" => process = "ended"
  /\ task = "done" => process \in {"none", "ended"}
  /\ cancel \in [Cancels -> {"none", "waiting", "killing", "answered", "refused"}]
  /\ \A k \in Cancels : cancel[k] \in {"waiting", "killing"} => process # "none"

\* The status follows the task, except that a cancel may have come first:
\* a job is succeeded only once its process has ended with 0.
StatusInv ==
  /\ status \in {"none", "queued", "running", "cancelled", "succeeded", "failed"}
  /\ task = "done" => status \in {"succeeded", "failed", "cancelled"}
  /\ status \in {"succeeded", "failed"} => task = "done"
  /\ status = "succeeded" => process = "ended" /\ code = 0
  /\ status = "none" <=> task = "none"

\* A cancel counts as one that must not be undone once the task has its process.
CancelInv ==
  /\ cancelled \in BOOLEAN /\ raised \in BOOLEAN
  /\ cancelled => task \in {"waiting", "gathering", "done"} /\ (status = "cancelled" \/ raised)

\* The inductive invariant of a job.
JobInv == ProcessInv /\ StatusInv /\ CancelInv

\* The inductive invariant of a job.
LEMMA JobInvHolds == JobSpec => []JobInv
<1>1. ASSUME JobInit PROVE JobInv
  BY <1>1 DEF JobInit, JobInv, ProcessInv, StatusInv, CancelInv
<1>2. JobInv /\ [JobNext]_jobVars => JobInv'
  <2> USE DEF JobInv, ProcessInv, StatusInv, CancelInv
  <2> SUFFICES ASSUME JobInv, [JobNext]_jobVars PROVE JobInv'
    OBVIOUS
  <2>1. CASE CreateJob
    BY <2>1 DEF CreateJob
  <2>2. CASE StartTask
    BY <2>2 DEF StartTask
  <2>3. CASE Spawn
    BY <2>3 DEF Spawn
  <2>4. CASE WaitEnds
    BY <2>4 DEF WaitEnds
  <2>5. CASE Gathered
    <3>1. /\ EndStatus \in {"succeeded", "failed", "cancelled"}
          /\ EndStatus = "succeeded" => code = 0
          /\ status = "cancelled" => EndStatus = "cancelled"
      BY DEF EndStatus
    <3> QED
      BY <2>5, <3>1 DEF Gathered
  <2>6. CASE TaskRaises
    BY <2>6 DEF TaskRaises
  <2>7. CASE ProcessEnds
    BY <2>7 DEF ProcessEnds
  <2>8. ASSUME NEW k \in Cancels, SetCancelled(k), task # "none" PROVE JobInv'
    <3>1. ProcessInv'
      BY <2>8 DEF SetCancelled, CancelGoes
    <3>2. StatusInv'
      BY <2>8 DEF SetCancelled
    <3>3. CancelInv'
      BY <2>8 DEF SetCancelled
    <3> QED
      BY <3>1, <3>2, <3>3
  <2>9. ASSUME NEW k \in Cancels, CallCancel(k) PROVE JobInv'
    <3>1. CASE listed /\ status = "running"
      BY <2>9, <3>1 DEF CallCancel, CancelGoes
    <3>2. CASE ~(listed /\ status = "running")
      <4>1. SetCancelled(k) /\ task # "none"
        BY <2>9, <3>2 DEF CallCancel
      <4> QED
        BY <4>1, <2>8
    <3> QED
      BY <3>1, <3>2
  <2>10. ASSUME NEW k \in Cancels, CancelSeesEnd(k) PROVE JobInv'
    <3>1. SetCancelled(k) /\ task # "none"
      BY <2>10 DEF CancelSeesEnd
    <3> QED
      BY <3>1, <2>8
  <2>11. ASSUME NEW k \in Cancels, TimeOut(k) PROVE JobInv'
    BY <2>11 DEF TimeOut, CancelGoes
  <2>12. CASE UNCHANGED jobVars
    BY <2>12 DEF jobVars
  <2> QED
    BY <2>1, <2>2, <2>3, <2>4, <2>5, <2>6, <2>7, <2>9, <2>10, <2>11, <2>12
       DEF JobNext, RunJob, CancelJob
<1>3. QED
  BY <1>1, <1>2, PTL DEF JobSpec

(* A task that has ended leaves no process behind, a job that succeeded    *)
(* had a process that ended with 0, and a cancel that was answered once    *)
(* the job had a process is final unless the task raised.                  *)
THEOREM JobIsSafe == JobSpec => [](DoneLeavesNothing /\ CancelIsFinal)
<1>1. JobInv => DoneLeavesNothing /\ CancelIsFinal
  BY DEF JobInv, ProcessInv, StatusInv, CancelInv, DoneLeavesNothing, CancelIsFinal
<1>2. QED
  BY <1>1, JobInvHolds, PTL
===============================================================================
