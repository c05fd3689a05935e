----------------------------- MODULE ConcurrentParts -----------------------------
(***************************************************************************)
(* The services around the pipeline whose threads or coroutines interleave *)
(* with each other: the HTTP server of the Runner and three services of    *)
(* the Controller.  They share no state here, so a behaviour is one of one *)
(* of them, chosen at the start, under the fairness its threads or its     *)
(* asyncio loop justify.  The gallery's setting is varied in its own.      *)
(***************************************************************************)
EXTENDS RunnerHTTPServer, AnalyticsService, RenderJobs, GalleryEnrollment

VARIABLE part  \* the component this behaviour is about

partsVars == << part, httpVars, analyticsVars, jobVars, galleryVars >>

Init ==
  /\ part \in {"http", "analytics", "jobs", "gallery"}
  /\ HttpInit /\ AnalyticsInit /\ JobInit /\ GalleryInit
  /\ part # "gallery" => autoRefresh

Next ==
  /\ part' = part
  /\ \/ /\ part = "http" /\ HttpNext
        /\ UNCHANGED << analyticsVars, jobVars, galleryVars >>
     \/ /\ part = "analytics" /\ AnalyticsNext
        /\ UNCHANGED << httpVars, jobVars, galleryVars >>
     \/ /\ part = "jobs" /\ JobNext
        /\ UNCHANGED << httpVars, analyticsVars, galleryVars >>
     \/ /\ part = "gallery" /\ GalleryNext
        /\ UNCHANGED << httpVars, analyticsVars, jobVars >>

\* Handlers, the worker and the timers of a cancel run when they can.
Fairness ==
  /\ HttpFairness
  /\ WF_analyticsVars(Work)
  /\ WF_jobVars(process = "killed" /\ ProcessEnds)
  /\ \A k \in Cancels : WF_jobVars(CancelSeesEnd(k) \/ TimeOut(k))

Spec == Init /\ [][Next]_partsVars /\ Fairness
===============================================================================
