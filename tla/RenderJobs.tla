------------------------------- MODULE RenderJobs -------------------------------
(***************************************************************************)
(* One job of the Controller's RenderService: the task that runs a render  *)
(* process and the requests that cancel it, as coroutines of one asyncio   *)
(* loop.  The process may take any time, and may never end by itself.      *)
(***************************************************************************)
EXTENDS Naturals

CONSTANT Cancels  \* requests that cancel the job

VARIABLES
  status,     \* jobs[job_id].status, "none" before create_job
  task,       \* where _run_job is
  listed,     \* the process is in processes
  process,    \* the process: not there, alive, told to end, killed, ended
  code,       \* its exit code once it has ended
  cancel,     \* where each cancel_job is
  cancelled,  \* history: a cancel ended while the task had a process, or later
  raised      \* history: _run_job took its except branch

jobVars == << status, task, listed, process, code, cancel, cancelled, raised >>

JobInit ==
  /\ status = "none" /\ task = "none"
  /\ listed = FALSE /\ process = "none" /\ code = 0
  /\ cancel = [k \in Cancels |-> "none"]
  /\ cancelled = FALSE /\ raised = FALSE

\* create_job: the task is created but does not run yet.
CreateJob ==
  /\ status = "none"
  /\ status' = "queued" /\ task' = "created"
  /\ UNCHANGED << listed, process, code, cancel, cancelled, raised >>

(***************************************************************************)
(* _run_job                                                                *)
(***************************************************************************)
StartTask ==
  /\ task = "created"
  /\ status' = "running" /\ task' = "spawning"
  /\ UNCHANGED << listed, process, code, cancel, cancelled, raised >>

Spawn ==
  /\ task = "spawning"
  /\ process' = "alive" /\ listed' = TRUE /\ task' = "waiting"
  /\ UNCHANGED << status, code, cancel, cancelled, raised >>

WaitEnds ==
  /\ task = "waiting" /\ process = "ended"
  /\ task' = "gathering"
  /\ UNCHANGED << status, listed, process, code, cancel, cancelled, raised >>

\* What the job becomes when its process has ended, and a mutant that does
\* not look whether it was cancelled.
EndStatus_ByCode == IF code = 0 THEN "succeeded" ELSE "failed"
EndStatus ==
  CASE status = "cancelled" -> "cancelled"
    [] status # "cancelled" /\ code = 0 -> "succeeded"
    [] OTHER -> "failed"

Gathered ==
  /\ task = "gathering"
  /\ status' = EndStatus /\ listed' = FALSE /\ task' = "done"
  /\ UNCHANGED << process, code, cancel, cancelled, raised >>

\* The process cannot be started, or the reader of its output has failed.
TaskRaises ==
  /\ task \in {"spawning", "gathering"}
  /\ status' = "failed" /\ listed' = FALSE /\ task' = "done" /\ raised' = TRUE
  /\ UNCHANGED << process, code, cancel, cancelled >>

RunJob == StartTask \/ Spawn \/ WaitEnds \/ Gathered \/ TaskRaises

(***************************************************************************)
(* The process (external).                                                 *)
(***************************************************************************)
ProcessEnds ==
  /\ process \in {"alive", "told", "killed"}
  /\ process' = "ended"
  /\ code' \in IF process = "alive" THEN {0, 1} ELSE {0, 1, 2}
  /\ UNCHANGED << status, task, listed, cancel, cancelled, raised >>

(***************************************************************************)
(* cancel_job                                                              *)
(***************************************************************************)
CancelGoes(k, at) == cancel' = [cancel EXCEPT ![k] = at]

\* The update at the end of cancel_job, whatever the job has become.
SetCancelled(k) ==
  /\ status' = "cancelled" /\ CancelGoes(k, "answered")
  /\ cancelled' = (cancelled \/ task \in {"waiting", "gathering", "done"})
  /\ UNCHANGED << task, listed, process, code, raised >>

CallCancel(k) ==
  /\ cancel[k] = "none" /\ status # "none"
  /\ IF listed /\ status = "running"
     THEN \/ /\ CancelGoes(k, "waiting")
             /\ process' = IF process = "alive" THEN "told" ELSE process
             /\ UNCHANGED << status, task, listed, code, cancelled, raised >>
          \/ \* terminate() of a process asyncio has let go of
             /\ process = "ended" /\ CancelGoes(k, "refused")
             /\ UNCHANGED << status, task, listed, process, code, cancelled, raised >>
     ELSE SetCancelled(k)

CancelSeesEnd(k) == cancel[k] \in {"waiting", "killing"} /\ process = "ended" /\ SetCancelled(k)

\* wait_for gives up after five seconds.
TimeOut(k) ==
  /\ cancel[k] = "waiting"
  /\ \/ /\ CancelGoes(k, "killing")
        /\ process' = IF process = "ended" THEN "ended" ELSE "killed"
     \/ process = "ended" /\ CancelGoes(k, "refused") /\ UNCHANGED process
  /\ UNCHANGED << status, task, listed, code, cancelled, raised >>

CancelJob(k) == CallCancel(k) \/ CancelSeesEnd(k) \/ TimeOut(k)

JobNext ==
  \/ CreateJob \/ RunJob \/ ProcessEnds
  \/ \E k \in Cancels : CancelJob(k)

JobSpec == JobInit /\ [][JobNext]_jobVars

-----------------------------------------------------------------------------
\* A task that has ended leaves no process behind, and a job that succeeded
\* had a process that ended with 0.
DoneLeavesNothing ==
  /\ task = "done" => ~listed /\ process \in {"none", "ended"}
                      /\ status \in {"succeeded", "failed", "cancelled"}
  /\ status = "succeeded" => process = "ended" /\ code = 0

\* A cancel answered while the job had a process, or later, is final unless
\* the task raised: the end of the process does not undo it (line 178).
CancelIsFinal == cancelled => status = "cancelled" \/ raised

\* A cancel that found the process running ends it, by force if it must.
CancelEndsProcess ==
  \A k \in Cancels :
    cancel[k] = "waiting" ~> process = "ended" /\ cancel[k] \in {"answered", "refused"}

\* What a render job promises to who cancels it (render_service.py:152-199).
JobsSettle == [](DoneLeavesNothing /\ CancelIsFinal) /\ CancelEndsProcess
===============================================================================
