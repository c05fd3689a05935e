---------------------------- MODULE RunnerManager ----------------------------
(***************************************************************************)
(* RunnerManager: the commands gRPC clients send to the Runner, and what   *)
(* they do to the pipeline, to the telemetry hub and to the WebRTC         *)
(* publisher.  One mutex serializes the commands, but peers come and go    *)
(* and telemetry is watched while a command holds it, so a command is a    *)
(* sequence of steps.  A configuration is known by its streams.  A reload  *)
(* whose YAML does not load or has no streams is refused before anything   *)
(* else: a stuttering step, like the calls that only read (validate,       *)
(* status, streams, analyze_enrollment_image) and reload_gallery, whose    *)
(* effect is in RecognizerCache.                                           *)
(***************************************************************************)
EXTENDS Integers

CONSTANTS
  Clients,      \* the gRPC handler threads
  Free,         \* none of them
  Streams,      \* all stream ids any configuration names
  MaxCommands   \* bound: the number of commands

ASSUME FreeAssumption == Free \notin Clients
ASSUME MaxCommandsAssumption == MaxCommands \in Nat

VARIABLES
  lock,               \* the holder of mutex_, if any
  pc, op,             \* of each client: the next step of its command
  new_config, old_config,
  config,             \* config_ with expanded_streams_
  runtime,            \* the streams of *runtime_, {} when it is null
  state,              \* state_
  last_error,         \* last_error_ is not empty
  telemetry_streams,  \* the hub's stream_ids_
  last_status,        \* the state published last
  registered,         \* the streams registered with the publishers
  sessions,           \* the WebRTC sessions: <<stream, epoch of the offer>>
  \* history
  commands,           \* the number of commands so far
  epoch,              \* the number of pipelines stopped so far
  accepted            \* the configuration of the last accepted reload

command == <<lock, pc, op, new_config, old_config, commands>>
pipeline == <<config, runtime, state, last_error>>
outside == <<telemetry_streams, last_status, registered, sessions>>
vars == <<command, pipeline, outside, epoch, accepted>>

Config == SUBSET Streams

TypeOK ==
  /\ lock \in Clients \cup {Free}
  /\ pc \in [Clients -> {"idle", "lock", "stop", "clear", "install", "start", "rollback",
                         "restart", "unlock"}]
  /\ op \in [Clients -> {"start", "stop", "reload"}]
  /\ new_config \in [Clients -> Config] /\ old_config \in [Clients -> Config]
  /\ config \in Config /\ runtime \in Config /\ accepted \in Config
  /\ state \in {"stopped", "stopping", "running", "error"}
  /\ last_error \in BOOLEAN
  /\ telemetry_streams \in Config
  /\ last_status \in {"stopped", "running"}
  /\ registered \in Config
  /\ commands \in Nat /\ epoch \in Nat
  /\ sessions \in SUBSET (Streams \X Nat)

(* The constructor registers the configured streams and starts nothing.    *)
Init ==
  /\ lock = Free
  /\ pc = [c \in Clients |-> "idle"] /\ op = [c \in Clients |-> "stop"]
  /\ new_config = [c \in Clients |-> {}] /\ old_config = [c \in Clients |-> {}]
  /\ config \in Config
  /\ runtime = {}
  /\ state = "stopped" /\ last_error = FALSE
  /\ telemetry_streams = config /\ registered = config
  /\ last_status = "stopped"
  /\ sessions = {}
  /\ commands = 0 /\ epoch = 0
  /\ accepted = config

Goto(c, label) == pc' = [pc EXCEPT ![c] = label]

-----------------------------------------------------------------------------
(* A client asks for something.  A reload's configuration is loaded and    *)
(* its streams are counted before the mutex is taken.                      *)
Call(c) ==
  /\ pc[c] = "idle"
  /\ commands < MaxCommands
  /\ commands' = commands + 1
  /\ \/ op' \in {[op EXCEPT ![c] = o] : o \in {"start", "stop"}} /\ UNCHANGED new_config
     \/ \E n \in Config \ {{}} : /\ op' = [op EXCEPT ![c] = "reload"]
                                 /\ new_config' = [new_config EXCEPT ![c] = n]
  /\ Goto(c, "lock")
  /\ UNCHANGED <<lock, old_config, pipeline, outside, epoch, accepted>>

Acquire(c) ==
  /\ pc[c] = "lock"
  /\ lock = Free
  /\ lock' = c
  /\ old_config' = [old_config EXCEPT ![c] = config]
  /\ Goto(c, IF op[c] = "start" THEN "start" ELSE "stop")
  /\ UNCHANGED <<op, new_config, commands, pipeline, outside, epoch, accepted>>

AfterStop(c) == IF op[c] = "reload" THEN "install" ELSE "unlock"

(* stop_locked_: nothing to do without a pipeline.  runtime_->stop joins   *)
(* every thread of the pipeline.                                           *)
StopRuntime(c) ==
  /\ pc[c] = "stop"
  /\ \/ /\ runtime = {}
        /\ Goto(c, AfterStop(c))
        /\ UNCHANGED <<pipeline, epoch>>
     \/ /\ runtime # {}
        /\ runtime' = {}
        /\ state' = "stopping"
        /\ epoch' = epoch + 1
        /\ Goto(c, "clear")
        /\ UNCHANGED <<config, last_error>>
  /\ UNCHANGED <<lock, op, new_config, old_config, commands, outside, accepted>>

(* The rest of stop_locked_: all WebRTC peers are disconnected.            *)
ClearSessions(c) ==
  /\ pc[c] = "clear"
  /\ sessions' = {}
  /\ state' = "stopped"
  /\ last_status' = "stopped"
  /\ Goto(c, AfterStop(c))
  /\ UNCHANGED <<lock, op, new_config, old_config, commands, config, runtime, last_error,
                 telemetry_streams, registered, epoch, accepted>>

(* Configuration n takes effect; streams are never unregistered.           *)
Configure(n) ==
  /\ config' = n
  /\ telemetry_streams' = n
  /\ registered' = registered \cup n

Install(c) ==
  /\ pc[c] = "install"
  /\ Configure(new_config[c])
  /\ Goto(c, "start")
  /\ UNCHANGED <<lock, op, new_config, old_config, commands, runtime, state, last_error,
                 last_status, sessions, epoch, accepted>>

Rollback(c) ==
  /\ pc[c] = "rollback"
  /\ last_error' = TRUE
  /\ Configure(old_config[c])
  /\ Goto(c, "restart")
  /\ UNCHANGED <<lock, op, new_config, old_config, commands, runtime, state,
                 last_status, sessions, epoch, accepted>>

(* Wrong: a rollback that fails is tried again. *)
AfterFailure_Retries(c) == IF op[c] = "reload" THEN "rollback" ELSE "unlock"

(* Wrong: the new configuration stays. *)
AfterFailure_NoRollback(c) == "unlock"

(* A reload whose pipeline fails to start is rolled back, once.            *)
AfterFailure(c) == IF op[c] = "reload" /\ pc[c] = "start" THEN "rollback" ELSE "unlock"

(* start_locked_ of a configuration that has streams.  Whether the         *)
(* pipeline starts depends on models, devices and files.                   *)
StartRuntime(c) ==
  /\ pc[c] \in {"start", "restart"}
  /\ runtime = {} /\ config # {}
  /\ \/ /\ runtime' = config
        /\ state' = "running" /\ last_status' = "running"
        /\ last_error' = FALSE
        /\ accepted' = IF op[c] = "reload" /\ pc[c] = "start" THEN config ELSE accepted
        /\ Goto(c, "unlock")
     \/ /\ state' = "error" /\ last_status' = "stopped"
        /\ last_error' = TRUE
        /\ Goto(c, AfterFailure(c))
        /\ UNCHANGED <<runtime, accepted>>
  /\ UNCHANGED <<lock, op, new_config, old_config, commands, config, telemetry_streams,
                 registered, sessions, epoch>>

(* start_locked_ without streams. *)
RefuseStart(c) ==
  /\ pc[c] \in {"start", "restart"}
  /\ runtime = {} /\ config = {}
  /\ state' = "error"
  /\ last_error' = TRUE
  /\ Goto(c, AfterFailure(c))
  /\ UNCHANGED <<lock, op, new_config, old_config, commands, config, runtime, outside, epoch,
                 accepted>>

(* start_locked_ of a running pipeline: nothing to do. *)
KeepRunning(c) ==
  /\ pc[c] \in {"start", "restart"}
  /\ runtime # {}
  /\ Goto(c, "unlock")
  /\ UNCHANGED <<lock, op, new_config, old_config, commands, pipeline, outside, epoch, accepted>>

Unlock(c) ==
  /\ pc[c] = "unlock"
  /\ lock' = Free
  /\ Goto(c, "idle")
  /\ UNCHANGED <<op, new_config, old_config, commands, pipeline, outside, epoch, accepted>>

Execute(c) ==
  \/ StopRuntime(c) \/ ClearSessions(c) \/ Install(c) \/ Rollback(c)
  \/ StartRuntime(c) \/ RefuseStart(c) \/ KeepRunning(c) \/ Unlock(c)

(* WebRTCPublisher on the HTTP server's threads: an offer is accepted for  *)
(* every registered stream, and sessions end on their own.                 *)
HandleOffer(s) ==
  /\ s \in registered
  /\ sessions' = sessions \cup {<<s, epoch>>}
  /\ UNCHANGED <<command, pipeline, telemetry_streams, last_status, registered, epoch, accepted>>

EndSession ==
  /\ \E x \in sessions : sessions' = sessions \ {x}
  /\ UNCHANGED <<command, pipeline, telemetry_streams, last_status, registered, epoch, accepted>>

Next ==
  \/ \E c \in Clients : Call(c) \/ Acquire(c) \/ Execute(c)
  \/ \E s \in Streams : HandleOffer(s)
  \/ EndSession

Spec == Init /\ [][Next]_vars

(* The thread that holds the mutex goes on. *)
FairSpec == Spec /\ \A c \in Clients : WF_vars(Execute(c))

-----------------------------------------------------------------------------
(* Between commands everything that tells about the pipeline agrees: the   *)
(* state answered to clients, the status published last, the hub's         *)
(* streams, and the publishers know every stream that may send frames.     *)
Settled ==
  lock = Free =>
    /\ state # "stopping"
    /\ state = "running" <=> runtime # {}
    /\ runtime # {} => runtime = config /\ ~last_error
    /\ state = "error" => last_error
    /\ last_status = "running" <=> runtime # {}
    /\ telemetry_streams = config
    /\ config \subseteq registered

(* Between commands the configuration is the one of the last reload that   *)
(* was accepted, whichever reloads failed since and how far they got       *)
(* (README.md:179).                                                        *)
ConfigIsAccepted == lock = Free => config = accepted

(* No peer stays connected across a stop or a reload: between commands     *)
(* every session was offered after the last pipeline stopped, including    *)
(* offers handled while that pipeline was being stopped.                   *)
NoStaleSession == lock = Free => \A x \in sessions : x[2] = epoch

(* What a client finds when no command is under way, after any sequence of *)
(* starts, stops and reloads that failed at any point.                     *)
CommandsAgree == Settled /\ ConfigIsAccepted /\ NoStaleSession

(* A command ends, however often the pipeline fails to start. *)
CommandsEnd == \A c \in Clients : (lock = c) ~> (lock # c)
=============================================================================
