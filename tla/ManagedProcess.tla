--------------------------- MODULE ManagedProcess ---------------------------
(* One managed process under supervision (_manager/process_supervision.py and  *)
(* manager.py): the handle the manager keeps, the operating-system process      *)
(* behind handle.popen, and the operator's start, stop, restart, add, remove.   *)
(*                                                                             *)
(* All of the manager's code here runs on its pump thread: a pump drains the   *)
(* heartbeats, answers requests and then supervises the handle in four phases. *)
(* Each poll of the child is a step of its own, so the child may exit, and a   *)
(* heartbeat may arrive, between any two of them.                              *)
(*                                                                             *)
(* Clocks are abstracted to timers: a deadline is not set, set, or past, and   *)
(* it may pass between two pumps (now_mono is read once per pump).  silence    *)
(* stands for the verdict of the staleness rules (timeout, strikes, hard        *)
(* timeout, reconciliation and startup grace).  A child may exit at any time    *)
(* with any code or never, so terminate() and kill() need no state.            *)
EXTENDS Integers

CONSTANTS
    Specs,           \* the ProcessSpecs to consider, see SpecType
    MaxRestarts,     \* max_restarts, for a limited spec
    MaxKills,        \* _MAX_KILL_ATTEMPTS; 5 in the code
    SpawnMayFail,    \* may Popen raise?
    MaxCommands      \* bound: requests of the operator

SpecType == [policy : {"NEVER", "ON_FAILURE", "ALWAYS"},   \* restart_policy
             limited : BOOLEAN,                          \* max_restarts is set
             eager : BOOLEAN]                            \* restart_backoff_s = 0

ASSUME SpecAssumption == Specs \subseteq SpecType
ASSUME LimitAssumption == MaxRestarts \in Nat /\ MaxKills \in Nat \ {0}
ASSUME CommandAssumption == MaxCommands \in Nat /\ SpawnMayFail \in BOOLEAN

VARIABLES
    spec,        \* handle.spec
    up,          \* run_forever has not been left by an exception
    pc,          \* the phase of the pump
    known,       \* process_id in _processes
    state,       \* handle.state
    child,       \* what handle.popen.poll() would say: see Children
    strays,      \* children running although no handle refers to them
    deadline,    \* stop_requested_t_mono + shutdown_timeout_s
    restartAt,   \* next_restart_t_mono
    silence,     \* the heartbeat has been missing for too long
    exitCode,    \* last_exit_code
    restarts,    \* restart_count
    kills,       \* kill_attempts
    retried,     \* startup_collision_retry_done
    reachable,   \* rpc_endpoint is not None
    wire, inbox, \* a heartbeat is on its way / waits in the SUB socket
    asked,       \* requests of the operator so far
    stopped      \* history: the operator stopped a live child for good

envVars == <<wire, inbox>>
stopVars == <<deadline, restartAt>>
tally == <<restarts, kills, retried, exitCode>>
vars == <<spec, up, pc, known, state, child, strays, stopVars, silence, tally,
          reachable, envVars, asked, stopped>>

States == {"STOPPED", "STARTING", "RUNNING", "STOPPING", "EXITED", "FAILED",
           "CRASHLOOP"}
Children == {"none",    \* popen is None
             "alive",   \* poll() is None
             "zero",    \* exited with code 0
             "crash"}   \* exited with another code
Timers == {"none", "set", "past"}
Phases == {"drain", "serve", "poll", "heartbeat", "stop", "restart"}

\* The type of every variable.
TypeOK ==
    /\ spec \in Specs
    /\ up \in BOOLEAN /\ known \in BOOLEAN
    /\ pc \in Phases
    /\ state \in States /\ child \in Children /\ strays \in Nat
    /\ deadline \in Timers /\ restartAt \in Timers
    /\ silence \in BOOLEAN
    /\ exitCode \in Children \ {"alive"}
    /\ restarts \in 0 .. MaxRestarts
    /\ kills \in 0 .. MaxKills
    /\ retried \in BOOLEAN /\ reachable \in BOOLEAN
    /\ wire \in BOOLEAN /\ inbox \in BOOLEAN
    /\ asked \in 0 .. MaxCommands
    /\ stopped \in BOOLEAN

\* A new ProcessHandle.
FreshHandle ==
    /\ state = "STOPPED" /\ child = "none"
    /\ deadline = "none" /\ restartAt = "none" /\ silence = FALSE
    /\ exitCode = "none" /\ restarts = 0 /\ kills = 0
    /\ retried = FALSE /\ reachable = FALSE

Init ==
    /\ spec \in Specs
    /\ up = TRUE /\ pc = "drain" /\ known = TRUE
    /\ FreshHandle
    /\ strays = 0
    /\ wire = FALSE /\ inbox = FALSE
    /\ asked = 0 /\ stopped = FALSE

-----------------------------------------------------------------------------
(* The child and its heartbeats.                                               *)

ChildExits ==
    /\ child = "alive"
    /\ child' \in {"zero", "crash"}
    /\ UNCHANGED <<spec, up, pc, known, state, strays, stopVars, silence, tally,
                   reachable, envVars, asked, stopped>>

\* The heartbeat thread of the child publishes.
ChildBeats ==
    /\ child = "alive" /\ ~wire
    /\ wire' = TRUE
    /\ UNCHANGED <<spec, up, pc, known, state, child, strays, stopVars, silence,
                   tally, reachable, inbox, asked, stopped>>

\* A heartbeat reaches the SUB socket, or is lost; it may outlive its sender.
BeatArrives ==
    /\ wire /\ wire' = FALSE
    /\ inbox' \in {inbox, TRUE}
    /\ UNCHANGED <<spec, up, pc, known, state, child, strays, stopVars, silence,
                   tally, reachable, asked, stopped>>

-----------------------------------------------------------------------------
(* Time passes between two pumps.                                              *)

StopDeadlinePasses ==
    /\ pc = "drain" /\ deadline = "set"
    /\ deadline' = "past"
    /\ UNCHANGED <<spec, up, pc, known, state, child, strays, restartAt, silence,
                   tally, reachable, envVars, asked, stopped>>

BackoffPasses ==
    /\ pc = "drain" /\ restartAt = "set"
    /\ restartAt' = "past"
    /\ UNCHANGED <<spec, up, pc, known, state, child, strays, deadline, silence,
                   tally, reachable, envVars, asked, stopped>>

FallsSilent ==
    /\ pc = "drain" /\ ~silence /\ state \in {"STARTING", "RUNNING"}
    /\ silence' = TRUE
    /\ UNCHANGED <<spec, up, pc, known, state, child, strays, stopVars, tally,
                   reachable, envVars, asked, stopped>>

-----------------------------------------------------------------------------
(* Starting and stopping the child.                                            *)

Backoff == IF spec.eager THEN "past" ELSE "set"

\* start_process_handle beyond its early returns, when Popen succeeds.
Spawn(retry) ==
    /\ child' = "alive"
    /\ strays' = strays + (IF child = "alive" THEN 1 ELSE 0)
    /\ state' = "STARTING"
    /\ reachable' = FALSE /\ silence' = FALSE
    /\ exitCode' = "none" /\ deadline' = "none" /\ restartAt' = "none"
    /\ kills' = 0 /\ retried' = retry
    /\ UNCHANGED <<spec, known, envVars>>

\* ... and when it raises.
SpawnRaises ==
    /\ SpawnMayFail
    /\ child' = "none" /\ state' = "FAILED"

\* Mutant: start_process_handle does not look at the running child.
MayStartAnyway == state # "CRASHLOOP"

\* start_process_handle returns early while the child runs and in CRASHLOOP.
MayStart == child # "alive" /\ state # "CRASHLOOP"

\* What a heartbeat does to the handle (_ingest_process_heartbeat); its pid is
\* not compared with that of the child.
Ingest ==
    /\ inbox' = FALSE
    /\ IF known
         THEN /\ silence' = FALSE /\ reachable' = TRUE
              /\ state' = IF state = "STARTING" THEN "RUNNING" ELSE state
              /\ retried' = IF state = "STARTING" THEN FALSE ELSE retried
         ELSE UNCHANGED <<silence, reachable, state, retried>>

\* stop_process_handle.  The graceful request to a reachable child may wait for
\* its answer, and drains the heartbeats meanwhile.
StopHandle ==
    \/ /\ child = "none"
       /\ state' = "STOPPED"
       /\ UNCHANGED <<child, deadline, silence, exitCode, retried, reachable, inbox>>
    \/ /\ child \in {"zero", "crash"}
       /\ state' = IF child = "zero" THEN "EXITED" ELSE "FAILED"
       /\ exitCode' = child /\ child' = "none" /\ reachable' = FALSE
       /\ UNCHANGED <<deadline, silence, retried, inbox>>
    \/ /\ child = "alive"
       /\ state' = "STOPPING" /\ deadline' = "set" /\ reachable' = FALSE
       /\ \/ UNCHANGED <<silence, retried, inbox>>
          \/ /\ reachable /\ inbox
             /\ inbox' = FALSE /\ silence' = FALSE
             /\ retried' = IF state = "STARTING" THEN FALSE ELSE retried
       /\ UNCHANGED <<child, exitCode>>

-----------------------------------------------------------------------------
(* The operator's requests, answered in the internal_rpc phase.                *)

Request ==
    /\ up /\ pc = "serve"
    /\ asked < MaxCommands
    /\ asked' = asked + 1
    /\ UNCHANGED <<spec, up, pc, wire>>

\* start_process: an exception becomes an error reply.
OperatorStart ==
    /\ Request /\ known
    /\ stopped' = FALSE
    /\ \/ MayStart /\ Spawn(FALSE) /\ UNCHANGED restarts
       \/ /\ MayStart /\ SpawnRaises
          /\ UNCHANGED <<known, strays, stopVars, silence, tally, reachable, inbox>>
       \/ /\ ~MayStart
          /\ UNCHANGED <<known, state, child, strays, stopVars, silence, tally,
                         reachable, inbox>>

OperatorStop ==
    /\ Request /\ known
    /\ StopHandle
    /\ stopped' = (stopped \/ (child = "alive" /\ restartAt = "none"))
    /\ UNCHANGED <<known, strays, restartAt, restarts, kills>>

OperatorRestart ==
    /\ Request /\ known
    /\ StopHandle
    /\ restartAt' = Backoff
    /\ stopped' = FALSE
    /\ UNCHANGED <<known, strays, restarts, kills>>

\* remove_process refuses while the child runs.
RemoveProcess ==
    /\ Request /\ known /\ child # "alive"
    /\ known' = FALSE /\ stopped' = FALSE
    /\ state' = "STOPPED" /\ child' = "none"
    /\ deadline' = "none" /\ restartAt' = "none" /\ silence' = FALSE
    /\ exitCode' = "none" /\ restarts' = 0 /\ kills' = 0
    /\ retried' = FALSE /\ reachable' = FALSE
    /\ UNCHANGED <<strays, inbox>>

\* add_process: a fresh handle, which is what RemoveProcess left behind.
AddProcess ==
    /\ Request /\ ~known
    /\ known' = TRUE
    /\ UNCHANGED <<state, child, strays, stopVars, silence, tally, reachable,
                   inbox, stopped>>

\* manager.processes.rpc.advertise.
AdvertiseRpc ==
    /\ up /\ pc = "serve" /\ known
    /\ child = "alive" /\ ~reachable
    /\ reachable' = TRUE
    /\ UNCHANGED <<spec, up, pc, known, state, child, strays, stopVars, silence,
                   tally, envVars, asked, stopped>>

-----------------------------------------------------------------------------
(* The pump: _pump_once up to the requests, then supervise_managed_processes.  *)

DrainHeartbeats ==
    /\ up /\ pc = "drain" /\ pc' = "serve"
    /\ \/ inbox /\ Ingest
       \/ ~inbox /\ UNCHANGED <<inbox, silence, reachable, state, retried>>
    /\ UNCHANGED <<spec, up, known, child, strays, stopVars, restarts, kills,
                   exitCode, wire, asked, stopped>>

EndServing ==
    /\ up /\ pc = "serve"
    /\ pc' = IF known THEN "poll" ELSE "drain"
    /\ UNCHANGED <<spec, up, known, state, child, strays, stopVars, silence, tally,
                   reachable, envVars, asked, stopped>>

\* The child is still running, or there is none.
PollQuiet ==
    /\ up /\ pc = "poll" /\ pc' = "heartbeat"
    /\ child \in {"none", "alive"}
    /\ UNCHANGED <<spec, up, known, state, child, strays, stopVars, silence, tally,
                   reachable, envVars, asked, stopped>>

\* update_managed_process_exit_state without collision recovery.
PollExited ==
    /\ up /\ pc = "poll" /\ pc' = "heartbeat"
    /\ child \in {"zero", "crash"}
    /\ exitCode' = child /\ child' = "none" /\ reachable' = FALSE
    /\ state' = CASE state = "STOPPING" -> "EXITED"
                  [] state # "STOPPING" /\ child = "zero" -> "STOPPED"
                  [] OTHER -> "FAILED"
    /\ UNCHANGED <<spec, up, known, strays, stopVars, silence, restarts, kills,
                   retried, envVars, asked, stopped>>

\* _maybe_recover_process_start_collision: the logs of a child that crashed
\* while STARTING name an endpoint collision; it is respawned at once, one time.
CollisionRecovery ==
    /\ up /\ pc = "poll"
    /\ child = "crash" /\ state = "STARTING" /\ ~retried
    /\ \/ Spawn(TRUE) /\ UNCHANGED restarts /\ pc' = "drain"
       \/ /\ SpawnRaises /\ pc' = "heartbeat"
          /\ retried' = TRUE /\ exitCode' = child /\ reachable' = FALSE
          /\ UNCHANGED <<known, strays, stopVars, silence, restarts, kills, envVars>>
    /\ UNCHANGED <<spec, up, asked, stopped>>

\* enforce_managed_process_heartbeat_timeout: look for a waiting heartbeat before
\* failing the process; terminate() may raise.
HeartbeatCheck ==
    /\ up /\ pc = "heartbeat" /\ pc' = "stop"
    /\ LET stale == state \in {"STARTING", "RUNNING"} /\ silence
       IN  \/ /\ ~stale
              /\ UNCHANGED <<state, silence, reachable, retried, inbox, deadline>>
           \/ stale /\ inbox /\ Ingest /\ UNCHANGED deadline
           \/ /\ stale /\ ~inbox
              /\ state' = "FAILED"
              /\ deadline' \in IF child = "alive" THEN {"set", deadline} ELSE {deadline}
              /\ UNCHANGED <<silence, reachable, retried, inbox>>
    /\ UNCHANGED <<spec, up, known, child, strays, restartAt, restarts, kills,
                   exitCode, wire, asked, stopped>>

\* Mutant: a live child that ignores kill() is killed again for ever.
StopCheckNoCap ==
    /\ up /\ pc = "stop" /\ pc' = "restart"
    /\ deadline' = IF state = "STOPPING" /\ child = "alive" /\ deadline = "none"
                     THEN "set" ELSE deadline
    /\ UNCHANGED <<spec, up, known, state, child, strays, restartAt, silence, tally,
                   reachable, envVars, asked, stopped>>

\* enforce_managed_process_stop_timeout.  kill_attempts matters only up to the cap;
\* a second stop of a child that survived the first does not reset it.
StopCheck ==
    /\ up /\ pc = "stop" /\ pc' = "restart"
    /\ LET stopping == state = "STOPPING" /\ child = "alive"
       IN  \/ /\ stopping /\ deadline = "none"
              /\ deadline' = "set"
              /\ UNCHANGED <<kills, state>>
           \/ /\ stopping /\ deadline = "past"
              /\ kills' = IF kills < MaxKills THEN kills + 1 ELSE kills
              /\ state' = IF kills + 1 >= MaxKills THEN "FAILED" ELSE state
              /\ UNCHANGED deadline
           \/ /\ ~stopping \/ deadline = "set"
              /\ UNCHANGED <<deadline, kills, state>>
    /\ UNCHANGED <<spec, up, known, child, strays, restartAt, silence, restarts,
                   retried, exitCode, reachable, envVars, asked, stopped>>

\* maybe_schedule_restart: is a restart to be scheduled?
Wanted ==
    /\ restartAt = "none"
    /\ \/ spec.policy = "ALWAYS"
       \/ spec.policy = "ON_FAILURE" /\ exitCode = "crash"

\* Mutant: a stop on request is scheduled for restart like any other exit.
RestartDueAnyway ==
    IF state \in {"FAILED", "EXITED"} /\ Wanted THEN Backoff ELSE restartAt

\* The restart time after the first half of maybe_restart_managed_process.
RestartDue ==
    IF state \in {"FAILED", "EXITED"} /\ deadline = "none" /\ Wanted
      THEN Backoff ELSE restartAt

\* Mutant: a restart that is due does not wait for the old child to exit.
NotDueYetEager == RestartDue # "past"

\* Mutant: a restart that is due is carried out in FAILED and EXITED only.
NotDueYetNarrow ==
    RestartDue # "past" \/ child = "alive" \/ state \notin {"FAILED", "EXITED"}

\* The second half waits for the backoff and for the old child to exit.
NotDueYet == RestartDue # "past" \/ child = "alive"

RestartWaits ==
    /\ up /\ pc = "restart" /\ pc' = "drain"
    /\ NotDueYet
    /\ restartAt' = RestartDue
    /\ UNCHANGED <<spec, up, known, state, child, strays, deadline, silence, tally,
                   reachable, envVars, asked, stopped>>

Exhausted == spec.limited /\ restarts >= MaxRestarts

\* try_restart_process with the restarts used up.
GiveUp ==
    /\ up /\ pc = "restart" /\ pc' = "drain"
    /\ ~NotDueYet /\ Exhausted
    /\ state' = "CRASHLOOP" /\ restartAt' = "none"
    /\ UNCHANGED <<spec, up, known, child, strays, deadline, silence, tally,
                   reachable, envVars, asked, stopped>>

\* restart_count matters only where max_restarts is set.
CountRestart == IF spec.limited THEN restarts + 1 ELSE restarts

\* try_restart_process.  An exception of Popen is caught nowhere on the way up
\* to run_forever and ends the manager.
TryRestart ==
    /\ up /\ pc = "restart" /\ pc' = "drain"
    /\ ~NotDueYet /\ ~Exhausted
    /\ restarts' = CountRestart
    /\ \/ MayStart /\ Spawn(FALSE) /\ UNCHANGED up
       \/ /\ MayStart /\ SpawnRaises /\ up' = FALSE
          /\ restartAt' = "none" /\ deadline' = "none"
          /\ UNCHANGED <<known, strays, silence, exitCode, kills, retried,
                         reachable, envVars>>
       \/ /\ ~MayStart
          /\ restartAt' = "none" /\ deadline' = "none"
          /\ UNCHANGED <<up, known, state, child, strays, silence, exitCode, kills,
                         retried, reachable, envVars>>
    /\ UNCHANGED <<spec, asked, stopped>>

Pump ==
    \/ DrainHeartbeats \/ EndServing
    \/ PollQuiet \/ PollExited \/ CollisionRecovery
    \/ HeartbeatCheck \/ StopCheck
    \/ RestartWaits \/ GiveUp \/ TryRestart

Operator ==
    \/ OperatorStart \/ OperatorStop \/ OperatorRestart
    \/ RemoveProcess \/ AddProcess

Environment == ChildExits \/ ChildBeats \/ BeatArrives \/ AdvertiseRpc

Time == StopDeadlinePasses \/ BackoffPasses \/ FallsSilent

Next == Pump \/ Operator \/ Environment \/ Time

Spec == Init /\ [][Next]_vars

\* The pump loop never rests, and time passes while it turns: a timer that is
\* set expires although the pump is between two iterations only now and then.
\* Nothing is assumed of the child, the operator or the network.
Fairness ==
    /\ WF_vars(Pump)
    /\ SF_vars(StopDeadlinePasses) /\ SF_vars(BackoffPasses)

FairSpec == Spec /\ Fairness

-----------------------------------------------------------------------------
(* Properties.                                                                 *)

\* A handle never has two children: whatever the operator, the restart timer and
\* the collision recovery do, no process is spawned while an earlier one of the
\* same handle is running (start_process_handle).
OneChild == strays = 0

\* A child that is being stopped always has a deadline after which it is killed,
\* so that the escalation cannot be disabled (enforce_managed_process_stop_timeout
\* calls the opposite a wedge; the re-arming there is never needed).
StoppingHasDeadline == state = "STOPPING" /\ child = "alive" => deadline # "none"

\* A running child that the operator stopped while no restart was pending is not
\* brought back by supervision, whatever the restart policy, until the operator
\* says so (maybe_restart_managed_process).
StopSticks == stopped => state \notin {"STARTING", "RUNNING"}

\* STOPPING ends, even if the child survives every kill().
StoppingEnds == state = "STOPPING" ~> (state # "STOPPING" \/ ~up)

\* A restart that was scheduled, by policy or by the operator, is attempted once
\* the old child is gone, in whatever state it left the handle.
RestartIsAttempted ==
    (restartAt # "none" /\ child # "alive") ~> (restartAt = "none" \/ ~up)

\* After the kill() escalation has marked the handle FAILED and the child is gone
\* after all, restart supervision takes over under policy ALWAYS, as the comment in
\* enforce_managed_process_stop_timeout says.
EscalationIsTakenOver ==
    (state = "FAILED" /\ kills = MaxKills /\ child = "none" /\ spec.policy = "ALWAYS")
      ~> (restartAt # "none" \/ state # "FAILED" \/ ~up)
=============================================================================
