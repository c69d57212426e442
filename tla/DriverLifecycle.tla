--------------------------- MODULE DriverLifecycle ---------------------------
(* The driver process of one device (_manager/process_supervision.py,           *)
(* driver_heartbeat_policy.py and manager.py).  Two kinds of thread touch the    *)
(* DeviceHandle:                                                                *)
(*   - the manager's pump ingests registrations and heartbeats without a lock,   *)
(*     and supervises the driver only if it gets the device's lifecycle lock at  *)
(*     the first try;                                                           *)
(*   - workers of the lifecycle executor carry out start, stop, restart and      *)
(*     connect, one at a time, each under the lifecycle lock.                   *)
(* owner is the holder of that lock and step its program counter, so that every  *)
(* blocking call of a worker, and every check-then-act of start_driver, is open  *)
(* to the pump.  Clocks are abstracted to timers and ages (see Timers, Ages).    *)
EXTENDS Integers, FiniteSets

CONSTANTS
    Specs,           \* the configurations to consider, see SpecType
    Workers,         \* bound: tasks of this device in the lifecycle executor
    MaxRestarts,     \* driver_max_restarts, for a limited spec
    SpawnMayFail,    \* may Popen raise?
    MaxRequests,     \* bound: requests of the operator
    MaxStalls,       \* bound: times the heartbeat passes the hard timeout
    MaxTries         \* register_retries; 3 in the code

SpecType == [recover : BOOLEAN,   \* driver_restart_on_heartbeat_timeout
             limited : BOOLEAN,   \* driver_max_restarts is set
             auto : BOOLEAN]      \* the manager's auto_connect_on_register

ASSUME SpecAssumption == Specs \subseteq SpecType
ASSUME WorkerAssumption == "free" \notin Workers /\ "pump" \notin Workers
ASSUME BoundAssumption ==
    /\ MaxRestarts \in Nat /\ MaxRequests \in Nat /\ MaxStalls \in Nat
    /\ MaxTries \in Nat /\ SpawnMayFail \in BOOLEAN

VARIABLES
    spec,
    up,          \* run_forever has not been left by an exception
    gen,         \* driver_generation
    state,       \* driver_process_state
    child,       \* what handle.process.poll() would say, "none" for no process
    strays,      \* drivers running although no handle refers to them
    regGen,      \* driver_registered_generation, 0 for None
    hb,          \* last_hb: none, or device_reachable (up) or not (down)
    hbAge,       \* the age of last_hb_recv_mono
    runAge,      \* the age of driver_running_since_mono
    saved,       \* previous_heartbeat in start_driver
    deadline,    \* driver_stop_requested_t_mono
    kind,        \* driver_last_error_kind
    restartAt,   \* driver_next_restart_t_mono
    automatic,   \* driver_restart_is_automatic
    restarts,    \* driver_restart_count
    healthy,     \* driver_restart_healthy_since_mono
    intent,      \* driver_reconnect_after_restart
    intentGen,   \* driver_reconnect_generation, 0 for None
    joined,      \* the driver's registration has been acknowledged to it
    tries,       \* registrations the driver has sent
    regs, beat,  \* messages to the manager: generations, a heartbeat
    pump, reg,   \* what the pump is doing, and the registration it handles
    owner, step, \* the holder of the lifecycle lock and its next step
    task,        \* what each worker has to do
    asked, stalls,
    halted,      \* history: the operator's last command was a stop, and took place
    claimed,     \* history: the generations a recovery connect was made for
    twice        \* history: one of them a second time

process == <<child, strays, joined, tries>>
net == <<regs, beat>>
beats == <<hb, hbAge, runAge>>
recovery == <<restartAt, automatic, intent, intentGen>>
budget == <<restarts, healthy>>
counters == <<asked, stalls>>
history == <<halted, claimed, twice>>
vars == <<spec, up, gen, state, process, regGen, beats, saved, deadline,
          kind, recovery, budget, net, pump, reg, owner, step, task, counters,
          history>>

States == {"STOPPED", "STARTING", "RUNNING", "STOPPING", "FAILED", "CRASHLOOP"}
Children == {"none", "alive", "zero", "crash"}
\* fresh: within the heartbeat timeout; stale: past it, and maybe past the hard one.
Ages == {"none", "fresh", "stale"}
\* past: the moment has come; of a stop request, the stop and the kill timeout.
Timers == {"none", "set", "past"}
Kinds == {"none", "heartbeat_stale", "kill_timeout", "spawn_error", "nonzero_exit"}
Beats == {"none", "up", "down"}
Requests == {"start", "stop", "restart", "connect"}
\* A task; gen is the expected_generation of a recovery connect, else 0.
Tasks == [op : Requests \cup {"none"}, gen : Nat]
Steps == {"none", "popen", "adopt", "settle", "offline", "shutdown", "rpc",
          "beat", "relaunch"}
NoBeat == <<"none", "none", "none">>
NoTask == [op |-> "none", gen |-> 0]

\* The type of every variable.
TypeOK ==
    /\ spec \in Specs /\ up \in BOOLEAN
    /\ gen \in Nat /\ regGen \in Nat
    /\ state \in States
    /\ child \in Children /\ strays \in Nat /\ joined \in BOOLEAN
    /\ tries \in 0 .. MaxTries
    /\ hb \in Beats /\ hbAge \in Ages /\ runAge \in Ages
    /\ saved \in Beats \X Ages \X Ages
    /\ deadline \in Timers /\ kind \in Kinds
    /\ restartAt \in Timers /\ automatic \in BOOLEAN
    /\ intent \in BOOLEAN /\ intentGen \in Nat
    /\ restarts \in 0 .. MaxRestarts /\ healthy \in Timers
    /\ regs \subseteq Nat /\ beat \in Beats
    /\ pump \in {"idle", "apply", "dispatch", "supervise"} /\ reg \in Nat
    /\ owner \in {"free", "pump"} \cup Workers /\ step \in Steps
    /\ task \in [Workers -> Tasks]
    /\ asked \in 0 .. MaxRequests /\ stalls \in 0 .. MaxStalls
    /\ halted \in {"no", "yes", "revived"}
    /\ claimed \subseteq Nat /\ twice \in BOOLEAN

\* add_device.
Init ==
    /\ spec \in Specs /\ up = TRUE
    /\ gen = 0 /\ state = "STOPPED"
    /\ child = "none" /\ strays = 0 /\ joined = FALSE /\ tries = 0
    /\ regGen = 0
    /\ hb = "none" /\ hbAge = "none" /\ runAge = "none"
    /\ saved = NoBeat
    /\ deadline = "none" /\ kind = "none"
    /\ restartAt = "none" /\ automatic = FALSE
    /\ intent = FALSE /\ intentGen = 0
    /\ restarts = 0 /\ healthy = "none"
    /\ regs = {} /\ beat = "none"
    /\ pump = "idle" /\ reg = 0
    /\ owner = "free" /\ step = "none"
    /\ task = [w \in Workers |-> NoTask]
    /\ asked = 0 /\ stalls = 0
    /\ halted = "no" /\ claimed = {} /\ twice = FALSE

-----------------------------------------------------------------------------
(* The driver process.  A driver that runs has the current generation: no step  *)
(* advances gen while it does.                                                  *)

DriverExits ==
    /\ child = "alive"
    /\ child' \in {"zero", "crash"}
    /\ joined' = FALSE /\ tries' = 0
    /\ UNCHANGED <<spec, up, gen, state, strays, regGen,
                   beats, saved, deadline, kind, recovery, budget, net, pump, reg,
                   owner, step, task, counters, history>>

\* register_with_manager, once more while no acknowledgement has come.
DriverRegisters ==
    /\ child = "alive" /\ ~joined
    /\ tries < MaxTries /\ tries' = tries + 1
    /\ regs' = regs \cup {gen}
    /\ UNCHANGED <<spec, up, gen, state, child, strays, joined, regGen,
                   beats, saved, deadline, kind, recovery, budget, beat, pump, reg,
                   owner, step, task, counters, history>>

\* A heartbeat of the registered driver; one in flight stands for several.
DriverBeats ==
    /\ child = "alive" /\ joined
    /\ beat = "none" /\ beat' \in {"up", "down"}
    /\ UNCHANGED <<spec, up, gen, state, process, regGen, beats, saved,
                   deadline, kind, recovery, budget, regs, pump, reg, owner, step,
                   task, counters, history>>

-----------------------------------------------------------------------------
(* Time.  A supervision tick works with one now_mono.                           *)

\* This timer is looked at only while the driver runs.
StopTimerPasses ==
    /\ owner # "pump" /\ child = "alive" /\ deadline = "set"
    /\ deadline' = "past"
    /\ UNCHANGED <<spec, up, gen, state, process, regGen, beats, saved,
                   kind, recovery, budget, net, pump, reg, owner, step, task,
                   counters, history>>

BackoffPasses ==
    /\ owner # "pump" /\ restartAt = "set"
    /\ restartAt' = "past"
    /\ UNCHANGED <<spec, up, gen, state, process, regGen, beats, saved,
                   deadline, kind, automatic, intent, intentGen, budget, net, pump,
                   reg, owner, step, task, counters, history>>

HealthyPasses ==
    /\ owner # "pump" /\ healthy = "set"
    /\ healthy' = "past"
    /\ UNCHANGED <<spec, up, gen, state, process, regGen, beats, saved,
                   deadline, kind, recovery, restarts, net, pump, reg, owner, step,
                   task, counters, history>>

BeatAges ==
    /\ owner # "pump" /\ hbAge = "fresh"
    /\ hbAge' = "stale"
    /\ UNCHANGED <<spec, up, gen, state, process, regGen, hb, runAge,
                   saved, deadline, kind, recovery, budget, net, pump, reg, owner,
                   step, task, counters, history>>

RunAges ==
    /\ owner # "pump" /\ runAge = "fresh"
    /\ runAge' = "stale"
    /\ UNCHANGED <<spec, up, gen, state, process, regGen, hb, hbAge,
                   saved, deadline, kind, recovery, budget, net, pump, reg, owner,
                   step, task, counters, history>>

-----------------------------------------------------------------------------
(* The pump: registrations and heartbeats.                                     *)

Give(w, op, g) == task' = [task EXCEPT ![w] = [op |-> op, gen |-> g]]

\* The first part of _handle_registry: a registration of another generation is
\* acknowledged and dropped.
RegistryReceive(g) ==
    /\ up /\ pump = "idle" /\ g \in regs
    /\ regs' = regs \ {g}
    /\ IF g = gen THEN pump' = "apply" /\ reg' = g ELSE UNCHANGED <<pump, reg>>
    /\ UNCHANGED <<spec, up, gen, state, process, regGen, beats, saved,
                   deadline, kind, recovery, budget, beat, owner, step, task,
                   counters, history>>

\* May the registered driver be taken for a running one?
Promoted == child = "alive" \/ state = "STARTING" \/ hbAge = "fresh"

\* The second part stores it.  Its acknowledgement may come too late for the
\* driver, which then tries again.
RegistryApply ==
    /\ up /\ pump = "apply" /\ pump' = "dispatch"
    /\ regGen' = reg
    /\ joined' \in IF child = "alive" /\ reg = gen THEN {joined, TRUE} ELSE {joined}
    /\ IF Promoted
         THEN /\ state' = "RUNNING" /\ runAge' = "fresh"
              /\ halted' = IF halted = "yes" THEN "revived" ELSE halted
         ELSE UNCHANGED <<state, runAge, halted>>
    /\ UNCHANGED <<spec, up, gen, child, strays, tries, hb, hbAge, saved, deadline,
                   kind, recovery, budget, net, reg, owner, step, task, counters,
                   claimed, twice>>

\* Mutant: only the registration of an earlier generation counts.
ShouldRecoverEarlier ==
    intent /\ intentGen # 0 /\ reg < intentGen /\ state = "RUNNING"

\* should_recover: this registration fulfils the one-shot reconnect intent.
ShouldRecover ==
    intent /\ intentGen # 0 /\ reg = intentGen /\ reg = gen /\ state = "RUNNING"

\* The last part: auto-connect on the executor (_dispatch_auto_connect).
RegistryDispatch ==
    /\ up /\ pump = "dispatch" /\ pump' = "idle" /\ reg' = 0
    /\ IF spec.auto \/ ShouldRecover
         THEN \E w \in Workers :
                /\ task[w] = NoTask
                /\ Give(w, "connect", IF ShouldRecover THEN reg ELSE 0)
         ELSE UNCHANGED task
    /\ UNCHANGED <<spec, up, gen, state, process, regGen, beats, saved,
                   deadline, kind, recovery, budget, net, owner, step, counters,
                   history>>

\* _store_heartbeat_on_handle: the heartbeat's pid or generation is not looked at.
IngestHeartbeat ==
    /\ up /\ pump = "idle" /\ beat # "none"
    /\ hb' = beat /\ hbAge' = "fresh" /\ beat' = "none"
    /\ UNCHANGED <<spec, up, gen, state, process, regGen, runAge, saved,
                   deadline, kind, recovery, budget, regs, pump, reg, owner, step,
                   task, counters, history>>

-----------------------------------------------------------------------------
(* start_driver, by a worker or by the pump: whoever holds the lock.            *)

\* Mutant: start_driver does not look at the running driver.
MayStartAnyway == state # "CRASHLOOP"

\* start_driver returns early while the driver runs and in CRASHLOOP.
MayStart == child # "alive" /\ state # "CRASHLOOP"

\* Up to Popen.
Launch ==
    /\ gen' = gen + 1
    /\ intentGen' = IF intent THEN gen + 1 ELSE intentGen
    /\ saved' = <<hb, hbAge, runAge>>
    /\ hb' = "none" /\ hbAge' = "none" /\ runAge' = "none"
    /\ state' = "STARTING" /\ deadline' = "none" /\ kind' = "none"
    /\ restartAt' = "none"
    /\ step' = "popen"

\* The holder of the lock is done with it.
Release ==
    /\ owner' = "free" /\ step' = "none"
    /\ task' = IF owner \in Workers THEN [task EXCEPT ![owner] = NoTask] ELSE task
    /\ pump' = IF owner = "pump" THEN "idle" ELSE pump

PopenSucceeds ==
    /\ up /\ step = "popen"
    /\ child' = "alive" /\ joined' = FALSE /\ tries' = 0
    /\ strays' = strays + (IF child = "alive" THEN 1 ELSE 0)
    /\ step' = "adopt" /\ saved' = NoBeat
    /\ UNCHANGED <<spec, up, gen, state, regGen, beats, deadline,
                   kind, recovery, budget, net, pump, reg, owner, task, counters,
                   history>>

\* The exception becomes an error reply on a worker.  On the pump nothing catches
\* it: the lock is released and the manager ends.
PopenRaises ==
    /\ up /\ step = "popen" /\ SpawnMayFail
    /\ hb' = saved[1] /\ hbAge' = saved[2] /\ runAge' = saved[3]
    /\ child' = "none" /\ state' = "FAILED" /\ kind' = "spawn_error"
    /\ up' = (owner # "pump")
    /\ saved' = NoBeat
    /\ Release
    /\ UNCHANGED <<spec, gen, strays, joined, tries, regGen, deadline,
                   recovery, budget, net, reg, counters, history>>

\* After Popen: is the driver RUNNING already?
Adopt ==
    /\ up /\ step = "adopt"
    /\ IF state = "RUNNING"
         THEN Release
         ELSE step' = "settle" /\ UNCHANGED <<owner, task, pump>>
    /\ UNCHANGED <<spec, up, gen, state, process, regGen, beats, saved, deadline, kind,
                   recovery, budget, net, reg, counters, history>>

\* If it was not, it is STARTING.  (A tick has nothing more to do.)
Settle ==
    /\ up /\ step = "settle"
    /\ state' = "STARTING"
    /\ Release
    /\ UNCHANGED <<spec, up, gen, process, regGen, beats, saved, deadline, kind,
                   recovery, budget, net, reg, counters, history>>

-----------------------------------------------------------------------------
(* The operator's requests and the executor's workers.                          *)

Request(op) ==
    /\ up /\ asked < MaxRequests
    /\ asked' = asked + 1
    /\ \E w \in Workers : task[w] = NoTask /\ Give(w, op, 0)
    /\ UNCHANGED <<spec, up, gen, state, process, regGen, beats, saved,
                   deadline, kind, recovery, budget, net, pump, reg, owner, step,
                   stalls, history>>

\* A worker gets the lifecycle lock for a task.
Acquire(w, op) == up /\ owner = "free" /\ task[w].op = op /\ owner' = w

\* ... and has nothing to do.
Finish(w) ==
    /\ up /\ owner = "free" /\ task' = [task EXCEPT ![w] = NoTask]
    /\ UNCHANGED <<spec, up, gen, state, process, regGen, beats, saved, deadline, kind,
                   recovery, budget, net, pump, reg, owner, step, counters, history>>

\* _route_device_driver_start and, in CRASHLOOP, start_driver.
StartRefused(w) ==
    /\ task[w].op = "start"
    /\ state \in {"STARTING", "RUNNING", "STOPPING"} \/ ~MayStart
    /\ Finish(w)

StartDriver(w) ==
    /\ Acquire(w, "start")
    /\ state \notin {"STARTING", "RUNNING", "STOPPING"} /\ MayStart
    /\ Launch
    /\ halted' = "no"
    /\ UNCHANGED <<spec, up, process, regGen, automatic, intent, budget, net, pump,
                   reg, task, counters, claimed, twice>>

\* _route_device_driver_stop: refused when no driver runs.
StopRefused(w) == task[w].op = "stop" /\ child # "alive" /\ Finish(w)

\* Mutant: a scheduled restart survives the stop.
CancelKeepsRestart ==
    /\ UNCHANGED restartAt /\ automatic' = FALSE
    /\ intent' = FALSE /\ intentGen' = 0
    /\ hbAge' = "stale"

\* What stop_driver cancels, and mark_device_offline.
Cancel ==
    /\ restartAt' = "none" /\ automatic' = FALSE
    /\ intent' = FALSE /\ intentGen' = 0
    /\ hbAge' = "stale"

\* stop_driver, of a live driver or as part of restart_driver (which is also
\* device.recover): cancel what is scheduled.
StopBegins(w) ==
    /\ Acquire(w, "restart") \/ (Acquire(w, "stop") /\ child = "alive")
    /\ Cancel
    /\ step' = "offline"
    /\ UNCHANGED <<spec, up, gen, state, process, regGen, hb, runAge,
                   saved, deadline, kind, budget, net, pump, reg, task,
                   counters, history>>

\* restart_driver schedules a restart that is not automatic.
Reschedule ==
    LET restart == task[owner].op = "restart"
    IN  /\ restartAt' = IF restart THEN "set" ELSE restartAt
        /\ halted' = IF restart THEN "no" ELSE "yes"

StopFindsDead ==
    /\ up /\ step = "offline" /\ child # "alive"
    /\ child' = "none" /\ state' = "STOPPED"
    /\ Reschedule
    /\ Release
    /\ UNCHANGED <<spec, up, gen, strays, joined, tries, regGen, beats, saved,
                   deadline, kind, automatic, intent, intentGen, budget, net, reg,
                   counters, claimed, twice>>

StopAsks ==
    /\ up /\ step = "offline" /\ child = "alive"
    /\ step' = "shutdown"
    /\ UNCHANGED <<spec, up, gen, state, process, regGen, beats, saved,
                   deadline, kind, recovery, budget, net, pump, reg, owner, task,
                   counters, history>>

\* The answer, or the timeout, of the shutdown request.
StopEnds ==
    /\ up /\ step = "shutdown"
    /\ state' = "STOPPING" /\ deadline' = "set"
    /\ Reschedule
    /\ Release
    /\ UNCHANGED <<spec, up, gen, process, regGen, beats, saved, kind,
                   automatic, intent, intentGen, budget, net, reg, counters,
                   claimed, twice>>

\* Mutant: a waiting task looks at the intent only, not at the generations.
StillWantedByAny(g) == intent

\* _run_auto_connect: is a recovery connect still wanted?
StillWanted(g) == gen = g /\ regGen = g /\ intentGen = g /\ intent

ConnectDropped(w) ==
    /\ task[w].op = "connect" /\ task[w].gen # 0 /\ ~StillWanted(task[w].gen)
    /\ Finish(w)

\* Mutant: the intent is not claimed.
RecoveryBeginsUnclaimed(w) ==
    /\ Acquire(w, "connect")
    /\ LET g == task[w].gen
       IN  /\ g # 0 /\ StillWanted(g)
           /\ claimed' = claimed \cup {g} /\ twice' = (twice \/ g \in claimed)
    /\ step' = "rpc"
    /\ UNCHANGED <<spec, up, gen, state, process, regGen, beats, saved, deadline, kind,
                   recovery, budget, net, pump, reg, task, counters, halted>>

\* It claims the intent.
RecoveryBegins(w) ==
    /\ Acquire(w, "connect")
    /\ LET g == task[w].gen
       IN  /\ g # 0 /\ StillWanted(g)
           /\ intent' = FALSE /\ intentGen' = 0
           /\ claimed' = claimed \cup {g} /\ twice' = (twice \/ g \in claimed)
    /\ step' = "rpc"
    /\ UNCHANGED <<spec, up, gen, state, process, regGen, beats, saved, deadline, kind,
                   restartAt, automatic, budget, net, pump, reg, task, counters,
                   halted>>

\* A connect by the operator, or by auto_connect_on_register.
ConnectBegins(w) ==
    /\ Acquire(w, "connect") /\ task[w].gen = 0
    /\ step' = "rpc"
    /\ UNCHANGED <<spec, up, gen, state, process, regGen, beats, saved, deadline, kind,
                   recovery, budget, net, pump, reg, task, counters, history>>

\* connect_device returns or raises.
ConnectEnds ==
    /\ up /\ step = "rpc"
    /\ Release
    /\ UNCHANGED <<spec, up, gen, state, process, regGen, beats, saved,
                   deadline, kind, recovery, budget, net, reg, counters, history>>

-----------------------------------------------------------------------------
(* supervise_device_drivers: one tick, skipped while a worker holds the lock.   *)

\* update_device_driver_exit_state.
ExitState ==
    LET requested == state = "STOPPING" /\ deadline # "none"
        stale == kind = "heartbeat_stale"
    IN  /\ state' = IF requested \/ (~stale /\ child = "zero") THEN "STOPPED" ELSE "FAILED"
        /\ kind' = IF state' = "FAILED" /\ kind = "none" THEN "nonzero_exit" ELSE kind
        /\ child' = "none" /\ runAge' = "none"

\* The tick gets the lock and polls the driver.
Supervise ==
    /\ up /\ pump = "idle" /\ owner = "free"
    /\ pump' = "supervise" /\ owner' = "pump" /\ step' = "beat"
    /\ IF child \in {"zero", "crash"}
         THEN ExitState
         ELSE UNCHANGED <<child, runAge, state, kind>>
    /\ UNCHANGED <<spec, up, gen, strays, joined, tries, regGen, hb, hbAge, saved,
                   deadline, recovery, budget, net, reg, task, counters, history>>

\* Both the last heartbeat and the registration are old, and there is one of them.
HeartbeatStale == "fresh" \notin {hbAge, runAge} /\ "stale" \in {hbAge, runAge}

\* enforce_device_driver_heartbeat_timeout past the hard timeout: the driver is
\* terminated, and recovered if so configured.  The stop timeout starts anew.
HeartbeatFails ==
    /\ up /\ step = "beat" /\ step' = "relaunch"
    /\ state = "RUNNING" /\ HeartbeatStale
    /\ stalls < MaxStalls /\ stalls' = stalls + 1
    /\ state' = "FAILED" /\ runAge' = "none"
    /\ deadline' = "set" /\ kind' = "heartbeat_stale"
    /\ IF spec.recover
         THEN /\ intent' = (hb = "up") /\ intentGen' = 0
              /\ automatic' = TRUE /\ restartAt' = "set"
         ELSE UNCHANGED recovery
    /\ UNCHANGED <<spec, up, gen, process, regGen, hb, hbAge, saved, budget,
                   net, pump, reg, owner, task, asked, history>>

\* Mutant: kill() is repeated for ever.
CheckStopForever ==
    /\ up /\ step = "beat" /\ step' = "relaunch"
    /\ UNCHANGED <<spec, up, gen, state, process, regGen, beats, saved, deadline, kind,
                   recovery, budget, net, pump, reg, owner, task, counters, history>>

\* Otherwise (a soft stale episode only reports) enforce_device_driver_stop_timeout:
\* kill(), and give up after the kill timeout.
CheckStop ==
    /\ up /\ step = "beat" /\ step' = "relaunch"
    /\ IF /\ state = "STOPPING" \/ (state = "FAILED" /\ kind = "heartbeat_stale")
          /\ child = "alive" /\ deadline = "past"
         THEN state' = "FAILED" /\ kind' = "kill_timeout"
         ELSE UNCHANGED <<state, kind>>
    /\ UNCHANGED <<spec, up, gen, process, regGen, beats, saved, deadline,
                   recovery, budget, net, pump, reg, owner, task, counters, history>>

\* Mutant: only a failed driver is restarted.
RestartDueFailed == restartAt = "past" /\ child # "alive" /\ state = "FAILED"

\* maybe_restart_device_driver.
RestartDue == restartAt = "past" /\ child # "alive"

Exhausted == automatic /\ spec.limited /\ restarts >= MaxRestarts

\* reset_driver_restart_budget_if_healthy, at the end of the tick; a fresh
\* heartbeat may still be older than the run.
ResetBudget ==
    \/ healthy' = "none" /\ UNCHANGED restarts
    \/ /\ restarts > 0 /\ state = "RUNNING" /\ hbAge = "fresh"
       /\ IF healthy = "past"
            THEN restarts' = 0 /\ healthy' = "none"
            ELSE healthy' = "set" /\ UNCHANGED restarts

RestartWaits ==
    /\ up /\ step = "relaunch" /\ ~RestartDue
    /\ ResetBudget
    /\ Release
    /\ UNCHANGED <<spec, up, gen, state, process, regGen, beats, saved, deadline, kind,
                   recovery, net, reg, counters, history>>

\* Mutant: the reconnect intent outlives the last restart.
RestartExhaustedKeepingIntent ==
    /\ up /\ step = "relaunch" /\ RestartDue /\ Exhausted
    /\ state' = "CRASHLOOP" /\ healthy' = "none"
    /\ restartAt' = "none" /\ automatic' = FALSE
    /\ Release
    /\ UNCHANGED <<spec, up, gen, process, regGen, beats, saved, deadline, kind,
                   intent, intentGen, restarts, net, reg, counters, history>>

RestartExhausted ==
    /\ up /\ step = "relaunch" /\ RestartDue /\ Exhausted
    /\ state' = "CRASHLOOP" /\ healthy' = "none"
    /\ restartAt' = "none" /\ automatic' = FALSE
    /\ intent' = FALSE /\ intentGen' = 0
    /\ Release
    /\ UNCHANGED <<spec, up, gen, process, regGen, beats, saved, deadline, kind,
                   restarts, net, reg, counters, history>>

\* Only automatic restarts are counted, and the count matters only if limited.
CountRestart == IF automatic /\ spec.limited THEN restarts + 1 ELSE restarts

RestartDriver ==
    /\ up /\ step = "relaunch" /\ RestartDue /\ ~Exhausted
    /\ restarts' = CountRestart
    /\ healthy' = "none"
    /\ IF MayStart
         THEN Launch /\ UNCHANGED <<owner, task, pump>>
         ELSE /\ Release /\ restartAt' = "none"
              /\ UNCHANGED <<gen, intentGen, saved, beats, state, deadline, kind>>
    /\ UNCHANGED <<spec, up, process, regGen, automatic, intent, net, reg, counters,
                   history>>

-----------------------------------------------------------------------------

Driver == DriverExits \/ DriverRegisters \/ DriverBeats

Time == StopTimerPasses \/ BackoffPasses \/ HealthyPasses \/ BeatAges \/ RunAges

Registry == (\E g \in regs : RegistryReceive(g)) \/ RegistryApply \/ RegistryDispatch

Starting == PopenSucceeds \/ PopenRaises \/ Adopt \/ Settle

\* What a worker does with a task once it has the lock.
Begin(w) ==
    \/ StartRefused(w) \/ StartDriver(w)
    \/ StopRefused(w) \/ StopBegins(w)
    \/ ConnectDropped(w) \/ RecoveryBegins(w) \/ ConnectBegins(w)

Working == StopFindsDead \/ StopAsks \/ StopEnds \/ ConnectEnds

Ticking ==
    \/ HeartbeatFails \/ CheckStop
    \/ RestartWaits \/ RestartExhausted \/ RestartDriver

Next ==
    \/ Driver \/ Time
    \/ Registry \/ IngestHeartbeat
    \/ (\E op \in Requests : Request(op)) \/ (\E w \in Workers : Begin(w))
    \/ Supervise \/ Starting \/ Working \/ Ticking

Spec == Init /\ [][Next]_vars

\* The pump turns and whoever holds the lock goes on: the calls under the lock
\* have timeouts.  A tick holds the lock for a moment only and tasks end, so that
\* both the tick and a waiting worker find it free again and again; time passes
\* between ticks.  Nothing is assumed of the driver or the operator.
Fairness ==
    /\ WF_vars(Registry) /\ WF_vars(Starting \/ Working \/ Ticking)
    /\ SF_vars(Supervise) /\ \A w \in Workers : SF_vars(Begin(w))
    /\ SF_vars(StopTimerPasses) /\ SF_vars(BackoffPasses)

FairSpec == Spec /\ Fairness

-----------------------------------------------------------------------------
(* Properties.                                                                 *)

\* A device never has two driver processes, whatever the operator's start, the
\* scheduled restart and the automatic restart do (start_driver, under the lock).
OneDriver == strays = 0

\* A recovery connect talks to the driver of the generation it was dispatched
\* for, however long the task waited for the lock and whatever happened meanwhile
\* (_run_auto_connect: "a delayed task cannot connect the wrong driver").
RightDriver ==
    owner \in Workers /\ step = "rpc" /\ task[owner].gen # 0
      => task[owner].gen = gen /\ regGen = gen

\* The reconnect intent is used once, even if the driver registers repeatedly and
\* several connect tasks are waiting (_run_auto_connect claims it).
RecoverOnce == ~twice

\* After a stop that took place nothing that could bring the driver back is left
\* over: no restart, no reconnect intent (stop_driver); only a registration the
\* driver sent on its own can revive the handle.
StopCancelsRecovery ==
    halted = "yes" => /\ restartAt = "none" /\ ~intent
                      /\ state \notin {"STARTING", "RUNNING"}

\* In CRASHLOOP the automatic restarts have really come to an end: no driver is
\* left running (one that hangs must have been killed first) and no restart and no
\* reconnect intent is waiting (maybe_restart_device_driver).
CrashloopIsQuiet ==
    state = "CRASHLOOP" => child # "alive" /\ restartAt = "none" /\ ~intent

\* "An explicit operator Stop is authoritative" (stop_driver): a driver stopped by
\* the operator is not RUNNING again until the operator says so.
StopIsAuthoritative == halted # "no" => state # "RUNNING"

\* STOPPING ends, even if the driver survives kill(), although supervision is
\* skipped whenever a worker holds the lock.
StoppingEnds == state = "STOPPING" ~> (state # "STOPPING" \/ ~up)

\* A scheduled restart is attempted once the old driver is gone.
RestartIsAttempted ==
    (restartAt # "none" /\ child # "alive") ~> (restartAt = "none" \/ ~up)

\* A replacement driver that has registered gets its recovery connect, unless it
\* dies, hangs in its turn (the intent is then for its successor), the intent is
\* withdrawn or start_driver undoes the registration (see RegistrationSticks).
RecoveryIsMade ==
    (intent /\ intentGen = gen /\ child = "alive" /\ joined)
      ~> (~intent \/ intentGen # gen \/ child # "alive" \/ state = "STARTING" \/ ~up)

\* A driver that registers while start_driver is still adopting it stays RUNNING
\* ("Preserve the heartbeat's real pid and the RUNNING state in that case").
RegistrationSticks ==
    joined /\ pump = "idle" /\ owner = "free" => state # "STARTING"
=============================================================================
