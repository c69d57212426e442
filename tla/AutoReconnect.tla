--------------------------- MODULE AutoReconnect ---------------------------
(***************************************************************************)
(* The recovery of a device that is degraded, or whose telemetry has gone  *)
(* stale, by its manager (_manager/process_supervision.py).  The manager's *)
(* main loop decides and counts; the disconnect and connect RPCs, and the  *)
(* restart of the driver once the attempts are used up, run on a worker of *)
(* the lifecycle executor under the device's lifecycle lock, where the     *)
(* operator's requests and the supervision of the driver run too.          *)
(*                                                                         *)
(* Times are ticks of the manager's monotonic clock.  The life of the      *)
(* driver process itself is the subject of DriverLifecycle: here it is     *)
(* launched, registers, beats, falls silent and is replaced.               *)
(***************************************************************************)
EXTENDS Integers, Sequences

CONSTANTS OnDegraded,     \* on_degraded_s, or Never when it is not configured
          OnStale,        \* on_telemetry_stale_s, or Never
          Cooldown,       \* cooldown_s
          ResetAfter,     \* reset_attempts_after_ok_s
          MaxAttempts,    \* max_attempts
          RestartsDriver, \* restart_driver_after_max_attempts
          BeatTimeout,    \* heartbeat_timeout_s; twice that is the hard one
          MaxTime,        \* bound: ticks of the clock
          MaxGen          \* bound: launches of the driver

VARIABLES clock,     \* time.monotonic()
          driver,    \* the handle's view of the driver process
          telemetry, \* the newest telemetry bundle of the device
          rec,       \* the handle's auto_reconnect_* fields
          tasks,     \* recovery work queued in the lifecycle executor
          worker,    \* the recovery work that a thread has taken up
          lock,      \* holder of the device's lifecycle lock
          open       \* FALSE once the executor has been shut down

reconnectVars == <<clock, driver, telemetry, rec, tasks, worker, lock, open>>

Never == -1
Idle == [pc |-> "idle"]

Init ==
    /\ clock = 0
    /\ driver = [state |-> "RUNNING", gen |-> 1, since |-> 0, beat |-> Never, health |-> "none"]
    /\ telemetry = [recv |-> Never, ok |-> FALSE]
    /\ rec = [attempts |-> 0, lastAttempt |-> Never, lastSuccess |-> Never, healthySince |-> Never,
              degradedSince |-> Never, waiting |-> FALSE, suppressed |-> FALSE, pending |-> FALSE,
              lastTrigger |-> "degraded"]
    /\ tasks = <<>> /\ worker = Idle /\ lock = "free" /\ open = TRUE

---------------------------------------------------------------------------
(* What the main loop stores, and what the operator does.                  *)

Tick == clock < MaxTime /\ clock' = clock + 1
        /\ UNCHANGED <<driver, telemetry, rec, tasks, worker, lock, open>>

Register == driver.state = "STARTING" /\ driver' = [driver EXCEPT !.state = "RUNNING", !.since = clock]
            /\ UNCHANGED <<clock, telemetry, rec, tasks, worker, lock, open>>

Beat(health) ==
    /\ driver.state = "RUNNING"
    /\ driver' = [driver EXCEPT !.beat = clock, !.health = health]
    /\ UNCHANGED <<clock, telemetry, rec, tasks, worker, lock, open>>

Bundle(ok) ==
    /\ driver.state = "RUNNING"
    /\ telemetry' = [recv |-> clock, ok |-> ok]
    /\ UNCHANGED <<clock, driver, rec, tasks, worker, lock, open>>

Launched(d) == [state |-> "STARTING", gen |-> d.gen + 1, since |-> Never, beat |-> Never, health |-> "none"]

OperatorRestarts ==
    /\ lock = "free" /\ driver.gen < MaxGen
    /\ driver' = Launched(driver)
    /\ UNCHANGED <<clock, telemetry, rec, tasks, worker, lock, open>>

ManagerCloses == open /\ open' = FALSE /\ tasks' = <<>>
                 /\ UNCHANGED <<clock, driver, telemetry, rec, worker, lock>>

---------------------------------------------------------------------------
(* Deciding, on the main loop.                                             *)

BeatAge(d) ==
    LET ref == IF d.beat # Never /\ (d.since = Never \/ d.beat >= d.since) THEN d.beat ELSE d.since
    IN  IF ref = Never THEN 0 ELSE clock - ref

BeatFresh(d) == BeatAge(d) <= BeatTimeout
StaleFor(age) == OnStale # Never /\ telemetry.recv # Never /\ age > OnStale
FreshWithin == IF OnStale # Never THEN OnStale ELSE OnDegraded

Healthy(r, d) ==
    /\ telemetry.recv # Never /\ clock - telemetry.recv <= FreshWithin
    /\ OnDegraded # Never => d.health = "OK"
    /\ r.waiting => telemetry.recv > r.lastSuccess /\ telemetry.ok

ResetIfHealthy(r, d) ==
    IF r.attempts = 0 THEN r
    ELSE IF ~Healthy(r, d) THEN [r EXCEPT !.healthySince = Never]
    ELSE LET seen == [r EXCEPT !.degradedSince = IF OnDegraded # Never THEN Never ELSE @]
         IN  IF r.healthySince = Never THEN [seen EXCEPT !.healthySince = clock, !.waiting = FALSE]
             ELSE IF clock - r.healthySince >= ResetAfter
                  THEN [seen EXCEPT !.attempts = 0, !.suppressed = FALSE]
                  ELSE seen

NoteDegraded(r, d) ==
    IF OnDegraded # Never /\ d.health = "DEGRADED"
    THEN [r EXCEPT !.degradedSince = IF @ = Never THEN clock ELSE @]
    ELSE [r EXCEPT !.degradedSince = Never]

Watched(d) == d.state = "RUNNING" /\ BeatFresh(d)

Trigger(r) ==
    IF r.degradedSince # Never /\ clock - r.degradedSince >= OnDegraded THEN "degraded"
    ELSE IF StaleFor(clock - telemetry.recv) THEN "telemetry_stale" ELSE "none"

(* The verdict of _auto_reconnect_should_attempt. *)
Verdict(r, d) ==
    IF ~Watched(d) \/ Trigger(r) = "none" THEN "wait"
    ELSE IF r.pending THEN "pending"
    ELSE IF r.lastAttempt # Never /\ clock - r.lastAttempt < Cooldown THEN "cooldown"
    ELSE IF r.attempts < MaxAttempts THEN "attempt"
    ELSE IF RestartsDriver THEN "restart_driver" ELSE "suppressed"

Task(kind, d, trigger) == [kind |-> kind, gen |-> d.gen, trigger |-> trigger]
Submitted(task) == IF open THEN Append(tasks, task) ELSE tasks

Attempt(r, d) ==
    /\ rec' = [r EXCEPT !.attempts = @ + 1, !.lastAttempt = clock, !.suppressed = FALSE,
                        !.pending = open, !.lastTrigger = Trigger(r)]
    /\ tasks' = Submitted(Task("reconnect", d, Trigger(r)))

(* The escalation names the trigger of the last attempt, not today's. *)
ScheduleRestart(r, d) ==
    /\ rec' = [r EXCEPT !.pending = open]
    /\ tasks' = Submitted(Task("restart", d, r.lastTrigger))

MaybeAutoReconnect(d) ==
    LET healed == ResetIfHealthy(rec, d)
        r == IF Watched(d) THEN NoteDegraded(healed, d) ELSE healed
        verdict == Verdict(r, d)
    IN  \/ verdict = "attempt" /\ Attempt(r, d)
        \/ verdict = "restart_driver" /\ ScheduleRestart(r, d)
        \/ /\ verdict \notin {"attempt", "restart_driver"}
           /\ rec' = [r EXCEPT !.suppressed = @ \/ verdict = "suppressed"]
           /\ UNCHANGED tasks

(* A driver silent for the hard timeout is demoted; a failed one is
   launched again while its budget (here MaxGen) lasts. *)
AfterSupervision(d) ==
    IF d.state = "RUNNING" /\ BeatAge(d) > 2 * BeatTimeout THEN [d EXCEPT !.state = "FAILED", !.since = Never]
    ELSE IF d.state = "FAILED" /\ d.gen < MaxGen THEN Launched(d)
    ELSE d

Supervise ==
    /\ lock = "free"
    /\ driver' = AfterSupervision(driver)
    /\ MaybeAutoReconnect(AfterSupervision(driver))
    /\ UNCHANGED <<clock, telemetry, worker, lock, open>>

---------------------------------------------------------------------------
(* Doing it, on a worker of the executor.                                  *)

TriggerActive(task) ==
    /\ driver.gen = task.gen /\ driver.state = "RUNNING" /\ BeatFresh(driver)
    /\ IF task.trigger = "degraded"
       THEN /\ driver.health = "DEGRADED" /\ rec.degradedSince # Never
            /\ clock - rec.degradedSince >= OnDegraded
       ELSE StaleFor(clock - telemetry.recv)

\* Mutant: the flag is not cleared where the work is given up.
CancelledKeepingClaim == worker' = Idle /\ lock' = "free" /\ UNCHANGED <<rec, driver>>

(* Work whose trigger has cleared, or whose driver has been replaced. *)
Cancelled ==
    /\ worker' = Idle /\ lock' = "free" /\ rec' = [rec EXCEPT !.pending = FALSE]
    /\ UNCHANGED driver

(* The exhausted driver is failed for the normal restart to replace it. *)
Escalate ==
    /\ worker' = Idle /\ lock' = "free"
    /\ IF rec.attempts < MaxAttempts
       THEN rec' = [rec EXCEPT !.pending = FALSE] /\ UNCHANGED driver
       ELSE /\ driver' = [driver EXCEPT !.state = "FAILED", !.since = Never]
            /\ rec' = [rec EXCEPT !.pending = FALSE, !.degradedSince = Never]

TakeUp ==
    /\ tasks # <<>> /\ worker = Idle /\ lock = "free"
    /\ tasks' = Tail(tasks)
    /\ LET task == Head(tasks)
       IN  \/ ~TriggerActive(task) /\ Cancelled
           \/ TriggerActive(task) /\ task.kind = "restart" /\ Escalate
           \/ /\ TriggerActive(task) /\ task.kind = "reconnect"
              /\ worker' = [pc |-> "rpc", gen |-> task.gen] /\ lock' = "recovery" /\ UNCHANGED <<rec, driver>>
    /\ UNCHANGED <<clock, telemetry, open>>

RpcFails ==
    /\ worker.pc = "rpc"
    /\ rec' = [rec EXCEPT !.lastAttempt = clock, !.pending = FALSE]
    /\ worker' = Idle /\ lock' = "free"
    /\ UNCHANGED <<clock, driver, telemetry, tasks, open>>

(* Each RPC is given what is left of the heartbeat window at most. *)
RpcSucceeds ==
    /\ worker.pc = "rpc" /\ BeatFresh(driver)
    /\ worker' = [pc |-> "stamp"] /\ lock' = "free"
    /\ UNCHANGED <<clock, driver, telemetry, rec, tasks, open>>

StampSuccess ==
    /\ worker.pc = "stamp"
    /\ rec' = [rec EXCEPT !.lastSuccess = clock, !.lastAttempt = clock, !.waiting = TRUE, !.pending = FALSE]
    /\ worker' = Idle
    /\ UNCHANGED <<clock, driver, telemetry, tasks, lock, open>>

Recovery == TakeUp \/ RpcFails \/ RpcSucceeds \/ StampSuccess

Next ==
    \/ Tick \/ Register \/ OperatorRestarts \/ ManagerCloses \/ Supervise \/ Recovery
    \/ \E health \in {"OK", "DEGRADED"} : Beat(health)
    \/ \E ok \in BOOLEAN : Bundle(ok)

Spec == Init /\ [][Next]_reconnectVars

---------------------------------------------------------------------------
(* Properties.                                                             *)

(* auto_reconnect_pending, claimed by the main loop and released by a      *)
(* worker, is set exactly while one piece of recovery work is queued or    *)
(* under way: never forgotten, which would end recovery for good, and      *)
(* never released early, which would let two of them fight over the        *)
(* device.  And a worker that talks to the device does so with the very    *)
(* run of the driver whose trouble it was queued for, which nobody         *)
(* replaces under its feet.                                                *)
RecoveryOwned ==
    /\ open => rec.pending = (tasks # <<>> \/ worker # Idle)
    /\ Len(tasks) + (IF worker = Idle THEN 0 ELSE 1) <= 1
    /\ worker.pc = "rpc" => driver.gen = worker.gen /\ driver.state = "RUNNING"

(* A device whose attempts are used up, with the restart of the driver     *)
(* configured, does not stay in trouble: the driver is restarted, or the   *)
(* trouble ends (_schedule_auto_reconnect_driver_restart).                 *)
InTrouble == open /\ rec.attempts >= MaxAttempts /\ driver.state = "RUNNING" /\ BeatFresh(driver)
             /\ Trigger(NoteDegraded(rec, driver)) # "none"
ExhaustedIsEscalated == InTrouble /\ RestartsDriver ~> ~InTrouble
=============================================================================
