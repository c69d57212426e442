---------------------------- MODULE StackLifecycle ----------------------------
(* The life of a stack: run_stack's preflight and instance lock, the start-up  *)
(* sequence of a manager, its shutdown with a lifecycle worker under way, and  *)
(* what becomes of its children.  Several managers of one instance_id may be   *)
(* started, each with --cleanup-orphans and --instance-lock; each has one      *)
(* managed process (the device router) and one driver.                         *)
EXTENDS Naturals, FiniteSets

CONSTANTS
    Managers,       \* the pids of the managers that may be started
    MaxTasks        \* bound: lifecycle requests of a manager

VARIABLES
    pc,             \* where each manager is in main
    file,           \* the lock file: no file, or whose descriptor made it and whether it is written
    process,        \* the managed process of each manager
    driver,         \* its driver
    tasks,          \* its lifecycle requests: how many are queued, running, ...
    raced           \* TRUE once two acquisitions of the lock overlapped

stackVars == <<pc, file, process, driver, tasks, raced>>

NoFile == [by |-> {}, written |-> FALSE]
Acquiring == {"create", "read", "unlink", "write"}
\* The manager has sockets that answer an identity probe when the pump runs.
Pumping == {"routing", "settling", "serving"}
Bound == Pumping \cup {"joining", "drivers", "processes", "closing"}
Holding == Bound \cup {"construct", "closed", "release"}
Alive(m) == pc[m] \notin {"off", "exited", "dead"}
\* A child is none, up, known (registered), leaving (it was told to go), or
\* ignored (the stop reached nothing: unregistered, or the call failed).
Child == {"none", "up", "known", "leaving", "ignored"}
TaskState == {"queued", "running", "finished", "answered", "cancelled"}

TypeOK ==
    /\ pc \in [Managers -> Acquiring \cup Holding \cup {"off", "exited", "dead"}]
    /\ file \in [by : {S \in SUBSET Managers : Cardinality(S) <= 1}, written : BOOLEAN]
    /\ process \in [Managers -> Child] /\ driver \in [Managers -> Child]
    /\ tasks \in [Managers -> [TaskState -> 0..MaxTasks]]
    /\ raced \in BOOLEAN

Init ==
    /\ pc = [m \in Managers |-> "off"]
    /\ file = NoFile
    /\ process = [m \in Managers |-> "none"] /\ driver = [m \in Managers |-> "none"]
    /\ tasks = [m \in Managers |-> [s \in TaskState |-> 0]]
    /\ raced = FALSE

Goto(m, next) == pc' = [pc EXCEPT ![m] = next]

-------------------------------------------------------------------------------
(* Preflight.                                                                  *)

\* A manager that pumps may answer the probe within its 250 ms, or may not.
ProbeAnswered(m) ==
    /\ pc[m] = "off"
    /\ \E n \in Managers : pc[n] \in Pumping
    /\ Goto(m, "exited")
    /\ UNCHANGED <<file, process, driver, tasks, raced>>

\* A child runner of the instance whose --parent-pid is gone.
Orphaned(m) == pc[m] \in {"exited", "dead"}
\* cleanup_orphan_children with stale_only: a kill that fails leaves the child.
CleanupOrphans(m) ==
    /\ pc[m] = "off"
    /\ \E spared \in SUBSET {n \in Managers : Orphaned(n)} :
        /\ process' = [n \in Managers |-> IF Orphaned(n) /\ n \notin spared THEN "none" ELSE process[n]]
        /\ driver' = [n \in Managers |-> IF Orphaned(n) /\ n \notin spared THEN "none" ELSE driver[n]]
    /\ raced' = (raced \/ \E n \in Managers \ {m} : pc[n] \in Acquiring)
    /\ Goto(m, "create")
    /\ UNCHANGED <<file, tasks>>

-------------------------------------------------------------------------------
(* InstanceLock.                                                               *)

\* os.open with O_CREAT | O_EXCL.
TryCreate(m) ==
    /\ pc[m] = "create"
    /\ IF file = NoFile
       THEN file' = [by |-> {m}, written |-> FALSE] /\ Goto(m, "write")
       ELSE file' = file /\ Goto(m, "read")
    /\ UNCHANGED <<process, driver, tasks, raced>>

\* Mutant: a pid that answers is taken for dead, as os.kill's PermissionError would be.
OwnerAliveNever == file.written /\ \E n \in file.by : pc[n] = "off"

\* _pid_is_alive of the pid in the file; an empty or missing file has none.
OwnerAlive == file.written /\ \E n \in file.by : Alive(n)

\* _read_info and the liveness test: a live owner ends main with an error.
ReadInfo(m) ==
    /\ pc[m] = "read"
    /\ Goto(m, IF OwnerAlive THEN "exited" ELSE "unlink")
    /\ UNCHANGED <<file, process, driver, tasks, raced>>

\* The path is removed, whatever stands there by now.
Unlink(m) ==
    /\ pc[m] = "unlink"
    /\ file' = NoFile
    /\ Goto(m, "create")
    /\ UNCHANGED <<process, driver, tasks, raced>>

\* os.write goes to the descriptor: a file unlinked meanwhile stays unlinked.
WritePayload(m) ==
    /\ pc[m] = "write"
    /\ file' = IF file.by = {m} THEN [file EXCEPT !.written = TRUE] ELSE file
    /\ Goto(m, "construct")
    /\ UNCHANGED <<process, driver, tasks, raced>>

\* A file of another manager is left alone; an unreadable one is removed.
Release(m) ==
    /\ pc[m] \in {"release", "closed"}
    /\ file' = IF file.written /\ file.by # {m} THEN file ELSE NoFile
    /\ Goto(m, "exited")
    /\ UNCHANGED <<process, driver, tasks, raced>>

-------------------------------------------------------------------------------
(* The manager starts.                                                         *)

\* Manager binds its sockets; the processes are started in their order.
Construct(m) ==
    /\ pc[m] = "construct"
    /\ ~\E n \in Managers \ {m} : pc[n] \in Bound
    /\ process' = [process EXCEPT ![m] = "up"]
    /\ Goto(m, "routing")
    /\ UNCHANGED <<file, driver, tasks, raced>>

\* An address in use, a bad config or a Popen that raises: nothing is stopped.
ConstructFails(m) ==
    /\ pc[m] = "construct"
    /\ Goto(m, "release")
    /\ \E started \in {"none", "up"} : process' = [process EXCEPT ![m] = started]
    /\ UNCHANGED <<file, driver, tasks, raced>>

\* A process's first heartbeats and ready event, taken by the pump.
ProcessReady(m) ==
    /\ pc[m] \in Pumping /\ process[m] = "up"
    /\ process' = [process EXCEPT ![m] = "known"]
    /\ UNCHANGED <<pc, file, driver, tasks, raced>>

\* The router and the processes run: the drivers are started.
StartAllDrivers(m) ==
    /\ pc[m] = "routing" /\ process[m] = "known"
    /\ driver' = [driver EXCEPT ![m] = IF @ = "none" THEN "up" ELSE @]
    /\ Goto(m, "settling")
    /\ UNCHANGED <<file, process, tasks, raced>>

\* Every device is registered and online, or the deadline passes: a TimeoutError
\* is only reported.  One raised before start_all_drivers leaves them unstarted.
EndStartup(m) ==
    /\ pc[m] \in {"routing", "settling"}
    /\ Goto(m, "serving")
    /\ UNCHANGED <<file, process, driver, tasks, raced>>

\* The router failed (RuntimeError), Ctrl-C before run_forever, or an exception
\* out of run_forever: main's finally releases the lock and no shutdown is made.
MainRaises(m) ==
    /\ pc[m] \in {"routing", "settling", "serving"}
    /\ Goto(m, "release")
    /\ UNCHANGED <<file, process, driver, tasks, raced>>

DriverRegisters(m) ==
    /\ pc[m] \in Pumping /\ driver[m] = "up"
    /\ driver' = [driver EXCEPT ![m] = "known"]
    /\ UNCHANGED <<pc, file, process, tasks, raced>>

-------------------------------------------------------------------------------
(* Lifecycle requests: device.driver.start handed to the executor.             *)

Moved(m, from, to) ==
    /\ tasks[m][from] > 0
    /\ tasks' = [tasks EXCEPT ![m][from] = @ - 1, ![m][to] = @ + 1]

Dispatch(m) ==
    /\ pc[m] \in Pumping
    /\ tasks[m]["queued"] + tasks[m]["running"] + tasks[m]["finished"]
        + tasks[m]["answered"] + tasks[m]["cancelled"] < MaxTasks
    /\ tasks' = [tasks EXCEPT ![m]["queued"] = @ + 1]
    /\ UNCHANGED <<pc, file, process, driver, raced>>

WorkerTakes(m) ==
    /\ Alive(m)
    /\ Moved(m, "queued", "running")
    /\ UNCHANGED <<pc, file, process, driver, raced>>

\* start_driver, unless the driver is alive; the reply goes to the queue.
WorkerFinishes(m) ==
    /\ Alive(m)
    /\ Moved(m, "running", "finished")
    /\ driver' = [driver EXCEPT ![m] = IF @ = "none" THEN "up" ELSE @]
    /\ UNCHANGED <<pc, file, process, raced>>

\* _drain_lifecycle_replies: every queued reply is sent.
Drained(m) == [tasks[m] EXCEPT !["answered"] = @ + tasks[m]["finished"], !["finished"] = 0]

PumpReplies(m) ==
    /\ pc[m] \in Pumping /\ tasks[m]["finished"] > 0
    /\ tasks' = [tasks EXCEPT ![m] = Drained(m)]
    /\ UNCHANGED <<pc, file, process, driver, raced>>

-------------------------------------------------------------------------------
(* _shutdown_cleanup.                                                          *)

\* A shutdown request or Ctrl-C in run_forever: cancel_futures drops the queued
\* tasks; nobody answers them.
BeginShutdown(m) ==
    /\ pc[m] = "serving"
    /\ tasks' = [tasks EXCEPT ![m]["cancelled"] = @ + tasks[m]["queued"], ![m]["queued"] = 0]
    /\ Goto(m, "joining")
    /\ UNCHANGED <<file, process, driver, raced>>

\* Mutant: shutdown(wait=False) lets a worker go on behind the stops.
QuiescedWithoutWait(m) ==
    /\ pc[m] = "joining"
    /\ tasks' = [tasks EXCEPT ![m] = Drained(m)]
    /\ Goto(m, "drivers")
    /\ UNCHANGED <<file, process, driver, raced>>

\* wait=True: the running tasks end first; their replies are then drained.
Quiesced(m) ==
    /\ pc[m] = "joining" /\ tasks[m]["running"] = 0
    /\ tasks' = [tasks EXCEPT ![m] = Drained(m)]
    /\ Goto(m, "drivers")
    /\ UNCHANGED <<file, process, driver, raced>>

\* stop_driver asks a registered driver, with 1 s for the answer, and does not
\* wait for its end; the pump that would kill it after the stop timeout is over.
AskedToStop(child) ==
    CASE child = "known" -> {"leaving", "ignored"}
      [] child = "up" -> {"ignored"}
      [] OTHER -> {child}

StopDrivers(m) ==
    /\ pc[m] = "drivers"
    /\ \E s \in AskedToStop(driver[m]) : driver' = [driver EXCEPT ![m] = s]
    /\ Goto(m, "processes")
    /\ UNCHANGED <<file, process, tasks, raced>>

\* stop_process_handle terminates a process that does not agree to stop.
StopProcesses(m) ==
    /\ pc[m] = "processes"
    /\ process' = [process EXCEPT ![m] = IF @ = "none" THEN @ ELSE "leaving"]
    /\ Goto(m, "closing")
    /\ UNCHANGED <<file, driver, tasks, raced>>

\* The replies are drained again, the journal and the sockets closed.
CloseSockets(m) ==
    /\ pc[m] = "closing"
    /\ tasks' = [tasks EXCEPT ![m] = Drained(m)]
    /\ Goto(m, "closed")
    /\ UNCHANGED <<file, process, driver, raced>>

-------------------------------------------------------------------------------
(* Failures.                                                                   *)

Crash(m) ==
    /\ Alive(m)
    /\ Goto(m, "dead")
    /\ UNCHANGED <<file, process, driver, tasks, raced>>

\* A child may end of itself or as it was told to; the parent guard (pdeathsig,
\* the parent watchdog or the job object) ends it once its manager is gone.
ChildExits(m) ==
    /\ Alive(m) \/ Orphaned(m)
    /\ \/ process[m] # "none" /\ process' = [process EXCEPT ![m] = "none"] /\ UNCHANGED driver
       \/ driver[m] # "none" /\ driver' = [driver EXCEPT ![m] = "none"] /\ UNCHANGED process
    /\ UNCHANGED <<pc, file, tasks, raced>>

Next ==
    \E m \in Managers :
        \/ ProbeAnswered(m) \/ CleanupOrphans(m)
        \/ TryCreate(m) \/ ReadInfo(m) \/ Unlink(m) \/ WritePayload(m) \/ Release(m)
        \/ Construct(m) \/ ConstructFails(m) \/ ProcessReady(m) \/ StartAllDrivers(m)
        \/ EndStartup(m) \/ MainRaises(m) \/ DriverRegisters(m)
        \/ Dispatch(m) \/ WorkerTakes(m) \/ WorkerFinishes(m) \/ PumpReplies(m)
        \/ BeginShutdown(m) \/ Quiesced(m) \/ StopDrivers(m) \/ StopProcesses(m) \/ CloseSockets(m)
        \/ Crash(m) \/ ChildExits(m)

Spec == Init /\ [][Next]_stackVars

-------------------------------------------------------------------------------
(* Properties.                                                                 *)

Holders == {m \in Managers : pc[m] \in Holding}
\* At most one live manager of an instance believes that it holds the lock of
\* InstanceLock.acquire.  The code does not give this when two acquisitions
\* overlap: between os.open and os.write the file is empty and is taken for stale.
OneHolder == Cardinality(Holders) <= 1

\* Two live managers hold the lock of an instance only if their acquisitions
\* overlapped: through crashes at any step, stale files, failed starts and
\* releases, an acquisition that runs alone is refused while an owner lives.
OneHolderUnlessRaced == ~raced => OneHolder

\* When _shutdown_cleanup has closed the sockets, it has tried to stop every child,
\* even one that a lifecycle worker started while the shutdown began, and every
\* request a worker took was answered.  A driver that is not registered, or whose
\* stop call fails, is tried in vain and may outlive the manager ("ignored").
ShutdownComplete ==
    \A m \in Managers : pc[m] = "closed" =>
        /\ driver[m] \notin {"up", "known"} /\ process[m] \notin {"up", "known"}
        /\ tasks[m]["running"] = 0 /\ tasks[m]["finished"] = 0

\* What the start and the end of a stack owe: an instance has one live holder
\* unless two acquisitions overlapped, and a shutdown leaves no child that it has
\* not tried to stop and no request unanswered.
StackSound == OneHolderUnlessRaced /\ ShutdownComplete
===============================================================================
