------------------------ MODULE DriverLifecycleProofs ------------------------
(* Machine-checked proofs about DriverLifecycle, for every set of driver         *)
(* configurations, every number of executor workers, of restarts, of requests,   *)
(* of heartbeat failures and of registrations.                                  *)
EXTENDS DriverLifecycle, TLAPS

\* The lifecycle lock: who holds it is at one of its own steps, and has a task;
\* no driver runs when start_driver is about to create one.
LockInv ==
    /\ owner = "free" <=> step = "none"
    /\ owner = "pump" <=> pump = "supervise"
    /\ owner = "pump" => step \in {"beat", "relaunch", "popen", "adopt", "settle"}
    /\ owner \in Workers =>
         /\ step \in {"popen", "adopt", "settle", "offline", "shutdown", "rpc"}
         /\ task[owner].op # "none"
    /\ step = "popen" => child # "alive"

\* Generations: none is ahead of the driver's, and the pump about to store an
\* obsolete registration (its check precedes the worker's start_driver) does not
\* overwrite the current one.
GenInv ==
    /\ reg <= gen /\ regGen <= gen /\ intentGen <= gen
    /\ pump = "apply" /\ reg < gen => regGen < gen

\* The intent of a generation is one that has not been claimed.
ClaimInv ==
    /\ RecoverOnce
    /\ claimed \subseteq 0 .. gen
    /\ intentGen # 0 => intentGen \notin claimed

\* Why nothing is left over after a stop: it is cancelled before the driver is
\* asked to shut down, and the lock keeps everybody else from scheduling it again.
StopInv ==
    /\ StopCancelsRecovery
    /\ step \in {"offline", "shutdown"} => restartAt = "none" /\ ~intent
    /\ step \in {"popen", "adopt", "settle"} => halted # "yes"

\* Why nothing follows CRASHLOOP: start_driver does not begin in it.
CrashInv ==
    /\ CrashloopIsQuiet
    /\ step = "popen" => state # "CRASHLOOP"

IInv ==
    /\ TypeOK /\ OneDriver /\ LockInv /\ GenInv /\ RightDriver
    /\ ClaimInv /\ StopInv /\ CrashInv

USE SpecAssumption, WorkerAssumption, BoundAssumption
USE DEF process, net, beats, recovery, budget, counters, history
-----------------------------------------------------------------------------
\* A device that has just been added satisfies the invariant.
LEMMA InitInv == Init => IInv
<1> SUFFICES ASSUME Init PROVE IInv
  OBVIOUS
<1>1. /\ up \in BOOLEAN /\ joined \in BOOLEAN /\ automatic \in BOOLEAN
      /\ intent \in BOOLEAN /\ ~intent /\ twice \in BOOLEAN /\ ~twice
  BY Zenon DEF Init
<1>2. TypeOK
  BY <1>1 DEF Init, TypeOK, States, Children, Beats, Ages, Timers, Kinds, Steps,
              Tasks, NoTask, NoBeat
<1> QED
  BY <1>1, <1>2 DEF Init, IInv, OneDriver, LockInv, GenInv, RightDriver, ClaimInv,
                    StopInv, CrashInv, RecoverOnce, StopCancelsRecovery,
                    CrashloopIsQuiet

\* What the driver does reaches the manager as messages only.
LEMMA DriverInv ==
  ASSUME IInv, Driver
  PROVE  IInv'
<1>1. CASE DriverExits
  <2>1. joined' \in BOOLEAN
    BY <1>1, Zenon DEF DriverExits
  <2> QED
    BY <1>1, <2>1 DEF DriverExits, Children,
       IInv, TypeOK, OneDriver, LockInv, GenInv, RightDriver, ClaimInv, StopInv, CrashInv,
       RecoverOnce, StopCancelsRecovery, CrashloopIsQuiet
<1>2. CASE DriverRegisters
  BY <1>2 DEF DriverRegisters,
     IInv, TypeOK, OneDriver, LockInv, GenInv, RightDriver, ClaimInv, StopInv, CrashInv,
     RecoverOnce, StopCancelsRecovery, CrashloopIsQuiet
<1>3. CASE DriverBeats
  BY <1>3 DEF DriverBeats, Beats,
     IInv, TypeOK, OneDriver, LockInv, GenInv, RightDriver, ClaimInv, StopInv, CrashInv,
     RecoverOnce, StopCancelsRecovery, CrashloopIsQuiet
<1> QED
  BY <1>1, <1>2, <1>3 DEF Driver

\* A timer that passes stays set; a restart that falls due was scheduled.
LEMMA TimeInv ==
  ASSUME IInv, Time
  PROVE  IInv'
<1>1. CASE StopTimerPasses
  BY <1>1 DEF StopTimerPasses, Timers,
     IInv, TypeOK, OneDriver, LockInv, GenInv, RightDriver, ClaimInv, StopInv, CrashInv,
     RecoverOnce, StopCancelsRecovery, CrashloopIsQuiet
<1>2. CASE BackoffPasses
  BY <1>2 DEF BackoffPasses, Timers,
     IInv, TypeOK, OneDriver, LockInv, GenInv, RightDriver, ClaimInv, StopInv, CrashInv,
     RecoverOnce, StopCancelsRecovery, CrashloopIsQuiet
<1>3. CASE HealthyPasses
  BY <1>3 DEF HealthyPasses, Timers,
     IInv, TypeOK, OneDriver, LockInv, GenInv, RightDriver, ClaimInv, StopInv, CrashInv,
     RecoverOnce, StopCancelsRecovery, CrashloopIsQuiet
<1>4. CASE BeatAges
  BY <1>4 DEF BeatAges, Ages,
     IInv, TypeOK, OneDriver, LockInv, GenInv, RightDriver, ClaimInv, StopInv, CrashInv,
     RecoverOnce, StopCancelsRecovery, CrashloopIsQuiet
<1>5. CASE RunAges
  BY <1>5 DEF RunAges, Ages,
     IInv, TypeOK, OneDriver, LockInv, GenInv, RightDriver, ClaimInv, StopInv, CrashInv,
     RecoverOnce, StopCancelsRecovery, CrashloopIsQuiet
<1> QED
  BY <1>1, <1>2, <1>3, <1>4, <1>5 DEF Time

-----------------------------------------------------------------------------
\* The registration the pump stores is not newer than the driver, and not obsolete
\* if the current one is stored already; a task is given to a worker that has none.
LEMMA RegistryInv ==
  ASSUME IInv, Registry
  PROVE  IInv'
<1>1. ASSUME NEW g \in regs, RegistryReceive(g) PROVE IInv'
  BY <1>1 DEF RegistryReceive,
     IInv, TypeOK, OneDriver, LockInv, GenInv, RightDriver, ClaimInv, StopInv, CrashInv,
     RecoverOnce, StopCancelsRecovery, CrashloopIsQuiet
<1>2. CASE RegistryApply
  <2>1. joined' \in BOOLEAN
    BY <1>2, Zenon DEF RegistryApply, IInv, TypeOK
  <2> QED
    BY <1>2, <2>1 DEF RegistryApply, States, Ages,
       IInv, TypeOK, OneDriver, LockInv, GenInv, RightDriver, ClaimInv, StopInv, CrashInv,
       RecoverOnce, StopCancelsRecovery, CrashloopIsQuiet
<1>3. CASE RegistryDispatch
  BY <1>3 DEF RegistryDispatch, Give, ShouldRecover, Tasks, NoTask, Requests,
     IInv, TypeOK, OneDriver, LockInv, GenInv, RightDriver, ClaimInv, StopInv, CrashInv,
     RecoverOnce, StopCancelsRecovery, CrashloopIsQuiet
<1> QED
  BY <1>1, <1>2, <1>3 DEF Registry

\* The other messages to the manager, and a tick that gets the lock.
LEMMA PumpInv ==
  ASSUME IInv, IngestHeartbeat \/ Supervise \/ (\E op \in Requests : Request(op))
  PROVE  IInv'
<1>1. CASE IngestHeartbeat
  BY <1>1 DEF IngestHeartbeat, Beats, Ages,
     IInv, TypeOK, OneDriver, LockInv, GenInv, RightDriver, ClaimInv, StopInv, CrashInv,
     RecoverOnce, StopCancelsRecovery, CrashloopIsQuiet
<1>2. CASE Supervise
  BY <1>2 DEF Supervise, ExitState, States, Children, Kinds, Ages, Steps,
     IInv, TypeOK, OneDriver, LockInv, GenInv, RightDriver, ClaimInv, StopInv, CrashInv,
     RecoverOnce, StopCancelsRecovery, CrashloopIsQuiet
<1>3. ASSUME NEW op \in Requests, Request(op) PROVE IInv'
  BY <1>3 DEF Request, Give, Tasks, NoTask,
     IInv, TypeOK, OneDriver, LockInv, GenInv, RightDriver, ClaimInv, StopInv, CrashInv,
     RecoverOnce, StopCancelsRecovery, CrashloopIsQuiet
<1> QED
  BY <1>1, <1>2, <1>3

-----------------------------------------------------------------------------
\* start_driver from Popen on.
LEMMA StartingInv ==
  ASSUME IInv, Starting
  PROVE  IInv'
<1>1. CASE PopenSucceeds
  <2>1. joined' \in BOOLEAN
    BY <1>1, Zenon DEF PopenSucceeds
  <2> QED
    BY <1>1, <2>1 DEF PopenSucceeds, Children, Steps, Beats, Ages, NoBeat,
       IInv, TypeOK, OneDriver, LockInv, GenInv, RightDriver, ClaimInv, StopInv, CrashInv,
       RecoverOnce, StopCancelsRecovery, CrashloopIsQuiet
<1>2. CASE PopenRaises
  BY <1>2 DEF PopenRaises, Release, States, Children, Kinds, Steps, Beats, Ages, Tasks, NoTask, NoBeat,
     IInv, TypeOK, OneDriver, LockInv, GenInv, RightDriver, ClaimInv, StopInv, CrashInv,
     RecoverOnce, StopCancelsRecovery, CrashloopIsQuiet
<1>3. CASE Adopt
  BY <1>3 DEF Adopt, Release, Steps, Tasks, NoTask,
     IInv, TypeOK, OneDriver, LockInv, GenInv, RightDriver, ClaimInv, StopInv, CrashInv,
     RecoverOnce, StopCancelsRecovery, CrashloopIsQuiet
<1>4. CASE Settle
  BY <1>4 DEF Settle, Release, States, Steps, Tasks, NoTask,
     IInv, TypeOK, OneDriver, LockInv, GenInv, RightDriver, ClaimInv, StopInv, CrashInv,
     RecoverOnce, StopCancelsRecovery, CrashloopIsQuiet
<1> QED
  BY <1>1, <1>2, <1>3, <1>4 DEF Starting

\* A worker that gets the lock: stop_driver cancels what is scheduled, a recovery
\* connect is made only for the current generation and claims the intent.
LEMMA BeginInv ==
  ASSUME IInv, NEW w \in Workers, Begin(w)
  PROVE  IInv'
<1>1. CASE StartRefused(w)
  BY <1>1 DEF StartRefused, Finish, Tasks, NoTask,
     IInv, TypeOK, OneDriver, LockInv, GenInv, RightDriver, ClaimInv, StopInv, CrashInv,
     RecoverOnce, StopCancelsRecovery, CrashloopIsQuiet
<1>2. CASE StartDriver(w)
  BY <1>2 DEF StartDriver, Acquire, MayStart, Launch, States, Children, Kinds, Beats, Ages, Timers, Steps, Tasks,
     IInv, TypeOK, OneDriver, LockInv, GenInv, RightDriver, ClaimInv, StopInv, CrashInv,
     RecoverOnce, StopCancelsRecovery, CrashloopIsQuiet
<1>3. CASE StopRefused(w)
  BY <1>3 DEF StopRefused, Finish, Tasks, NoTask,
     IInv, TypeOK, OneDriver, LockInv, GenInv, RightDriver, ClaimInv, StopInv, CrashInv,
     RecoverOnce, StopCancelsRecovery, CrashloopIsQuiet
<1>4. CASE StopBegins(w)
  <2>1. automatic' \in BOOLEAN /\ intent' \in BOOLEAN /\ ~intent'
    BY <1>4, Zenon DEF StopBegins, Cancel
  <2> QED
    BY <1>4, <2>1 DEF StopBegins, Acquire, Cancel, Ages, Timers, Steps, Tasks,
       IInv, TypeOK, OneDriver, LockInv, GenInv, RightDriver, ClaimInv, StopInv, CrashInv,
       RecoverOnce, StopCancelsRecovery, CrashloopIsQuiet
<1>5. CASE ConnectDropped(w)
  BY <1>5 DEF ConnectDropped, Finish, Tasks, NoTask,
     IInv, TypeOK, OneDriver, LockInv, GenInv, RightDriver, ClaimInv, StopInv, CrashInv,
     RecoverOnce, StopCancelsRecovery, CrashloopIsQuiet
<1>6. CASE RecoveryBegins(w)
  <2>1. intent' \in BOOLEAN /\ ~intent'
    BY <1>6, Zenon DEF RecoveryBegins
  <2>2. twice' \in BOOLEAN /\ ~twice'
    BY <1>6, Zenon DEF RecoveryBegins, StillWanted, IInv, ClaimInv, RecoverOnce
  <2>3. /\ owner = "free" /\ owner' = w /\ task[w].op = "connect"
        /\ gen = task[w].gen /\ regGen = gen
        /\ intentGen' = 0 /\ claimed' = claimed \cup {gen} /\ step' = "rpc"
        /\ UNCHANGED <<spec, up, gen, state, process, regGen, beats, saved, deadline,
                       kind, restartAt, automatic, budget, net, pump, reg, task,
                       counters, halted>>
    BY <1>6, Zenon DEF RecoveryBegins, Acquire, StillWanted
  <2>4. TypeOK'
    BY <2>1, <2>2, <2>3 DEF IInv, TypeOK, Steps
  <2>5. OneDriver' /\ LockInv' /\ GenInv' /\ RightDriver'
    BY <2>3 DEF IInv, TypeOK, Tasks, OneDriver, LockInv, GenInv, RightDriver
  <2>6. RecoverOnce' /\ StopInv' /\ CrashInv'
    BY <2>1, <2>2, <2>3, Zenon DEF IInv, RecoverOnce, StopInv, StopCancelsRecovery,
                                   CrashInv, CrashloopIsQuiet
  <2>7. claimed' \subseteq 0 .. gen' /\ intentGen' = 0
    <3>1. gen \in Nat /\ claimed \subseteq 0 .. gen
      BY DEF IInv, TypeOK, ClaimInv
    <3>2. gen' = gen /\ claimed' = claimed \cup {gen} /\ intentGen' = 0
      BY <2>3
    <3>3. gen \in 0 .. gen
      BY <3>1
    <3> QED
      BY <3>1, <3>2, <3>3, Zenon
  <2> QED
    BY <2>4, <2>5, <2>6, <2>7, Zenon DEF IInv, ClaimInv
<1>7. CASE ConnectBegins(w)
  BY <1>7 DEF ConnectBegins, Acquire, Steps, Tasks,
     IInv, TypeOK, OneDriver, LockInv, GenInv, RightDriver, ClaimInv, StopInv, CrashInv,
     RecoverOnce, StopCancelsRecovery, CrashloopIsQuiet
<1> QED
  BY <1>1, <1>2, <1>3, <1>4, <1>5, <1>6, <1>7 DEF Begin

\* The rest of stop_driver and connect_device.
LEMMA WorkingInv ==
  ASSUME IInv, Working
  PROVE  IInv'
<1>1. CASE StopFindsDead
  BY <1>1 DEF StopFindsDead, Release, Reschedule, States, Children, Timers, Steps, Tasks, NoTask,
     IInv, TypeOK, OneDriver, LockInv, GenInv, RightDriver, ClaimInv, StopInv, CrashInv,
     RecoverOnce, StopCancelsRecovery, CrashloopIsQuiet
<1>2. CASE StopAsks
  BY <1>2 DEF StopAsks, Steps,
     IInv, TypeOK, OneDriver, LockInv, GenInv, RightDriver, ClaimInv, StopInv, CrashInv,
     RecoverOnce, StopCancelsRecovery, CrashloopIsQuiet
<1>3. CASE StopEnds
  BY <1>3 DEF StopEnds, Release, Reschedule, States, Timers, Steps, Tasks, NoTask,
     IInv, TypeOK, OneDriver, LockInv, GenInv, RightDriver, ClaimInv, StopInv, CrashInv,
     RecoverOnce, StopCancelsRecovery, CrashloopIsQuiet
<1>4. CASE ConnectEnds
  BY <1>4 DEF ConnectEnds, Release, Steps, Tasks, NoTask,
     IInv, TypeOK, OneDriver, LockInv, GenInv, RightDriver, ClaimInv, StopInv, CrashInv,
     RecoverOnce, StopCancelsRecovery, CrashloopIsQuiet
<1> QED
  BY <1>1, <1>2, <1>3, <1>4 DEF Working

-----------------------------------------------------------------------------
\* The rest of a tick: a restart is carried out only if one is scheduled, which a
\* stop would have cancelled, and only a RUNNING driver is failed and recovered.
LEMMA TickingInv ==
  ASSUME IInv, Ticking
  PROVE  IInv'
<1>1. CASE HeartbeatFails
  <2>1. automatic' \in BOOLEAN /\ intent' \in BOOLEAN
    BY <1>1, Zenon DEF HeartbeatFails, IInv, TypeOK
  <2> QED
    BY <1>1, <2>1 DEF HeartbeatFails, States, Kinds, Ages, Timers, Steps,
       IInv, TypeOK, OneDriver, LockInv, GenInv, RightDriver, ClaimInv, StopInv, CrashInv,
       RecoverOnce, StopCancelsRecovery, CrashloopIsQuiet
<1>2. CASE CheckStop
  BY <1>2 DEF CheckStop, States, Kinds, Steps,
     IInv, TypeOK, OneDriver, LockInv, GenInv, RightDriver, ClaimInv, StopInv, CrashInv,
     RecoverOnce, StopCancelsRecovery, CrashloopIsQuiet
<1>3. CASE RestartWaits
  BY <1>3 DEF RestartWaits, Release, ResetBudget, Timers, Steps, Tasks, NoTask,
     IInv, TypeOK, OneDriver, LockInv, GenInv, RightDriver, ClaimInv, StopInv, CrashInv,
     RecoverOnce, StopCancelsRecovery, CrashloopIsQuiet
<1>4. CASE RestartExhausted
  <2>1. automatic' \in BOOLEAN /\ intent' \in BOOLEAN /\ ~intent'
    BY <1>4, Zenon DEF RestartExhausted
  <2> QED
    BY <1>4, <2>1 DEF RestartExhausted, RestartDue, Release, States, Timers, Steps, Tasks, NoTask,
       IInv, TypeOK, OneDriver, LockInv, GenInv, RightDriver, ClaimInv, StopInv, CrashInv,
       RecoverOnce, StopCancelsRecovery, CrashloopIsQuiet
<1>5. CASE RestartDriver
  BY <1>5 DEF RestartDriver, RestartDue, Exhausted, CountRestart, MayStart, Launch, Release, States, Children, Kinds, Beats, Ages, Timers, Steps, Tasks, NoTask,
     IInv, TypeOK, OneDriver, LockInv, GenInv, RightDriver, ClaimInv, StopInv, CrashInv,
     RecoverOnce, StopCancelsRecovery, CrashloopIsQuiet
<1> QED
  BY <1>1, <1>2, <1>3, <1>4, <1>5 DEF Ticking

-----------------------------------------------------------------------------
\* The inductive invariant holds throughout: every thread's view of the handle is
\* consistent at each of its steps, whatever the other threads do in between.
THEOREM Inductive == Spec => []IInv
<1>1. IInv /\ [Next]_vars => IInv'
  <2> SUFFICES ASSUME IInv, [Next]_vars PROVE IInv'
    OBVIOUS
  <2>1. CASE Driver \/ Time
    BY <2>1, DriverInv, TimeInv
  <2>2. CASE Registry \/ IngestHeartbeat \/ Supervise
              \/ (\E op \in Requests : Request(op))
    BY <2>2, RegistryInv, PumpInv
  <2>3. CASE \E w \in Workers : Begin(w)
    BY <2>3, BeginInv
  <2>4. CASE Starting \/ Working \/ Ticking
    BY <2>4, StartingInv, WorkingInv, TickingInv
  <2>5. CASE UNCHANGED vars
    BY <2>5 DEF vars, IInv, TypeOK, OneDriver, LockInv, GenInv, RightDriver, ClaimInv,
                StopInv, CrashInv, RecoverOnce, StopCancelsRecovery,
                    CrashloopIsQuiet
  <2> QED
    BY <2>1, <2>2, <2>3, <2>4, <2>5 DEF Next
<1> QED
  BY InitInv, <1>1, PTL DEF Spec

\* Every field of the DeviceHandle has its type; driver_restart_count stays within
\* driver_max_restarts whoever restarts the driver.
THEOREM TypeCorrect == Spec => []TypeOK
BY Inductive, PTL DEF IInv

\* start_driver never creates a second driver, by a worker or by the pump.
THEOREM NeverTwoDrivers == Spec => []OneDriver
BY Inductive, PTL DEF IInv

\* A delayed recovery connect cannot connect the wrong driver (_run_auto_connect).
THEOREM ConnectsRightDriver == Spec => []RightDriver
BY Inductive, PTL DEF IInv

\* One recovery connect per generation, however often the driver registers.
THEOREM RecoversOnce == Spec => []RecoverOnce
BY Inductive, PTL DEF IInv, ClaimInv

\* A stop leaves neither a restart nor a reconnect intent (stop_driver).
THEOREM StopCancels == Spec => []StopCancelsRecovery
BY Inductive, PTL DEF IInv, StopInv

\* While a device is in CRASHLOOP no driver runs and none is about to be started.
THEOREM CrashloopQuiet == Spec => []CrashloopIsQuiet
BY Inductive, PTL DEF IInv, CrashInv
=============================================================================
