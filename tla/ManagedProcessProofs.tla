------------------------ MODULE ManagedProcessProofs ------------------------
(* Machine-checked proofs about ManagedProcess, for every set of ProcessSpecs, *)
(* every max_restarts and every number of kill attempts and of requests.       *)
EXTENDS ManagedProcess, TLAPS

\* Why a stop sticks: its deadline stays set, which keeps supervision from
\* scheduling a restart, and none is pending.
StopInv ==
    stopped => /\ deadline # "none" /\ restartAt = "none"
               /\ state \notin {"STARTING", "RUNNING"}

IInv == TypeOK /\ OneChild /\ StoppingHasDeadline /\ StopInv

USE SpecAssumption, LimitAssumption, CommandAssumption

-----------------------------------------------------------------------------
\* A new handle satisfies the invariant.
LEMMA InitInv == Init => IInv
<1> SUFFICES ASSUME Init PROVE IInv
  OBVIOUS
<1>1. ~stopped /\ stopped \in BOOLEAN
  BY Zenon DEF Init
<1>2. /\ up \in BOOLEAN /\ known \in BOOLEAN /\ silence \in BOOLEAN
      /\ retried \in BOOLEAN /\ reachable \in BOOLEAN
      /\ wire \in BOOLEAN /\ inbox \in BOOLEAN
  BY Zenon DEF Init, FreshHandle
<1>3. TypeOK
  BY <1>1, <1>2 DEF Init, FreshHandle, TypeOK, States, Children, Timers, Phases
<1> QED
  BY <1>1, <1>3 DEF Init, FreshHandle, IInv, OneChild, StoppingHasDeadline, StopInv

\* A child that exits and heartbeats that travel touch neither timers nor state.
LEMMA EnvironmentInv ==
  ASSUME IInv, Environment
  PROVE  IInv'
<1>1. CASE ChildExits
  BY <1>1 DEF ChildExits, IInv, TypeOK, OneChild, StoppingHasDeadline, StopInv,
              Children, stopVars, tally, envVars
<1>2. CASE ChildBeats
  BY <1>2 DEF ChildBeats, IInv, TypeOK, OneChild, StoppingHasDeadline, StopInv,
              stopVars, tally
<1>3. CASE BeatArrives
  BY <1>3 DEF BeatArrives, IInv, TypeOK, OneChild, StoppingHasDeadline, StopInv,
              stopVars, tally
<1>4. CASE AdvertiseRpc
  BY <1>4 DEF AdvertiseRpc, IInv, TypeOK, OneChild, StoppingHasDeadline, StopInv,
              stopVars, tally, envVars
<1> QED
  BY <1>1, <1>2, <1>3, <1>4 DEF Environment

\* A timer that passes stays set.
LEMMA TimeInv ==
  ASSUME IInv, Time
  PROVE  IInv'
<1>1. CASE StopDeadlinePasses
  BY <1>1 DEF StopDeadlinePasses, IInv, TypeOK, OneChild, StoppingHasDeadline,
              StopInv, Timers, tally, envVars
<1>2. CASE BackoffPasses
  BY <1>2 DEF BackoffPasses, IInv, TypeOK, OneChild, StoppingHasDeadline, StopInv,
              Timers, tally, envVars
<1>3. CASE FallsSilent
  BY <1>3 DEF FallsSilent, IInv, TypeOK, OneChild, StoppingHasDeadline, StopInv,
              stopVars, tally, envVars
<1> QED
  BY <1>1, <1>2, <1>3 DEF Time

\* Spawning when the old child is gone, unless the operator has just stopped it.
LEMMA SpawnInv ==
  ASSUME IInv, child # "alive", ~stopped', stopped' \in BOOLEAN,
         NEW retry \in BOOLEAN, Spawn(retry),
         restarts' \in 0 .. MaxRestarts, asked' \in 0 .. MaxCommands,
         pc' \in Phases, up' \in BOOLEAN
  PROVE  IInv'
<1>0. silence' \in BOOLEAN /\ reachable' \in BOOLEAN /\ retried' \in BOOLEAN
  BY Zenon DEF Spawn
<1>1. TypeOK'
  BY <1>0 DEF Spawn, IInv, TypeOK, States, Children, Timers, envVars
<1>2. OneChild' /\ StoppingHasDeadline' /\ StopInv'
  BY DEF Spawn, IInv, TypeOK, OneChild, StoppingHasDeadline, StopInv
<1> QED
  BY <1>1, <1>2 DEF IInv

\* stop_process_handle never leaves STOPPING without a deadline, and leaves a
\* pending stop as it is.
LEMMA StopHandleFacts ==
  ASSUME TypeOK, StoppingHasDeadline, StopHandle
  PROVE  /\ state' \in {"STOPPED", "EXITED", "FAILED", "STOPPING"}
         /\ child' \in Children /\ exitCode' \in Children \ {"alive"}
         /\ deadline' \in Timers
         /\ silence' \in BOOLEAN /\ retried' \in BOOLEAN
         /\ reachable' \in BOOLEAN /\ inbox' \in BOOLEAN
         /\ state' = "STOPPING" => deadline' = "set"
         /\ child = "alive" => deadline' = "set"
         /\ child # "alive" => deadline' = deadline
BY DEF StopHandle, TypeOK, StoppingHasDeadline, States, Children, Timers

\* The operator's requests.
LEMMA OperatorInv ==
  ASSUME IInv, Operator
  PROVE  IInv'
<1> USE DEF Request
<1>1. CASE OperatorStart
  <2>0. ~stopped' /\ stopped' \in BOOLEAN
    BY <1>1, Zenon DEF OperatorStart
  <2>1. CASE MayStart /\ Spawn(FALSE) /\ UNCHANGED restarts
    <3>0. Spawn(FALSE) /\ FALSE \in BOOLEAN
      BY <2>1, Zenon
    <3>1. /\ child # "alive"
          /\ restarts' \in 0 .. MaxRestarts /\ asked' \in 0 .. MaxCommands
          /\ pc' \in Phases /\ up' \in BOOLEAN
      <4>1. child # "alive" /\ restarts' = restarts /\ asked' = asked + 1
            /\ asked < MaxCommands /\ pc' = pc /\ up' = up
        BY <1>1, <2>1, Zenon DEF OperatorStart, MayStart
      <4> QED
        BY <4>1 DEF IInv, TypeOK
    <3> QED
      BY <2>0, <3>0, <3>1, SpawnInv, Zenon
  <2>2. CASE SpawnRaises /\ UNCHANGED <<known, strays, stopVars, silence, tally,
                                        reachable, inbox>>
    BY <1>1, <2>0, <2>2 DEF OperatorStart, SpawnRaises, IInv, TypeOK, OneChild,
       StoppingHasDeadline, StopInv, States, Children, stopVars, tally
  <2>3. CASE UNCHANGED <<known, state, child, strays, stopVars, silence, tally,
                         reachable, inbox>>
    BY <1>1, <2>0, <2>3 DEF OperatorStart, IInv, TypeOK, OneChild, StoppingHasDeadline,
       StopInv, stopVars, tally
  <2> QED
    BY <1>1, <2>1, <2>2, <2>3 DEF OperatorStart
<1>2. CASE OperatorStop
  <2>1. StopHandle
    BY <1>2 DEF OperatorStop
  <2> QED
    BY <1>2, <2>1, StopHandleFacts DEF OperatorStop, IInv, TypeOK, OneChild,
       StoppingHasDeadline, StopInv, States
<1>3. CASE OperatorRestart
  <2>1. StopHandle /\ Backoff \in Timers
    BY <1>3 DEF OperatorRestart, Backoff, Timers
  <2>2. ~stopped' /\ stopped' \in BOOLEAN
    BY <1>3, Zenon DEF OperatorRestart
  <2> QED
    BY <1>3, <2>1, <2>2, StopHandleFacts DEF OperatorRestart, IInv, TypeOK, OneChild,
       StoppingHasDeadline, StopInv, States
<1>4. CASE RemoveProcess
  <2>1. ~stopped' /\ stopped' \in BOOLEAN
    BY <1>4, Zenon DEF RemoveProcess
  <2>2. /\ known' \in BOOLEAN /\ silence' \in BOOLEAN /\ retried' \in BOOLEAN
        /\ reachable' \in BOOLEAN
    BY <1>4, Zenon DEF RemoveProcess
  <2> QED
    BY <1>4, <2>1, <2>2 DEF RemoveProcess, IInv, TypeOK, OneChild, StoppingHasDeadline, StopInv,
              States, Children, Timers
<1>5. CASE AddProcess
  BY <1>5 DEF AddProcess, IInv, TypeOK, OneChild, StoppingHasDeadline, StopInv,
              stopVars, tally
<1> QED
  BY <1>1, <1>2, <1>3, <1>4, <1>5 DEF Operator

\* The phases of the pump.
LEMMA PumpInv ==
  ASSUME IInv, Pump
  PROVE  IInv'
<1>1. CASE DrainHeartbeats
  BY <1>1, ZenonT(30) DEF DrainHeartbeats, Ingest, IInv, TypeOK, OneChild, StoppingHasDeadline,
              StopInv, States, Phases, stopVars
<1>2. CASE EndServing
  BY <1>2 DEF EndServing, IInv, TypeOK, OneChild, StoppingHasDeadline, StopInv, Phases,
              stopVars, tally, envVars
<1>3. CASE PollQuiet
  BY <1>3 DEF PollQuiet, IInv, TypeOK, OneChild, StoppingHasDeadline, StopInv, Phases,
              stopVars, tally, envVars
<1>4. CASE PollExited
  <2>1. /\ state' \in {"EXITED", "STOPPED", "FAILED"}
        /\ child' = "none" /\ exitCode' \in Children \ {"alive"}
    BY <1>4 DEF PollExited, Children
  <2> QED
    BY <1>4, <2>1 DEF PollExited, IInv, TypeOK, OneChild, StoppingHasDeadline, StopInv,
       States, Children, Phases, stopVars, envVars
<1>5. CASE CollisionRecovery
  <2>1. ~stopped' /\ stopped' \in BOOLEAN /\ child # "alive"
    BY <1>5 DEF CollisionRecovery, IInv, TypeOK, StopInv
  <2>2. CASE Spawn(TRUE) /\ UNCHANGED restarts /\ pc' = "drain"
    <3>1. /\ restarts' \in 0 .. MaxRestarts /\ asked' \in 0 .. MaxCommands
          /\ pc' \in Phases /\ up' \in BOOLEAN
      BY <1>5, <2>2 DEF CollisionRecovery, IInv, TypeOK, Phases
    <3>2. Spawn(TRUE) /\ TRUE \in BOOLEAN
      BY <2>2, Zenon
    <3> QED
      BY <2>1, <3>1, <3>2, SpawnInv, Zenon
  <2>3. CASE SpawnRaises /\ pc' = "heartbeat" /\ retried' = TRUE /\ exitCode' = child
             /\ reachable' = FALSE
             /\ UNCHANGED <<known, strays, stopVars, silence, restarts, kills, envVars>>
    BY <1>5, <2>1, <2>3 DEF CollisionRecovery, SpawnRaises, IInv, TypeOK, OneChild,
       StoppingHasDeadline, StopInv, States, Children, Phases, stopVars, envVars
  <2> QED
    BY <1>5, <2>2, <2>3 DEF CollisionRecovery
<1>6. CASE HeartbeatCheck
  <2> DEFINE stale == state \in {"STARTING", "RUNNING"} /\ silence
  <2>1. /\ pc' = "stop"
        /\ UNCHANGED <<spec, up, known, child, strays, restartAt, restarts, kills,
                       exitCode, wire, asked, stopped>>
    BY <1>6 DEF HeartbeatCheck
  <2>2. CASE UNCHANGED <<state, silence, reachable, retried, inbox, deadline>>
    BY <2>1, <2>2 DEF IInv, TypeOK, OneChild, StoppingHasDeadline, StopInv, Phases
  <2>3. CASE stale /\ Ingest /\ UNCHANGED deadline
    BY <2>1, <2>3 DEF Ingest, IInv, TypeOK, OneChild, StoppingHasDeadline, StopInv,
                      States, Phases
  <2>4. CASE /\ stale /\ state' = "FAILED" /\ deadline' \in {"set", deadline}
             /\ UNCHANGED <<silence, reachable, retried, inbox>>
    BY <2>1, <2>4 DEF IInv, TypeOK, OneChild, StoppingHasDeadline, StopInv, States,
                      Timers, Phases
  <2> QED
    BY <1>6, <2>2, <2>3, <2>4 DEF HeartbeatCheck
<1>7. CASE StopCheck
  BY <1>7 DEF StopCheck, IInv, TypeOK, OneChild, StoppingHasDeadline, StopInv, States,
              Timers, Phases, envVars
<1>8. CASE RestartWaits
  BY <1>8 DEF RestartWaits, RestartDue, Backoff, IInv, TypeOK, OneChild,
              StoppingHasDeadline, StopInv, Timers, Phases, tally, envVars
<1>9. CASE GiveUp
  BY <1>9 DEF GiveUp, IInv, TypeOK, OneChild, StoppingHasDeadline, StopInv, States,
              Timers, Phases, tally, envVars
<1>10. CASE TryRestart
  <2>1. child # "alive" /\ RestartDue = "past"
    BY <1>10 DEF TryRestart, NotDueYet
  <2>2. ~stopped /\ stopped \in BOOLEAN
    BY <2>1 DEF RestartDue, IInv, StopInv, TypeOK
  <2>3. /\ restarts' \in 0 .. MaxRestarts /\ asked' \in 0 .. MaxCommands
        /\ pc' \in Phases /\ ~stopped' /\ stopped' \in BOOLEAN
    BY <1>10, <2>2, LimitAssumption, SpecAssumption
       DEF TryRestart, CountRestart, Exhausted, SpecType, IInv, TypeOK, Phases
  <2>4. CASE Spawn(FALSE) /\ UNCHANGED up
    BY <2>1, <2>3, <2>4, SpawnInv DEF IInv, TypeOK
  <2>5. CASE SpawnRaises /\ up' = FALSE /\ restartAt' = "none" /\ deadline' = "none"
             /\ UNCHANGED <<known, strays, silence, exitCode, kills, retried,
                            reachable, envVars>>
    BY <1>10, <2>3, <2>5 DEF TryRestart, SpawnRaises, IInv, TypeOK, OneChild,
       StoppingHasDeadline, StopInv, States, Children, Timers, envVars
  <2>6. CASE /\ ~MayStart /\ restartAt' = "none" /\ deadline' = "none"
             /\ UNCHANGED <<up, known, state, child, strays, silence, exitCode, kills,
                            retried, reachable, envVars>>
    BY <1>10, <2>1, <2>3, <2>6 DEF TryRestart, MayStart, IInv, TypeOK, OneChild,
       StoppingHasDeadline, StopInv, Timers, envVars
  <2> QED
    BY <1>10, <2>4, <2>5, <2>6 DEF TryRestart
<1> QED
  BY <1>1, <1>2, <1>3, <1>4, <1>5, <1>6, <1>7, <1>8, <1>9, <1>10 DEF Pump

-----------------------------------------------------------------------------
\* IInv is inductive.
THEOREM Inductive == Spec => []IInv
<1>1. IInv /\ [Next]_vars => IInv'
  <2> SUFFICES ASSUME IInv, [Next]_vars PROVE IInv'
    OBVIOUS
  <2>1. CASE UNCHANGED vars
    BY <2>1 DEF vars, stopVars, tally, envVars, IInv, TypeOK, OneChild,
                StoppingHasDeadline, StopInv
  <2> QED
    BY <2>1, PumpInv, OperatorInv, EnvironmentInv, TimeInv DEF Next
<1> QED
  BY <1>1, InitInv, PTL DEF Spec

\* The handle's fields keep their types: kill_attempts and restart_count stay
\* within _MAX_KILL_ATTEMPTS and max_restarts.
THEOREM TypeCorrect == Spec => []TypeOK
BY Inductive, PTL DEF IInv

\* A handle never has two live children, whatever the policy, the limits and the
\* order of operator requests, exits, heartbeats and ticks.
THEOREM NeverTwoChildren == Spec => []OneChild
BY Inductive, PTL DEF IInv

\* The kill escalation of a child that is being stopped cannot be disabled: a
\* deadline is set whenever the handle is STOPPING and the child runs.
THEOREM EscalationArmed == Spec => []StoppingHasDeadline
BY Inductive, PTL DEF IInv

\* A live child stopped on request while no restart was pending is never brought
\* back by supervision.
THEOREM StopsStick == Spec => []StopSticks
<1>1. IInv => StopSticks
  BY DEF IInv, StopInv, StopSticks
<1> QED
  BY <1>1, Inductive, PTL
=============================================================================
