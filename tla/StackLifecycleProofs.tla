------------------------ MODULE StackLifecycleProofs ------------------------
(* Machine-checked proofs about StackLifecycle: the instance lock and the      *)
(* shutdown, for any number of managers and of lifecycle requests.             *)
EXTENDS StackLifecycle, TLAPS, FiniteSetTheorems

Places == Acquiring \cup Holding \cup {"off", "exited", "dead"}

Typed ==
    /\ pc \in [Managers -> Places]
    /\ file \in [by : SUBSET Managers, written : BOOLEAN]
    /\ process \in [Managers -> Child] /\ driver \in [Managers -> Child]
    /\ tasks \in [Managers -> [TaskState -> Nat]]
    /\ raced \in BOOLEAN

(* The lock file, while no two acquisitions have overlapped: one manager at a  *)
(* time tries, a holder's own complete file stands, nobody holds while the     *)
(* path is about to be removed, and the file being written is the writer's.    *)
OneTries == \A m, n \in Managers : pc[m] \in Acquiring /\ pc[n] \in Acquiring => m = n
HolderNamed == \A h \in Managers : pc[h] \in Holding => file.by = {h} /\ file.written = TRUE
StaleRemoved == \A m, h \in Managers : pc[m] = "unlink" => pc[h] \notin Holding
WriterNamed == \A m \in Managers : pc[m] = "write" => file.by = {m} /\ file.written = FALSE
LockInv == raced = FALSE => OneTries /\ HolderNamed /\ StaleRemoved /\ WriterNamed

(* The shutdown of one manager: what each of its steps has settled for good.   *)
Settled(m) ==
    /\ pc[m] \in {"joining", "drivers", "processes", "closing", "closed"} => tasks[m]["queued"] = 0
    /\ pc[m] \in {"drivers", "processes", "closing", "closed"} =>
        tasks[m]["running"] = 0 /\ tasks[m]["finished"] = 0
    /\ pc[m] \in {"processes", "closing", "closed"} => driver[m] \notin {"up", "known"}
    /\ pc[m] \in {"closing", "closed"} => process[m] \notin {"up", "known"}
ShutdownInv == \A m \in Managers : Settled(m)

StackInv == Typed /\ LockInv /\ ShutdownInv

-----------------------------------------------------------------------------
(* What most steps have in common.                                             *)

(* A step that neither touches the lock file nor brings a manager nearer to it. *)
LEMMA LockKept ==
  ASSUME LockInv, file' = file, raced' = raced,
         \A n \in Managers : pc'[n] \in Acquiring => pc'[n] = pc[n],
         \A n \in Managers : pc'[n] \in Holding => pc[n] \in Holding
  PROVE  LockInv'
<1>1. "unlink" \in Acquiring /\ "write" \in Acquiring
  BY DEF Acquiring
<1>2. SUFFICES ASSUME raced = FALSE
               PROVE  OneTries' /\ HolderNamed' /\ StaleRemoved' /\ WriterNamed'
  BY DEF LockInv
<1>3. OneTries /\ HolderNamed /\ StaleRemoved /\ WriterNamed
  BY <1>2 DEF LockInv
<1>4. OneTries'
  BY <1>3 DEF OneTries
<1>5. HolderNamed'
  BY <1>3 DEF HolderNamed
<1>6. StaleRemoved'
  BY <1>1, <1>3 DEF StaleRemoved
<1>7. WriterNamed'
  BY <1>1, <1>3 DEF WriterNamed
<1> QED
  BY <1>4, <1>5, <1>6, <1>7

(* One manager goes on in main, the others stay where they are.                *)
LEMMA GotoMoves ==
  ASSUME Typed, NEW m \in Managers, NEW next \in Places, Goto(m, next)
  PROVE  /\ pc' \in [Managers -> Places] /\ pc'[m] = next
         /\ \A n \in Managers \ {m} : pc'[n] = pc[n]
BY DEF Goto, Typed

(* The shutdown of the other managers is not this manager's business.          *)
LEMMA OthersSettled ==
  ASSUME ShutdownInv, NEW m \in Managers, Settled(m)',
         \A n \in Managers \ {m} : /\ pc'[n] = pc[n] /\ tasks'[n] = tasks[n]
                                   /\ driver'[n] = driver[n] /\ process'[n] = process[n]
  PROVE  ShutdownInv'
BY DEF ShutdownInv, Settled

(* A step of a manager that is not in its shutdown and does not enter it.      *)
LEMMA NotInShutdown ==
  ASSUME ShutdownInv, NEW m \in Managers,
         pc'[m] \notin {"joining", "drivers", "processes", "closing", "closed"},
         \A n \in Managers \ {m} : /\ pc'[n] = pc[n] /\ tasks'[n] = tasks[n]
                                   /\ driver'[n] = driver[n] /\ process'[n] = process[n]
  PROVE  ShutdownInv'
<1>1. Settled(m)'
  BY DEF Settled
<1> QED
  BY <1>1, OthersSettled

(* The named places of main.                                                   *)
LEMMA PlaceNames ==
  /\ Acquiring = {"create", "read", "unlink", "write"}
  /\ Pumping = {"routing", "settling", "serving"}
  /\ Holding = {"routing", "settling", "serving", "joining", "drivers", "processes", "closing",
                "construct", "closed", "release"}
  /\ Places = Acquiring \cup Holding \cup {"off", "exited", "dead"}
BY DEF Acquiring, Pumping, Bound, Holding, Places

-----------------------------------------------------------------------------
(* The steps, in the order of the module.                                      *)

(* Nothing has been started.                                                   *)
LEMMA InitStack == Init => StackInv
<1> SUFFICES ASSUME Init PROVE StackInv
  OBVIOUS
<1>1. Typed
  BY PlaceNames DEF Init, Typed, NoFile, Child, TaskState
<1>2. \A m \in Managers : pc[m] = "off"
  BY DEF Init
<1>3. LockInv
  BY <1>2, PlaceNames DEF LockInv, OneTries, HolderNamed, StaleRemoved, WriterNamed
<1>4. ShutdownInv
  BY <1>2 DEF ShutdownInv, Settled
<1> QED
  BY <1>1, <1>3, <1>4 DEF StackInv

(* A start that finds the instance running, or sweeps up its orphans.          *)
LEMMA PreflightStack ==
  ASSUME StackInv, NEW m \in Managers, ProbeAnswered(m) \/ CleanupOrphans(m)
  PROVE  StackInv'
<1>1. Typed /\ LockInv /\ ShutdownInv
  BY DEF StackInv
<1>2. CASE ProbeAnswered(m)
  <2>1. /\ pc' \in [Managers -> Places] /\ pc'[m] = "exited"
        /\ \A n \in Managers \ {m} : pc'[n] = pc[n]
    BY <1>1, <1>2, GotoMoves, PlaceNames DEF ProbeAnswered
  <2>2. UNCHANGED <<file, process, driver, tasks, raced>>
    BY <1>2 DEF ProbeAnswered
  <2>3. Typed'
    BY <1>1, <2>1, <2>2 DEF Typed
  <2>4. LockInv'
    BY <1>1, <2>1, <2>2, LockKept, PlaceNames
  <2>5. ShutdownInv'
    BY <1>1, <2>1, <2>2, NotInShutdown
  <2> QED
    BY <2>3, <2>4, <2>5 DEF StackInv
<1>3. CASE CleanupOrphans(m)
  <2>1. /\ pc' \in [Managers -> Places] /\ pc'[m] = "create" /\ pc[m] = "off"
        /\ \A n \in Managers \ {m} : pc'[n] = pc[n]
    BY <1>1, <1>3, GotoMoves, PlaceNames DEF CleanupOrphans
  <2>2. UNCHANGED <<file, tasks>>
    BY <1>3 DEF CleanupOrphans
  <2>3. PICK spared \in SUBSET {n \in Managers : Orphaned(n)} :
        /\ process' = [n \in Managers |-> IF Orphaned(n) /\ n \notin spared THEN "none" ELSE process[n]]
        /\ driver' = [n \in Managers |-> IF Orphaned(n) /\ n \notin spared THEN "none" ELSE driver[n]]
    BY <1>3 DEF CleanupOrphans
  <2>4. /\ raced' \in BOOLEAN
        /\ raced' = FALSE => raced = FALSE /\ \A n \in Managers \ {m} : pc[n] \notin Acquiring
    BY <1>1, <1>3 DEF CleanupOrphans, Typed
  <2>5. Typed'
    <3>1. process' \in [Managers -> Child] /\ driver' \in [Managers -> Child]
      BY <1>1, <2>3 DEF Typed, Child
    <3> QED
      BY <1>1, <2>1, <2>2, <2>4, <3>1 DEF Typed
  <2>6. LockInv'
    <3>1. SUFFICES ASSUME raced' = FALSE
                   PROVE  OneTries' /\ HolderNamed' /\ StaleRemoved' /\ WriterNamed'
      BY DEF LockInv
    <3>2. OneTries /\ HolderNamed /\ StaleRemoved /\ WriterNamed
      BY <1>1, <2>4, <3>1 DEF LockInv
    <3>3. \A n \in Managers : pc'[n] \in Acquiring => n = m
      BY <2>1, <2>4, <3>1
    <3>4. \A n \in Managers : pc'[n] \in Holding => pc[n] \in Holding
      BY <2>1, PlaceNames
    <3>5. OneTries'
      BY <3>3 DEF OneTries
    <3>6. HolderNamed'
      BY <2>2, <3>2, <3>4 DEF HolderNamed
    <3>7. StaleRemoved' /\ WriterNamed'
      BY <2>1, <3>3, PlaceNames DEF StaleRemoved, WriterNamed
    <3> QED
      BY <3>5, <3>6, <3>7
  <2>7. ShutdownInv'
    <3>1. \A n \in Managers : Settled(n)'
      <4> TAKE n \in Managers
      <4>1. CASE n = m
        BY <2>1, <4>1 DEF Settled
      <4>2. CASE n # m
        <5>1. pc'[n] = pc[n] /\ tasks'[n] = tasks[n] /\ Settled(n)
          BY <1>1, <2>1, <2>2, <4>2 DEF ShutdownInv
        <5>2. /\ driver'[n] = driver[n] \/ driver'[n] = "none"
              /\ process'[n] = process[n] \/ process'[n] = "none"
          BY <2>3
        <5> QED
          BY <5>1, <5>2 DEF Settled
      <4> QED
        BY <4>1, <4>2
    <3> QED
      BY <3>1 DEF ShutdownInv
  <2> QED
    BY <2>5, <2>6, <2>7 DEF StackInv
<1> QED
  BY <1>2, <1>3

(* InstanceLock: acquire and release.  An acquisition that runs alone gives up *)
(* as soon as a holder's complete file stands, since that holder is alive.     *)
LEMMA LockStepsStack ==
  ASSUME StackInv, NEW m \in Managers,
         TryCreate(m) \/ ReadInfo(m) \/ Unlink(m) \/ WritePayload(m) \/ Release(m)
  PROVE  StackInv'
<1>1. Typed /\ LockInv /\ ShutdownInv
  BY DEF StackInv
<1>2. UNCHANGED <<process, driver, tasks, raced>>
  BY DEF TryCreate, ReadInfo, Unlink, WritePayload, Release
<1>3. file.by \in SUBSET Managers /\ file.written \in BOOLEAN /\ (file = NoFile => file.by = {})
  BY <1>1 DEF Typed, NoFile
<1>4. ASSUME pc' \in [Managers -> Places],
             pc'[m] \notin {"joining", "drivers", "processes", "closing", "closed"},
             \A n \in Managers \ {m} : pc'[n] = pc[n],
             file' \in [by : SUBSET Managers, written : BOOLEAN],
             raced = FALSE => OneTries' /\ HolderNamed' /\ StaleRemoved' /\ WriterNamed'
      PROVE  StackInv'
  <2>1. Typed' /\ LockInv'
    BY <1>1, <1>2, <1>4 DEF Typed, LockInv
  <2>2. ShutdownInv'
    BY <1>1, <1>2, <1>4, NotInShutdown
  <2> QED
    BY <2>1, <2>2 DEF StackInv
<1>5. raced = FALSE => OneTries /\ HolderNamed /\ StaleRemoved /\ WriterNamed
  BY <1>1 DEF LockInv
<1>6. CASE TryCreate(m)
  <2>1. CASE file = NoFile
    <3>1. /\ pc' \in [Managers -> Places] /\ pc'[m] = "write" /\ pc[m] = "create"
          /\ \A n \in Managers \ {m} : pc'[n] = pc[n]
      BY <1>1, <1>6, <2>1, GotoMoves, PlaceNames DEF TryCreate
    <3>2. file' = [by |-> {m}, written |-> FALSE]
      BY <1>6, <2>1 DEF TryCreate
    <3>3. ASSUME raced = FALSE PROVE OneTries' /\ HolderNamed' /\ StaleRemoved' /\ WriterNamed'
      <4>1. \A n \in Managers : pc[n] \notin Holding
        BY <1>3, <1>5, <2>1, <3>3 DEF HolderNamed
      <4>2. \A n \in Managers : pc'[n] \notin Holding /\ (pc'[n] \in Acquiring => n = m)
        BY <1>5, <3>1, <3>3, <4>1, PlaceNames DEF OneTries
      <4> QED
        BY <3>1, <3>2, <4>2, PlaceNames DEF OneTries, HolderNamed, StaleRemoved, WriterNamed
    <3> QED
      BY <1>4, <3>1, <3>2, <3>3
  <2>2. CASE file # NoFile
    <3>1. /\ pc' \in [Managers -> Places] /\ pc'[m] = "read" /\ pc[m] = "create"
          /\ \A n \in Managers \ {m} : pc'[n] = pc[n]
      BY <1>1, <1>6, <2>2, GotoMoves, PlaceNames DEF TryCreate
    <3>2. file' = file
      BY <1>6, <2>2 DEF TryCreate
    <3>3. ASSUME raced = FALSE PROVE OneTries' /\ HolderNamed' /\ StaleRemoved' /\ WriterNamed'
      <4>1. \A n \in Managers : /\ pc'[n] \in Holding => pc[n] \in Holding
                                /\ pc'[n] \in Acquiring => n = m
        BY <1>5, <3>1, <3>3, PlaceNames DEF OneTries
      <4> QED
        BY <1>5, <3>1, <3>2, <3>3, <4>1, PlaceNames DEF OneTries, HolderNamed, StaleRemoved, WriterNamed
    <3> QED
      BY <1>1, <1>4, <3>1, <3>2, <3>3 DEF Typed
  <2> QED
    BY <2>1, <2>2
<1>7. CASE ReadInfo(m)
  <2>1. /\ pc' \in [Managers -> Places] /\ pc[m] = "read" /\ file' = file
        /\ pc'[m] = IF OwnerAlive THEN "exited" ELSE "unlink"
        /\ \A n \in Managers \ {m} : pc'[n] = pc[n]
    <3>1. (IF OwnerAlive THEN "exited" ELSE "unlink") \in Places
      BY PlaceNames
    <3> QED
      BY <1>1, <1>7, <3>1, GotoMoves DEF ReadInfo
  <2>2. ASSUME raced = FALSE PROVE OneTries' /\ HolderNamed' /\ StaleRemoved' /\ WriterNamed'
    <3>1. \A n \in Managers : /\ pc'[n] \in Holding => pc[n] \in Holding
                              /\ pc'[n] \in Acquiring => n = m
      BY <1>5, <2>1, <2>2, PlaceNames DEF OneTries
    <3>2. \A h \in Managers : pc[h] \in Holding => OwnerAlive
      BY <1>5, <2>2, PlaceNames DEF HolderNamed, OwnerAlive, Alive
    <3>3. StaleRemoved'
      BY <2>1, <3>1, <3>2, PlaceNames DEF StaleRemoved
    <3> QED
      BY <1>5, <2>1, <2>2, <3>1, <3>3, PlaceNames DEF OneTries, HolderNamed, WriterNamed
  <2> QED
    BY <1>1, <1>4, <2>1, <2>2 DEF Typed
<1>8. CASE Unlink(m)
  <2>1. /\ pc' \in [Managers -> Places] /\ pc'[m] = "create" /\ pc[m] = "unlink"
        /\ \A n \in Managers \ {m} : pc'[n] = pc[n]
    BY <1>1, <1>8, GotoMoves, PlaceNames DEF Unlink
  <2>2. file' = NoFile /\ file' \in [by : SUBSET Managers, written : BOOLEAN]
    BY <1>8 DEF Unlink, NoFile
  <2>3. ASSUME raced = FALSE PROVE OneTries' /\ HolderNamed' /\ StaleRemoved' /\ WriterNamed'
    <3>1. \A n \in Managers : pc'[n] \notin Holding /\ (pc'[n] \in Acquiring => n = m)
      BY <1>5, <2>1, <2>3, PlaceNames DEF OneTries, StaleRemoved
    <3> QED
      BY <2>1, <3>1, PlaceNames DEF OneTries, HolderNamed, StaleRemoved, WriterNamed
  <2> QED
    BY <1>4, <2>1, <2>2, <2>3
<1>9. CASE WritePayload(m)
  <2>1. /\ pc' \in [Managers -> Places] /\ pc'[m] = "construct" /\ pc[m] = "write"
        /\ \A n \in Managers \ {m} : pc'[n] = pc[n]
    BY <1>1, <1>9, GotoMoves, PlaceNames DEF WritePayload
  <2>2. /\ file' \in [by : SUBSET Managers, written : BOOLEAN]
        /\ file.by = {m} => file'.by = {m} /\ file'.written = TRUE
    BY <1>1, <1>9 DEF WritePayload, Typed
  <2>3. ASSUME raced = FALSE PROVE OneTries' /\ HolderNamed' /\ StaleRemoved' /\ WriterNamed'
    <3>1. file.by = {m} /\ file.written = FALSE
      BY <1>5, <2>1, <2>3 DEF WriterNamed
    <3>2. \A n \in Managers : /\ pc'[n] \notin Acquiring
                              /\ pc'[n] \in Holding => n = m
      BY <1>5, <2>1, <2>3, <3>1, PlaceNames DEF OneTries, HolderNamed
    <3> QED
      BY <2>2, <3>1, <3>2, PlaceNames DEF OneTries, HolderNamed, StaleRemoved, WriterNamed
  <2> QED
    BY <1>4, <2>1, <2>2, <2>3
<1>10. CASE Release(m)
  <2>1. /\ pc' \in [Managers -> Places] /\ pc'[m] = "exited" /\ pc[m] \in Holding
        /\ \A n \in Managers \ {m} : pc'[n] = pc[n]
    BY <1>1, <1>10, GotoMoves, PlaceNames DEF Release
  <2>2. file' \in [by : SUBSET Managers, written : BOOLEAN]
    BY <1>1, <1>10 DEF Release, NoFile, Typed
  <2>3. ASSUME raced = FALSE PROVE OneTries' /\ HolderNamed' /\ StaleRemoved' /\ WriterNamed'
    <3>1. file.by = {m} /\ file.written = TRUE
      BY <1>5, <2>1, <2>3 DEF HolderNamed
    <3>2. \A n \in Managers : pc'[n] \notin Holding /\ pc'[n] # "write" /\ pc'[n] # "unlink"
      BY <1>5, <2>1, <2>3, <3>1, PlaceNames DEF HolderNamed, StaleRemoved, WriterNamed
    <3>3. \A n \in Managers : pc'[n] \in Acquiring => pc[n] \in Acquiring
      BY <2>1, PlaceNames
    <3> QED
      BY <1>5, <2>3, <3>2, <3>3 DEF OneTries, HolderNamed, StaleRemoved, WriterNamed
  <2> QED
    BY <1>4, <2>1, <2>2, <2>3
<1> QED
  BY <1>6, <1>7, <1>8, <1>9, <1>10

(* The start-up sequence: none of its steps is near the lock or in a shutdown. *)
LEMMA StartupStack ==
  ASSUME StackInv, NEW m \in Managers,
         \/ Construct(m) \/ ConstructFails(m) \/ ProcessReady(m) \/ StartAllDrivers(m)
         \/ EndStartup(m) \/ MainRaises(m) \/ DriverRegisters(m)
  PROVE  StackInv'
<1>1. Typed /\ LockInv /\ ShutdownInv
  BY DEF StackInv
<1>2. UNCHANGED <<file, tasks, raced>>
  BY DEF Construct, ConstructFails, ProcessReady, StartAllDrivers, EndStartup, MainRaises,
         DriverRegisters
<1>3. /\ pc' \in [Managers -> Places]
      /\ pc[m] \in {"construct", "routing", "settling", "serving"}
      /\ pc'[m] \in {"release", "routing", "settling", "serving"}
      /\ \A n \in Managers \ {m} : pc'[n] = pc[n]
  <2>1. CASE Construct(m)
    BY <1>1, <2>1, GotoMoves, PlaceNames DEF Construct
  <2>2. CASE ConstructFails(m)
    BY <1>1, <2>2, GotoMoves, PlaceNames DEF ConstructFails
  <2>3. CASE ProcessReady(m) \/ DriverRegisters(m)
    BY <1>1, <2>3, PlaceNames DEF ProcessReady, DriverRegisters, Typed
  <2>4. CASE StartAllDrivers(m)
    BY <1>1, <2>4, GotoMoves, PlaceNames DEF StartAllDrivers
  <2>5. CASE EndStartup(m)
    BY <1>1, <2>5, GotoMoves, PlaceNames DEF EndStartup
  <2>6. CASE MainRaises(m)
    BY <1>1, <2>6, GotoMoves, PlaceNames DEF MainRaises
  <2> QED
    BY <2>1, <2>2, <2>3, <2>4, <2>5, <2>6
<1>4. /\ process' \in [Managers -> Child] /\ driver' \in [Managers -> Child]
      /\ \A n \in Managers \ {m} : driver'[n] = driver[n] /\ process'[n] = process[n]
  BY <1>1 DEF Construct, ConstructFails, ProcessReady, StartAllDrivers, EndStartup,
              MainRaises, DriverRegisters, Typed, Child
<1>5. Typed'
  BY <1>1, <1>2, <1>3, <1>4 DEF Typed
<1>6. LockInv'
  BY <1>1, <1>2, <1>3, LockKept, PlaceNames
<1>7. ShutdownInv'
  BY <1>1, <1>2, <1>3, <1>4, NotInShutdown
<1> QED
  BY <1>5, <1>6, <1>7 DEF StackInv

(* Lifecycle requests.  A worker may still finish while the manager joins it;  *)
(* from then on none is left to start a driver behind the stops.               *)
LEMMA RequestsStack ==
  ASSUME StackInv, NEW m \in Managers,
         Dispatch(m) \/ WorkerTakes(m) \/ WorkerFinishes(m) \/ PumpReplies(m)
  PROVE  StackInv'
<1>1. Typed /\ LockInv /\ ShutdownInv /\ Settled(m)
  BY DEF StackInv, ShutdownInv
<1>2. UNCHANGED <<pc, file, process, raced>>
  BY DEF Dispatch, WorkerTakes, WorkerFinishes, PumpReplies
<1>3. tasks[m] \in [TaskState -> Nat] /\ TaskState = {"queued", "running", "finished", "answered", "cancelled"}
  BY <1>1 DEF Typed, TaskState
<1>4. LockInv'
  BY <1>1, <1>2, LockKept
<1>5. ASSUME tasks' \in [Managers -> [TaskState -> Nat]], driver' \in [Managers -> Child],
             Settled(m)', \A n \in Managers \ {m} : tasks'[n] = tasks[n] /\ driver'[n] = driver[n]
      PROVE  StackInv'
  <2>1. Typed'
    BY <1>1, <1>2, <1>5 DEF Typed
  <2>2. ShutdownInv'
    BY <1>1, <1>2, <1>5, OthersSettled
  <2> QED
    BY <1>4, <2>1, <2>2 DEF StackInv
<1>6. CASE Dispatch(m)
  <2>1. /\ tasks' \in [Managers -> [TaskState -> Nat]] /\ driver' = driver /\ pc[m] \in Pumping
        /\ \A n \in Managers \ {m} : tasks'[n] = tasks[n]
    BY <1>1, <1>3, <1>6 DEF Dispatch, Typed
  <2>2. Settled(m)'
    BY <1>2, <2>1, PlaceNames DEF Settled
  <2> QED
    BY <1>1, <1>5, <2>1, <2>2 DEF Typed
<1>7. CASE WorkerTakes(m)
  <2>1. /\ tasks[m]["queued"] > 0 /\ driver' = driver
        /\ tasks' = [tasks EXCEPT ![m]["queued"] = @ - 1, ![m]["running"] = @ + 1]
    BY <1>7 DEF WorkerTakes, Moved
  <2>2. /\ tasks' \in [Managers -> [TaskState -> Nat]]
        /\ \A n \in Managers \ {m} : tasks'[n] = tasks[n]
    BY <1>1, <1>3, <2>1 DEF Typed
  <2>3. Settled(m)'
    BY <1>1, <1>2, <1>3, <2>1 DEF Settled
  <2> QED
    BY <1>1, <1>5, <2>1, <2>2, <2>3 DEF Typed
<1>8. CASE WorkerFinishes(m)
  <2>1. /\ tasks[m]["running"] > 0
        /\ tasks' = [tasks EXCEPT ![m]["running"] = @ - 1, ![m]["finished"] = @ + 1]
        /\ driver' = [driver EXCEPT ![m] = IF @ = "none" THEN "up" ELSE @]
    BY <1>8 DEF WorkerFinishes, Moved
  <2>2. /\ tasks' \in [Managers -> [TaskState -> Nat]]
        /\ tasks'[m]["queued"] = tasks[m]["queued"]
        /\ \A n \in Managers \ {m} : tasks'[n] = tasks[n]
    BY <1>1, <1>3, <2>1 DEF Typed
  <2>3. /\ driver' \in [Managers -> Child]
        /\ \A n \in Managers \ {m} : driver'[n] = driver[n]
    BY <1>1, <2>1 DEF Typed, Child
  <2>4. pc[m] \notin {"drivers", "processes", "closing", "closed"}
    BY <1>1, <1>3, <2>1 DEF Settled
  <2>5. Settled(m)'
    BY <1>1, <1>2, <2>2, <2>4 DEF Settled
  <2> QED
    BY <1>5, <2>2, <2>3, <2>5
<1>9. CASE PumpReplies(m)
  <2>1. /\ tasks' = [tasks EXCEPT ![m] = Drained(m)] /\ driver' = driver /\ pc[m] \in Pumping
    BY <1>9 DEF PumpReplies
  <2>2. /\ tasks' \in [Managers -> [TaskState -> Nat]]
        /\ \A n \in Managers \ {m} : tasks'[n] = tasks[n]
    BY <1>1, <1>3, <2>1 DEF Typed, Drained
  <2>3. Settled(m)'
    BY <1>2, <2>1, PlaceNames DEF Settled
  <2> QED
    BY <1>1, <1>5, <2>1, <2>2, <2>3 DEF Typed
<1> QED
  BY <1>6, <1>7, <1>8, <1>9

(* _shutdown_cleanup: every step settles one part of it.                       *)
LEMMA ShutdownStack ==
  ASSUME StackInv, NEW m \in Managers,
         BeginShutdown(m) \/ Quiesced(m) \/ StopDrivers(m) \/ StopProcesses(m) \/ CloseSockets(m)
  PROVE  StackInv'
<1>1. Typed /\ LockInv /\ ShutdownInv /\ Settled(m)
  BY DEF StackInv, ShutdownInv
<1>2. UNCHANGED <<file, raced>>
  BY DEF BeginShutdown, Quiesced, StopDrivers, StopProcesses, CloseSockets
<1>3. tasks[m] \in [TaskState -> Nat] /\ TaskState = {"queued", "running", "finished", "answered", "cancelled"}
  BY <1>1 DEF Typed, TaskState
<1>4. /\ pc' \in [Managers -> Places] /\ pc[m] \in Holding /\ pc'[m] \in Holding
      /\ \A n \in Managers \ {m} : pc'[n] = pc[n]
  <2>1. CASE BeginShutdown(m)
    BY <1>1, <2>1, GotoMoves, PlaceNames DEF BeginShutdown
  <2>2. CASE Quiesced(m)
    BY <1>1, <2>2, GotoMoves, PlaceNames DEF Quiesced
  <2>3. CASE StopDrivers(m)
    BY <1>1, <2>3, GotoMoves, PlaceNames DEF StopDrivers
  <2>4. CASE StopProcesses(m)
    BY <1>1, <2>4, GotoMoves, PlaceNames DEF StopProcesses
  <2>5. CASE CloseSockets(m)
    BY <1>1, <2>5, GotoMoves, PlaceNames DEF CloseSockets
  <2> QED
    BY <2>1, <2>2, <2>3, <2>4, <2>5
<1>5. LockInv'
  BY <1>1, <1>2, <1>4, LockKept, PlaceNames
<1>6. ASSUME tasks' \in [Managers -> [TaskState -> Nat]],
             driver' \in [Managers -> Child], process' \in [Managers -> Child], Settled(m)',
             \A n \in Managers \ {m} : /\ tasks'[n] = tasks[n]
                                       /\ driver'[n] = driver[n] /\ process'[n] = process[n]
      PROVE  StackInv'
  <2>1. Typed'
    BY <1>1, <1>2, <1>4, <1>6 DEF Typed
  <2>2. ShutdownInv'
    BY <1>1, <1>4, <1>6, OthersSettled
  <2> QED
    BY <1>5, <2>1, <2>2 DEF StackInv
(* What a drain of the replies makes of the requests.                          *)
<1>7. ASSUME tasks' = [tasks EXCEPT ![m] = Drained(m)]
      PROVE  /\ tasks' \in [Managers -> [TaskState -> Nat]]
             /\ tasks'[m]["queued"] = tasks[m]["queued"]
             /\ tasks'[m]["running"] = tasks[m]["running"] /\ tasks'[m]["finished"] = 0
             /\ \A n \in Managers \ {m} : tasks'[n] = tasks[n]
  BY <1>1, <1>3, <1>7 DEF Typed, Drained
<1>8. CASE BeginShutdown(m)
  <2>1. /\ tasks' = [tasks EXCEPT ![m]["cancelled"] = @ + tasks[m]["queued"], ![m]["queued"] = 0]
        /\ UNCHANGED <<driver, process>> /\ pc'[m] = "joining"
    BY <1>1, <1>8, GotoMoves, PlaceNames DEF BeginShutdown
  <2>2. /\ tasks' \in [Managers -> [TaskState -> Nat]] /\ tasks'[m]["queued"] = 0
        /\ \A n \in Managers \ {m} : tasks'[n] = tasks[n]
    BY <1>1, <1>3, <2>1 DEF Typed
  <2>3. Settled(m)'
    BY <2>1, <2>2 DEF Settled
  <2> QED
    BY <1>1, <1>6, <2>1, <2>2, <2>3 DEF Typed
<1>9. CASE Quiesced(m)
  <2>1. /\ tasks' = [tasks EXCEPT ![m] = Drained(m)] /\ tasks[m]["running"] = 0
        /\ UNCHANGED <<driver, process>> /\ pc[m] = "joining" /\ pc'[m] = "drivers"
    BY <1>1, <1>9, GotoMoves, PlaceNames DEF Quiesced
  <2>2. Settled(m)'
    BY <1>1, <1>7, <2>1 DEF Settled
  <2> QED
    BY <1>1, <1>6, <1>7, <2>1, <2>2 DEF Typed
<1>10. CASE StopDrivers(m)
  <2>1. /\ UNCHANGED <<tasks, process>> /\ pc[m] = "drivers" /\ pc'[m] = "processes"
    BY <1>1, <1>10, GotoMoves, PlaceNames DEF StopDrivers
  <2>2. PICK s \in AskedToStop(driver[m]) : driver' = [driver EXCEPT ![m] = s]
    BY <1>10 DEF StopDrivers
  <2>3. driver[m] \in Child
    BY <1>1 DEF Typed
  <2>4. s \in Child /\ s \notin {"up", "known"}
    BY <2>3 DEF AskedToStop, Child
  <2>5. /\ driver' \in [Managers -> Child] /\ driver'[m] = s
        /\ \A n \in Managers \ {m} : driver'[n] = driver[n]
    BY <1>1, <2>2, <2>4 DEF Typed
  <2>6. Settled(m)'
    BY <1>1, <2>1, <2>4, <2>5 DEF Settled
  <2> QED
    BY <1>1, <1>6, <2>1, <2>5, <2>6 DEF Typed
<1>11. CASE StopProcesses(m)
  <2>1. /\ UNCHANGED <<tasks, driver>> /\ pc[m] = "processes" /\ pc'[m] = "closing"
        /\ process' = [process EXCEPT ![m] = IF @ = "none" THEN @ ELSE "leaving"]
    BY <1>1, <1>11, GotoMoves, PlaceNames DEF StopProcesses
  <2>2. /\ process' \in [Managers -> Child] /\ process'[m] \notin {"up", "known"}
        /\ \A n \in Managers \ {m} : process'[n] = process[n]
    BY <1>1, <2>1 DEF Typed, Child
  <2>3. Settled(m)'
    BY <1>1, <2>1, <2>2 DEF Settled
  <2> QED
    BY <1>1, <1>6, <2>1, <2>2, <2>3 DEF Typed
<1>12. CASE CloseSockets(m)
  <2>1. /\ tasks' = [tasks EXCEPT ![m] = Drained(m)]
        /\ UNCHANGED <<driver, process>> /\ pc[m] = "closing" /\ pc'[m] = "closed"
    BY <1>1, <1>12, GotoMoves, PlaceNames DEF CloseSockets
  <2>2. Settled(m)'
    BY <1>1, <1>7, <2>1 DEF Settled
  <2> QED
    BY <1>1, <1>6, <1>7, <2>1, <2>2 DEF Typed
<1> QED
  BY <1>8, <1>9, <1>10, <1>11, <1>12

(* A crash at any point, and the end of a child.                               *)
LEMMA FailuresStack ==
  ASSUME StackInv, NEW m \in Managers, Crash(m) \/ ChildExits(m)
  PROVE  StackInv'
<1>1. Typed /\ LockInv /\ ShutdownInv /\ Settled(m)
  BY DEF StackInv, ShutdownInv
<1>2. UNCHANGED <<file, tasks, raced>>
  BY DEF Crash, ChildExits
<1>3. CASE Crash(m)
  <2>1. /\ pc' \in [Managers -> Places] /\ pc'[m] = "dead" /\ UNCHANGED <<process, driver>>
        /\ \A n \in Managers \ {m} : pc'[n] = pc[n]
    BY <1>1, <1>3, GotoMoves, PlaceNames DEF Crash
  <2>2. Typed'
    BY <1>1, <1>2, <2>1 DEF Typed
  <2>3. LockInv'
    BY <1>1, <1>2, <2>1, LockKept, PlaceNames
  <2>4. ShutdownInv'
    BY <1>1, <1>2, <2>1, NotInShutdown
  <2> QED
    BY <2>2, <2>3, <2>4 DEF StackInv
<1>4. CASE ChildExits(m)
  <2>1. /\ pc' = pc
        /\ driver' \in [Managers -> Child] /\ process' \in [Managers -> Child]
        /\ driver'[m] \in {driver[m], "none"} /\ process'[m] \in {process[m], "none"}
        /\ \A n \in Managers \ {m} : driver'[n] = driver[n] /\ process'[n] = process[n]
    BY <1>1, <1>4 DEF ChildExits, Typed, Child
  <2>2. Typed'
    BY <1>1, <1>2, <2>1 DEF Typed
  <2>3. LockInv'
    BY <1>1, <1>2, <2>1, LockKept
  <2>4. Settled(m)'
    BY <1>1, <1>2, <2>1 DEF Settled
  <2>5. ShutdownInv'
    BY <1>1, <1>2, <2>1, <2>4, OthersSettled
  <2> QED
    BY <2>2, <2>3, <2>5 DEF StackInv
<1> QED
  BY <1>3, <1>4

-----------------------------------------------------------------------------
(* The theorem.                                                                *)

(* Through crashes at any step, stale lock files, failed starts, orphans and   *)
(* requests under way: any number of managers of an instance have one live     *)
(* holder of its lock unless two acquisitions overlapped, and a shutdown that  *)
(* has closed its sockets has tried to stop every child and answered every     *)
(* request that a worker took (InstanceLock, run_stack, _shutdown_cleanup).    *)
THEOREM StackIsSound == Spec => []StackSound
<1>1. StackInv /\ [Next]_stackVars => StackInv'
  <2> SUFFICES ASSUME StackInv, [Next]_stackVars PROVE StackInv'
    OBVIOUS
  <2>1. CASE Next
    BY <2>1, PreflightStack, LockStepsStack, StartupStack, RequestsStack, ShutdownStack,
       FailuresStack DEF Next
  <2>2. CASE UNCHANGED stackVars
    BY <2>2 DEF stackVars, StackInv, Typed, LockInv, OneTries, HolderNamed, StaleRemoved,
                WriterNamed, ShutdownInv, Settled
  <2> QED
    BY <2>1, <2>2
<1>2. StackInv => OneHolderUnlessRaced
  <2> SUFFICES ASSUME StackInv, raced = FALSE PROVE Cardinality(Holders) <= 1
    BY DEF StackInv, Typed, OneHolderUnlessRaced, OneHolder
  <2>1. HolderNamed
    BY DEF StackInv, LockInv
  <2>2. CASE Holders = {}
    BY <2>2, FS_EmptySet
  <2>3. ASSUME NEW h \in Holders PROVE Holders = {h}
    BY <2>1 DEF HolderNamed, Holders
  <2>4. CASE Holders # {}
    <3>1. PICK h \in Holders : TRUE
      BY <2>4
    <3>2. Holders = {h} /\ Cardinality({h}) = 1
      BY <2>3, <3>1, FS_Singleton
    <3> QED
      BY <3>2
  <2> QED
    BY <2>2, <2>4
<1>3. StackInv => ShutdownComplete
  BY DEF StackInv, ShutdownInv, Settled, ShutdownComplete
<1> QED
  BY <1>1, <1>2, <1>3, InitStack, PTL DEF Spec, StackSound
=============================================================================
