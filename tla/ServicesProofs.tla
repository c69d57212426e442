--------------------------- MODULE ServicesProofs ---------------------------
(***************************************************************************)
(* Machine-checked proofs about eight of the services around the core, for *)
(* every value of their constants: the dispatch of a set_context step      *)
(* (SetContextDispatch, any finite set of streams, any number of pool      *)
(* threads and of steps), the automatic reconnection of degraded devices   *)
(* (AutoReconnect, whatever its triggers, cool-down, attempts and          *)
(* escalation, without bounds on time or launches), the gateway's RPC      *)
(* client (GatewayRpc, any number of handlers, any queue length, without a *)
(* bound on the requests), the driver runner (DriverRunner, any telemetry  *)
(* period), the manager's routing of requests through interceptors         *)
(* (ManagerRouting, any processes, actions and patterns), the watchdog     *)
(* (Watchdog, any finite set of rules), the sequence that is loaded and    *)
(* recorded for a run (SequenceStore, any sequences, uses, edits, runs and *)
(* restarts), and the federation hub (FederationHub, any finite set of     *)
(* devices, without bounds on requests, fetches, events and processes).    *)
(* Each theorem is about one of them: they share no state, only names such *)
(* as `worker' and `published'.                                            *)
(***************************************************************************)
EXTENDS SetContextDispatch, Integers, TLAPS, FiniteSetTheorems, SequenceTheorems,
        WellFoundedInduction

CONSTANTS
    OnDegraded, OnStale, Cooldown, ResetAfter, MaxAttempts,
    RestartsDriver, BeatTimeout, MaxTime, MaxGen, Callers, Reusing,
    RpcQueueMax, MaxRequests, HasSignals, Period, Processes, Actions,
    Patterns, Values, SocketMax, MaxBase, Rules, Signals, Rule, MaxSamples,
    MaxTrips, MaxClears, Ids, Broken, Uses, None, MaxVersion, MaxRuns,
    MaxRestarts, Devices, Allowed, ForwardQueueMax, MaxFetches, MaxPid,
    MaxEvents

VARIABLES
    clock, driver, telemetry, rec, tasks, worker, lock, open, caller,
    submitted, pending, router, stopping, thread, closing, made, health,
    link, members, sched, lastTick, heartbeat, socket, procs, routes, cache,
    check, promised, meta, published, configured, registering, overlapped,
    sample, was, enabled, rst,
    inflight, trips, clears, tripped, disk, library, loaded, engine, nextRun,
    life, started, events, rows, fwd, requests, answers, closed, warm,
    warmResults, mirror, cached, wire, owner, sent

Recon == INSTANCE AutoReconnect
Gateway == INSTANCE GatewayRpc
Driver == INSTANCE DriverRunner
Routing == INSTANCE ManagerRouting
Dog == INSTANCE Watchdog
Store == INSTANCE SequenceStore
Hub == INSTANCE FederationHub

-----------------------------------------------------------------------------
(* The dispatch of a set_context step *)

JobState == {"none", "queued", "running", "ok", "failed", "cancelled"}

DispatchTyped ==
            /\ step \in Nat /\ waiting \in BOOLEAN
            /\ job \in [Contexts -> [Kinds -> JobState]]
            /\ queue \in Seq(Contexts \X Kinds)
            /\ context \in [Streams -> Nat]
            /\ step <= MaxContext
            /\ waiting = TRUE => step \in Contexts

(* A job of a stream exists only for a registered pair, and then the       *)
(* registration of its step has succeeded; what a device was told is       *)
(* registered; an acknowledged job is remembered.                          *)
Registered ==
    /\ \A c \in Contexts, s \in Streams : job[c][s] # "none" =>
            <<s, c>> \in expected /\ job[c]["expect"] = "ok"
    /\ ExpectBeforeSwitch
    /\ \A c \in Contexts, s \in Streams : job[c][s] = "ok" => <<s, c>> \in acked

(* Nothing is submitted for a step to come; a step that ended well has     *)
(* been reached and all its calls are done.                                *)
InOrder ==
    /\ \A c \in Contexts, k \in Kinds : c > step => job[c][k] = "none"
    /\ \A c \in succeeded : c \in Contexts /\ c <= step /\ \A s \in Streams : job[c][s] = "ok"

(* As long as no dispatch was given up, only the step that is waited for   *)
(* has work under way, and a device that acknowledged it is in it.         *)
Busy(c, k) == job[c][k] \in {"queued", "running"}
Undisturbed ==
    gone = {} =>
        /\ \A c \in Contexts, k \in Kinds : Busy(c, k) => c = step /\ waiting = TRUE
        /\ \A c \in Contexts, s \in Streams : job[c][s] = "ok" /\ c = step => context[s] = step

DispatchInv == DispatchTyped /\ Registered /\ InOrder /\ Undisturbed

(* What the code gives the constants: a step sets finitely many streams,   *)
(* and the registration is not itself a stream.                            *)
Configured == IsFiniteSet(Streams) /\ "expect" \notin Streams /\ MaxContext \in Nat

-----------------------------------------------------------------------------
(* Jobs and the queue of the pool.                                         *)

(* A finite set of jobs is put into the queue one by one.                  *)
LEMMA QueueOfSet ==
  ASSUME NEW S, IsFiniteSet(S)
  PROVE  SetToSeq(S) \in Seq(S)
<1>1. Cardinality(S) \in Nat /\ ExistsBijection(1..Cardinality(S), S)
  BY FS_CardinalityType
<1>2. PICK f \in Bijection(1..Cardinality(S), S) : TRUE
  BY <1>1 DEF ExistsBijection
<1>3. f \in [1..Cardinality(S) -> S] /\ IsInjective(f)
  BY <1>2 DEF Bijection, Injection, IsInjective
<1>4. SetToSeq(S) \in [1..Cardinality(S) -> S]
  BY <1>3 DEF SetToSeq
<1> QED
  BY <1>1, <1>4

(* The queue and the jobs after the jobs kinds of step c were submitted.   *)
Queues(c, kinds, jobs) ==
    /\ queue' \in Seq(Contexts \X Kinds)
    /\ job' \in [Contexts -> [Kinds -> JobState]]
    /\ \A d \in Contexts, k \in Kinds :
          job'[d][k] = IF d = c /\ k \in kinds THEN "queued" ELSE jobs[d][k]

(* Submit queues the named jobs of one step and leaves the others alone.   *)
LEMMA SubmitQueues ==
  ASSUME Configured, NEW c \in Contexts, NEW kinds \in SUBSET Kinds,
         NEW jobs \in [Contexts -> [Kinds -> JobState]], queue \in Seq(Contexts \X Kinds),
         Submit(c, kinds, jobs)
  PROVE  Queues(c, kinds, jobs)
<1>1. IsFiniteSet(Kinds)
  BY FS_Singleton, FS_Union DEF Configured, Kinds
<1>2. IsFiniteSet({c} \X kinds)
  BY <1>1, FS_Singleton, FS_Subset, FS_Product
<1>3. SetToSeq({c} \X kinds) \in Seq({c} \X kinds)
  BY <1>2, QueueOfSet
<1>4. SetToSeq({c} \X kinds) \in Seq(Contexts \X Kinds)
  BY <1>3
<1>5. queue' \in Seq(Contexts \X Kinds)
  <2>1. queue' = queue \o SetToSeq({c} \X kinds)
    BY DEF Submit
  <2> QED
    BY <1>4, <2>1, ConcatProperties
<1>6. job' = [jobs EXCEPT ![c] = [k \in Kinds |-> IF k \in kinds THEN "queued" ELSE jobs[c][k]]]
  BY DEF Submit
<1>7. job' \in [Contexts -> [Kinds -> JobState]]
  BY <1>6 DEF JobState
<1> QED
  BY <1>5, <1>6, <1>7 DEF Queues

(* A step that gives one job its next state.                               *)
LEMMA JobMoves ==
  ASSUME DispatchTyped, NEW c \in Contexts, NEW k \in Kinds, NEW next \in JobState,
         job' = [job EXCEPT ![c][k] = next]
  PROVE  /\ job' \in [Contexts -> [Kinds -> JobState]]
         /\ \A d \in Contexts, j \in Kinds : job'[d][j] = IF d = c /\ j = k THEN next ELSE job[d][j]
BY DEF DispatchTyped

(* The kinds of job.                                                       *)
LEMMA KindNames ==
  ASSUME Configured
  PROVE  /\ "expect" \in Kinds /\ \A s \in Streams : s \in Kinds /\ s # "expect"
         /\ \A k \in Kinds : k = "expect" \/ k \in Streams
         /\ Contexts = 1..MaxContext /\ Contexts \subseteq Nat
BY DEF Configured, Kinds, Contexts

-----------------------------------------------------------------------------
(* The steps.                                                              *)

(* Nothing has been submitted.                                             *)
LEMMA InitDispatch == ASSUME Configured, Init PROVE DispatchInv
<1>1. \A c \in Contexts, k \in Kinds : job[c][k] = "none"
  BY DEF Init
<1>2. DispatchTyped
  <2>1. queue \in Seq(Contexts \X Kinds)
    BY DEF Init
  <2>2. job \in [Contexts -> [Kinds -> JobState]]
    BY DEF Init, JobState
  <2>3. step \in Nat /\ step <= MaxContext /\ context \in [Streams -> Nat]
    BY DEF Init, Configured
  <2>4. waiting \in BOOLEAN /\ waiting = FALSE
    BY DEF Init
  <2> QED
    BY <2>1, <2>2, <2>3, <2>4 DEF DispatchTyped
<1>3. Registered
  BY <1>1, KindNames DEF Registered, ExpectBeforeSwitch, Init
<1>4. InOrder
  BY <1>1 DEF InOrder, Init
<1>5. Undisturbed
  BY <1>1, KindNames DEF Undisturbed, Busy
<1> QED
  BY <1>2, <1>3, <1>4, <1>5 DEF DispatchInv

(* A step begins with its registration alone.                              *)
LEMMA BeginKeeps == ASSUME Configured, DispatchInv, BeginSetContext PROVE DispatchInv'
<1>1. DispatchTyped /\ Registered /\ InOrder /\ Undisturbed
  BY DEF DispatchInv
<1>2. /\ waiting = FALSE /\ step' = step + 1 /\ waiting' = TRUE /\ step < MaxContext
      /\ UNCHANGED <<expected, context, acked, succeeded, gone, late>>
      /\ Submit(step + 1, {"expect"}, job)
  BY <1>1 DEF BeginSetContext, DispatchTyped
<1>3. step \in Nat /\ MaxContext \in Nat /\ step + 1 \in Contexts
  BY <1>1, <1>2 DEF DispatchTyped, Configured, Contexts
<1>4. /\ queue' \in Seq(Contexts \X Kinds)
      /\ job' \in [Contexts -> [Kinds -> JobState]]
      /\ \A d \in Contexts, k \in Kinds :
           job'[d][k] = IF d = step + 1 /\ k \in {"expect"} THEN "queued" ELSE job[d][k]
  <2> DEFINE c == step + 1
             kinds == {"expect"}
  <2>1. /\ kinds \in SUBSET Kinds /\ job \in [Contexts -> [Kinds -> JobState]]
        /\ queue \in Seq(Contexts \X Kinds) /\ c \in Contexts /\ Submit(c, kinds, job)
    BY <1>1, <1>2, <1>3, KindNames DEF DispatchTyped
  <2> HIDE DEF c, kinds
  <2>2. Queues(c, kinds, job)
    BY <2>1, SubmitQueues
  <2> QED
    BY <2>2 DEF Queues, c, kinds
<1>5. \A d \in Contexts, s \in Streams : job'[d][s] = job[d][s]
  BY <1>4, KindNames
<1>6. \A k \in Kinds : job[step + 1][k] = "none"
  BY <1>1, <1>3 DEF InOrder
<1>7. DispatchTyped'
  BY <1>1, <1>2, <1>3, <1>4 DEF DispatchTyped
<1>8. Registered'
  <2>1. \A c \in Contexts, s \in Streams : job[c][s] # "none" => c # step + 1
    BY <1>6, KindNames
  <2>2. ASSUME NEW c \in Contexts, NEW s \in Streams, job'[c][s] # "none"
        PROVE  <<s, c>> \in expected' /\ job'[c]["expect"] = "ok"
    <3>1. job[c][s] # "none" /\ c # step + 1
      BY <1>5, <2>1, <2>2
    <3>2. job'[c]["expect"] = job[c]["expect"]
      BY <1>4, <3>1, KindNames
    <3> QED
      BY <1>1, <1>2, <3>1, <3>2 DEF Registered
  <2>3. ExpectBeforeSwitch'
    BY <1>1, <1>2 DEF Registered, ExpectBeforeSwitch
  <2>4. \A c \in Contexts, s \in Streams : job'[c][s] = "ok" => <<s, c>> \in acked'
    BY <1>1, <1>2, <1>5 DEF Registered
  <2> QED
    BY <2>2, <2>3, <2>4 DEF Registered
<1>9. InOrder'
  <2>1. \A c \in Contexts : c > step + 1 => c > step /\ c # step + 1
    BY <1>3, KindNames
  <2>2. \A c \in Contexts, k \in Kinds : c > step' => job'[c][k] = "none"
    BY <1>1, <1>2, <1>4, <2>1 DEF InOrder
  <2>3. \A c \in succeeded : c \in Contexts /\ c <= step' /\ \A s \in Streams : job'[c][s] = "ok"
    BY <1>1, <1>2, <1>3, <1>5, KindNames DEF InOrder
  <2> QED
    BY <1>2, <2>2, <2>3 DEF InOrder
<1>10. Undisturbed'
  <2> SUFFICES ASSUME gone = {}
               PROVE  /\ \A c \in Contexts, k \in Kinds : Busy(c, k)' => c = step' /\ waiting' = TRUE
                      /\ \A c \in Contexts, s \in Streams : job'[c][s] = "ok" /\ c = step' => context'[s] = step'
    BY <1>2 DEF Undisturbed
  <2>1. \A c \in Contexts, k \in Kinds : ~Busy(c, k)
    BY <1>1, <1>2 DEF Undisturbed
  <2>2. \A c \in Contexts, k \in Kinds : Busy(c, k)' => c = step + 1
    BY <1>4, <2>1 DEF Busy
  <2> QED
    BY <1>2, <1>5, <1>6, <2>2, KindNames
<1> QED
  BY <1>7, <1>8, <1>9, <1>10 DEF DispatchInv

(* A worker takes a job that is still wanted.                              *)
LEMMA TakeKeeps == ASSUME Configured, DispatchInv, Take PROVE DispatchInv'
<1>1. DispatchTyped /\ Registered /\ InOrder /\ Undisturbed
  BY DEF DispatchInv
<1> DEFINE c == Head(queue)[1]
           k == Head(queue)[2]
<1>2. /\ queue # <<>> /\ queue' = Tail(queue)
      /\ UNCHANGED <<step, waiting, expected, context, acked, succeeded, gone>>
      /\ IF job[c][k] = "queued" THEN job' = [job EXCEPT ![c][k] = "running"] ELSE UNCHANGED job
  BY DEF Take
<1>3. c \in Contexts /\ k \in Kinds /\ queue' \in Seq(Contexts \X Kinds)
  BY <1>1, <1>2 DEF DispatchTyped
<1> HIDE DEF c, k
<1>4. CASE job[c][k] = "queued"
  <2>1. /\ job' \in [Contexts -> [Kinds -> JobState]]
        /\ \A d \in Contexts, j \in Kinds : job'[d][j] = IF d = c /\ j = k THEN "running" ELSE job[d][j]
    <3>1. "running" \in JobState
      BY DEF JobState
    <3> QED
      BY <1>1, <1>2, <1>3, <1>4, <3>1, JobMoves
  <2>2. \A d \in Contexts, j \in Kinds : /\ job'[d][j] = "none" <=> job[d][j] = "none"
                                         /\ job'[d][j] = "ok" <=> job[d][j] = "ok"
                                         /\ Busy(d, j)' <=> Busy(d, j)
    BY <1>3, <1>4, <2>1 DEF Busy
  <2>3. DispatchTyped'
    BY <1>1, <1>2, <1>3, <2>1 DEF DispatchTyped
  <2>4. Registered'
    BY <1>1, <1>2, <2>2, KindNames DEF Registered, ExpectBeforeSwitch
  <2>5. InOrder'
    BY <1>1, <1>2, <2>2, KindNames DEF InOrder
  <2>6. Undisturbed'
    BY <1>1, <1>2, <2>2, KindNames DEF Undisturbed
  <2> QED
    BY <2>3, <2>4, <2>5, <2>6 DEF DispatchInv
<1>5. CASE job[c][k] # "queued"
  BY <1>1, <1>2, <1>3, <1>5 DEF DispatchInv, DispatchTyped, Registered, ExpectBeforeSwitch, InOrder,
                                Undisturbed, Busy
<1> QED
  BY <1>4, <1>5

(* The registration is answered: the switches are submitted, for the pairs *)
(* the writer now expects.                                                 *)
LEMMA ExpectKeeps ==
  ASSUME Configured, DispatchInv, NEW c \in Contexts, ExpectStreams(c)
  PROVE  DispatchInv'
<1>1. DispatchTyped /\ Registered /\ InOrder /\ Undisturbed
  BY DEF DispatchInv
<1> DEFINE jobs == [job EXCEPT ![c]["expect"] = "ok"]
<1>2. /\ job[c]["expect"] = "running" /\ expected' = expected \cup (Streams \X {c})
      /\ Submit(c, Streams, jobs)
      /\ UNCHANGED <<step, waiting, context, acked, succeeded, gone, late>>
  BY DEF ExpectStreams
<1>3. /\ jobs \in [Contexts -> [Kinds -> JobState]]
      /\ \A d \in Contexts, j \in Kinds : jobs[d][j] = IF d = c /\ j = "expect" THEN "ok" ELSE job[d][j]
  BY <1>1, KindNames DEF DispatchTyped, JobState
<1> HIDE DEF jobs
<1>4. Queues(c, Streams, jobs)
  <2>1. Streams \in SUBSET Kinds /\ queue \in Seq(Contexts \X Kinds)
    BY <1>1, KindNames DEF DispatchTyped
  <2> QED
    BY <1>2, <1>3, <2>1, SubmitQueues
<1>5. /\ job'[c]["expect"] = "ok" /\ \A s \in Streams : job'[c][s] = "queued"
      /\ \A d \in Contexts, k \in Kinds : d # c => job'[d][k] = job[d][k]
  BY <1>3, <1>4, KindNames DEF Queues
<1>6. DispatchTyped'
  BY <1>1, <1>2, <1>4 DEF DispatchTyped, Queues
<1>7. Registered'
  <2>1. \A d \in Contexts, s \in Streams : job'[d][s] # "none" =>
            <<s, d>> \in expected' /\ job'[d]["expect"] = "ok"
    BY <1>1, <1>2, <1>5, KindNames DEF Registered
  <2>2. ExpectBeforeSwitch'
    BY <1>1, <1>2 DEF Registered, ExpectBeforeSwitch
  <2>3. \A d \in Contexts, s \in Streams : job'[d][s] = "ok" => <<s, d>> \in acked'
    BY <1>1, <1>2, <1>5, KindNames DEF Registered
  <2> QED
    BY <2>1, <2>2, <2>3 DEF Registered
(* The step was reached, and its switches were not submitted before.       *)
<1>8. ~(c > step)
  BY <1>1, <1>2, KindNames DEF InOrder
<1>9. \A s \in Streams : job[c][s] = "none"
  BY <1>1, <1>2 DEF Registered
<1>10. InOrder'
  <2>1. \A d \in Contexts, k \in Kinds : d > step => job'[d][k] = "none"
    BY <1>1, <1>5, <1>8 DEF InOrder
  <2>2. \A d \in succeeded : d \in Contexts /\ d <= step /\ \A s \in Streams : job'[d][s] = "ok"
    BY <1>1, <1>5, <1>9, KindNames DEF InOrder
  <2> QED
    BY <1>2, <2>1, <2>2 DEF InOrder
<1>11. Undisturbed'
  <2> SUFFICES ASSUME gone = {}
               PROVE  /\ \A d \in Contexts, k \in Kinds : Busy(d, k)' => d = step /\ waiting = TRUE
                      /\ \A d \in Contexts, s \in Streams : job'[d][s] = "ok" /\ d = step => context[s] = step
    BY <1>2 DEF Undisturbed
  <2>1. c = step /\ waiting = TRUE
    BY <1>1, <1>2, KindNames DEF Undisturbed, Busy
  <2>2. \A d \in Contexts, k \in Kinds : Busy(d, k)' => d = step
    BY <1>1, <1>5, <2>1 DEF Undisturbed, Busy
  <2>3. \A d \in Contexts, s \in Streams : ~(job'[d][s] = "ok" /\ d = step)
    BY <1>5, <2>1
  <2> QED
    BY <2>1, <2>2, <2>3
<1> QED
  BY <1>6, <1>7, <1>10, <1>11 DEF DispatchInv

(* The registration failed: no switch was submitted, whatever the writer   *)
(* made of the request.                                                    *)
LEMMA ExpectFailsKeeps ==
  ASSUME Configured, DispatchInv, NEW c \in Contexts, ExpectFails(c)
  PROVE  DispatchInv'
<1>1. DispatchTyped /\ Registered /\ InOrder /\ Undisturbed
  BY DEF DispatchInv
<1>2. /\ job[c]["expect"] = "running" /\ expected \subseteq expected'
      /\ job' = [job EXCEPT ![c]["expect"] = "failed"]
      /\ UNCHANGED <<step, waiting, queue, context, acked, succeeded, gone, late>>
  BY DEF ExpectFails
<1>3. /\ job' \in [Contexts -> [Kinds -> JobState]]
      /\ \A d \in Contexts, j \in Kinds :
            job'[d][j] = IF d = c /\ j = "expect" THEN "failed" ELSE job[d][j]
  <2>1. "failed" \in JobState /\ "expect" \in Kinds
    BY KindNames DEF JobState
  <2> QED
    BY <1>1, <1>2, <2>1, JobMoves, ZenonT(30)
<1>4. \A d \in Contexts, s \in Streams : job'[d][s] = job[d][s]
  BY <1>3, KindNames
<1>5. \A d \in Contexts, j \in Kinds : Busy(d, j)' => Busy(d, j)
  BY <1>3 DEF Busy
<1>6. DispatchTyped'
  BY <1>1, <1>2, <1>3 DEF DispatchTyped
<1>7. Registered'
  <2>1. \A s \in Streams : job[c][s] = "none"
    BY <1>1, <1>2 DEF Registered
  <2>2. \A d \in Contexts, s \in Streams : job'[d][s] # "none" =>
            <<s, d>> \in expected' /\ job'[d]["expect"] = "ok"
    BY <1>1, <1>2, <1>3, <1>4, <2>1, KindNames DEF Registered
  <2>3. ExpectBeforeSwitch'
    BY <1>1, <1>2 DEF Registered, ExpectBeforeSwitch
  <2>4. \A d \in Contexts, s \in Streams : job'[d][s] = "ok" => <<s, d>> \in acked'
    BY <1>1, <1>2, <1>4 DEF Registered
  <2> QED
    BY <2>2, <2>3, <2>4 DEF Registered
<1>8. InOrder'
  <2>1. ~(c > step)
    BY <1>1, <1>2, KindNames DEF InOrder
  <2> QED
    BY <1>1, <1>2, <1>3, <1>4, <2>1 DEF InOrder
<1>9. Undisturbed'
  BY <1>1, <1>2, <1>4, <1>5 DEF Undisturbed
<1> QED
  BY <1>6, <1>7, <1>8, <1>9 DEF DispatchInv

(* An attempt to switch a device goes to a registered context.             *)
LEMMA SwitchKeeps ==
  ASSUME Configured, DispatchInv, NEW c \in Contexts, NEW s \in Streams, SetStreamContext(c, s)
  PROVE  DispatchInv'
<1>1. DispatchTyped /\ Registered /\ InOrder /\ Undisturbed
  BY DEF DispatchInv
<1>2. /\ job[c][s] = "running"
      /\ UNCHANGED <<step, waiting, queue, expected, succeeded, gone, late>>
  BY DEF SetStreamContext
<1>3. PICK next \in {"ok", "failed", "running"} :
        /\ job' = [job EXCEPT ![c][s] = next]
        /\ context' = [context EXCEPT ![s] = c] \/ (context' = context /\ next = "failed")
        /\ acked \subseteq acked'
        /\ next = "ok" => <<s, c>> \in acked' /\ context' = [context EXCEPT ![s] = c]
  <2>1. [job EXCEPT ![c][s] = "running"] = job
    BY <1>1, <1>2, KindNames DEF DispatchTyped
  <2> QED
    BY <2>1 DEF SetStreamContext
<1>4. s \in Kinds /\ s # "expect" /\ next \in JobState
  BY KindNames DEF JobState
<1>5. /\ job' \in [Contexts -> [Kinds -> JobState]]
      /\ \A d \in Contexts, j \in Kinds : job'[d][j] = IF d = c /\ j = s THEN next ELSE job[d][j]
  BY <1>1, <1>3, <1>4, JobMoves
<1>6. <<s, c>> \in expected /\ \A d \in Contexts : job'[d]["expect"] = job[d]["expect"]
  BY <1>1, <1>2, <1>4, <1>5, KindNames DEF Registered
<1>7. context' \in [Streams -> Nat]
      /\ \A t \in Streams : context'[t] = context[t] \/ (t = s /\ context'[t] = c)
  BY <1>1, <1>3, KindNames DEF DispatchTyped
<1>8. DispatchTyped'
  BY <1>1, <1>2, <1>5, <1>7 DEF DispatchTyped
<1>9. Registered'
  <2>1. \A d \in Contexts, t \in Streams : job'[d][t] # "none" => job[d][t] # "none"
    BY <1>2, <1>5, KindNames
  <2>2. \A d \in Contexts, t \in Streams : job'[d][t] # "none" =>
            <<t, d>> \in expected' /\ job'[d]["expect"] = "ok"
    BY <1>1, <1>2, <1>6, <2>1 DEF Registered
  <2>3. ExpectBeforeSwitch'
    BY <1>1, <1>2, <1>6, <1>7 DEF Registered, ExpectBeforeSwitch
  <2>4. \A d \in Contexts, t \in Streams : job'[d][t] = "ok" => <<t, d>> \in acked'
    BY <1>1, <1>3, <1>5, KindNames DEF Registered
  <2> QED
    BY <2>2, <2>3, <2>4 DEF Registered
<1>10. InOrder'
  <2>1. ~(c > step)
    BY <1>1, <1>2, <1>4 DEF InOrder
  <2>2. \A d \in Contexts, j \in Kinds : d > step => job'[d][j] = "none"
    BY <1>1, <1>5, <2>1 DEF InOrder
  <2>3. \A d \in succeeded : d # c /\ d \in Contexts /\ d <= step /\ \A t \in Streams : job[d][t] = "ok"
    BY <1>1, <1>2 DEF InOrder
  <2>4. \A d \in succeeded : d \in Contexts /\ d <= step /\ \A t \in Streams : job'[d][t] = "ok"
    BY <1>5, <2>3, KindNames
  <2> QED
    BY <1>2, <2>2, <2>4 DEF InOrder
<1>11. Undisturbed'
  <2> SUFFICES ASSUME gone = {}
               PROVE  /\ \A d \in Contexts, k \in Kinds : Busy(d, k)' => d = step /\ waiting = TRUE
                      /\ \A d \in Contexts, t \in Streams : job'[d][t] = "ok" /\ d = step => context'[t] = step
    BY <1>2 DEF Undisturbed
  <2>1. c = step /\ waiting = TRUE
    BY <1>1, <1>2, <1>4 DEF Undisturbed, Busy
  <2>2. \A d \in Contexts, k \in Kinds : Busy(d, k)' => d = step
    BY <1>1, <1>5, <2>1 DEF Undisturbed, Busy
  <2>3. ASSUME NEW t \in Streams, job'[step][t] = "ok" PROVE context'[t] = step
    <3>1. CASE t = s
      <4>1. next = "ok"
        BY <1>4, <1>5, <2>1, <2>3, <3>1
      <4> QED
        BY <1>1, <1>3, <2>1, <3>1, <4>1 DEF DispatchTyped
    <3>2. CASE t # s
      <4>1. job[step][t] = "ok" /\ context'[t] = context[t]
        BY <1>5, <1>7, <2>1, <2>3, <3>2, KindNames
      <4> QED
        BY <1>1, <2>1, <4>1 DEF Undisturbed
    <3> QED
      BY <3>1, <3>2
  <2> QED
    BY <2>1, <2>2, <2>3
<1> QED
  BY <1>8, <1>9, <1>10, <1>11 DEF DispatchInv

(* The poll ends a step that has nothing under way, and calls it a success *)
(* only when every switch was acknowledged.                                *)
LEMMA PollKeeps == ASSUME Configured, DispatchInv, PollSetContext PROVE DispatchInv'
<1>1. DispatchTyped /\ Registered /\ InOrder /\ Undisturbed
  BY DEF DispatchInv
<1>2. /\ waiting = TRUE /\ waiting' = FALSE /\ Finished(step, "expect")
      /\ job[step]["expect"] = "ok" => \A s \in Streams : Finished(step, s)
      /\ succeeded' = IF \E k \in Kinds : job[step][k] \in {"failed", "cancelled"}
                      THEN succeeded ELSE succeeded \cup {step}
      /\ UNCHANGED <<step, job, queue, expected, context, acked, gone, late>>
  BY <1>1 DEF PollSetContext, DispatchTyped
<1>3. step \in Contexts /\ step \in Nat
  BY <1>1, <1>2 DEF DispatchTyped
<1>4. DispatchTyped'
  BY <1>1, <1>2 DEF DispatchTyped
<1>5. Registered'
  BY <1>1, <1>2 DEF Registered, ExpectBeforeSwitch
<1>6. InOrder'
  <2>1. ASSUME \A k \in Kinds : job[step][k] \notin {"failed", "cancelled"}
        PROVE  \A s \in Streams : job[step][s] = "ok"
    <3>1. job[step]["expect"] = "ok"
      BY <1>2, <2>1, KindNames DEF Finished, Done
    <3> QED
      BY <1>2, <2>1, <3>1, KindNames DEF Finished, Done
  <2>2. \A c \in succeeded' : c \in Contexts /\ c <= step /\ \A s \in Streams : job[c][s] = "ok"
    BY <1>1, <1>2, <1>3, <2>1 DEF InOrder
  <2> QED
    BY <1>1, <1>2, <2>2 DEF InOrder
<1>7. Undisturbed'
  <2>1. \A s \in Streams : job[step][s] = "none" \/ Finished(step, s)
    BY <1>1, <1>2, <1>3 DEF Registered
  <2>2. \A k \in Kinds : ~Busy(step, k)
    BY <1>2, <2>1, KindNames DEF Busy, Finished, Done
  <2> QED
    BY <1>1, <1>2, <2>2 DEF Undisturbed, Busy
<1> QED
  BY <1>4, <1>5, <1>6, <1>7 DEF DispatchInv

(* Giving up a step takes back what no worker has begun.                   *)
LEMMA CancelKeeps == ASSUME Configured, DispatchInv, Cancel PROVE DispatchInv'
<1>1. DispatchTyped /\ Registered /\ InOrder /\ Undisturbed
  BY DEF DispatchInv
<1>2. /\ waiting = TRUE /\ waiting' = FALSE /\ gone' = gone \cup {step}
      /\ job' = [job EXCEPT ![step] =
                   [k \in Kinds |-> IF job[step][k] = "queued" THEN "cancelled" ELSE job[step][k]]]
      /\ UNCHANGED <<step, queue, expected, context, acked, succeeded, late>>
  BY <1>1 DEF Cancel, DispatchTyped
<1>3. step \in Contexts
  BY <1>1, <1>2 DEF DispatchTyped
<1>4. /\ job' \in [Contexts -> [Kinds -> JobState]]
      /\ \A d \in Contexts, k \in Kinds :
            job'[d][k] = IF d = step /\ job[d][k] = "queued" THEN "cancelled" ELSE job[d][k]
  BY <1>1, <1>2, <1>3 DEF DispatchTyped, JobState
<1>5. \A d \in Contexts, k \in Kinds : /\ job'[d][k] = "none" <=> job[d][k] = "none"
                                       /\ job'[d][k] = "ok" <=> job[d][k] = "ok"
  BY <1>4
<1>6. DispatchTyped'
  BY <1>1, <1>2, <1>4 DEF DispatchTyped
<1>7. Registered'
  BY <1>1, <1>2, <1>5, KindNames DEF Registered, ExpectBeforeSwitch
<1>8. InOrder'
  BY <1>1, <1>2, <1>5, KindNames DEF InOrder
<1>9. Undisturbed'
  BY <1>2 DEF Undisturbed
<1> QED
  BY <1>6, <1>7, <1>8, <1>9 DEF DispatchInv

-----------------------------------------------------------------------------

(* In every behaviour of the dispatch, whatever the pool interleaves and   *)
(* whenever a step is given up: no device stamps frames with a context the *)
(* HDF writer was not told to expect, and a set_context step ends well     *)
(* only when all of its streams acknowledged it (_begin_set_context,       *)
(* _poll_set_context).                                                     *)
THEOREM DispatchIsSound == ASSUME Configured PROVE Spec => []DispatchSound
<1>1. Init => DispatchInv
  BY InitDispatch
<1>2. DispatchInv /\ [Next]_dispatchVars => DispatchInv'
  <2> SUFFICES ASSUME DispatchInv, [Next]_dispatchVars PROVE DispatchInv'
    OBVIOUS
  <2>1. CASE BeginSetContext
    BY <2>1, BeginKeeps
  <2>2. CASE Take
    BY <2>2, TakeKeeps
  <2>3. CASE PollSetContext
    BY <2>3, PollKeeps
  <2>4. CASE Cancel
    BY <2>4, CancelKeeps
  <2>5. CASE \E c \in Contexts : ExpectStreams(c)
    BY <2>5, ExpectKeeps
  <2>6. CASE \E c \in Contexts : ExpectFails(c)
    BY <2>6, ExpectFailsKeeps
  <2>7. CASE \E c \in Contexts : \E s \in Streams : SetStreamContext(c, s)
    BY <2>7, SwitchKeeps
  <2>8. CASE UNCHANGED dispatchVars
    BY <2>8 DEF dispatchVars, DispatchInv, DispatchTyped, Registered, ExpectBeforeSwitch, InOrder,
                Undisturbed, Busy
  <2> QED
    BY <2>1, <2>2, <2>3, <2>4, <2>5, <2>6, <2>7, <2>8 DEF Next
<1>3. DispatchInv => DispatchSound
  <2> SUFFICES ASSUME DispatchInv PROVE SuccessMeansAcknowledged
    BY DEF DispatchInv, Registered, DispatchSound
  <2>1. \A c \in succeeded, s \in Streams : c \in Contexts /\ job[c][s] = "ok"
    BY DEF DispatchInv, InOrder
  <2> QED
    BY <2>1 DEF DispatchInv, Registered, Undisturbed, SuccessMeansAcknowledged
<1> QED
  BY <1>1, <1>2, <1>3, PTL DEF Spec

-----------------------------------------------------------------------------
(* Automatic reconnection *)

Triggers == {"degraded", "telemetry_stale", "none"}
DriverType == [state : {"STARTING", "RUNNING", "FAILED"}, gen : Int, since : Int,
               beat : Int, health : {"none", "OK", "DEGRADED"}]
RecType == [attempts : Int, lastAttempt : Int, lastSuccess : Int, healthySince : Int,
            degradedSince : Int, waiting : BOOLEAN, suppressed : BOOLEAN,
            pending : BOOLEAN, lastTrigger : Triggers]
TaskType == [kind : {"reconnect", "restart"}, gen : Int, trigger : Triggers]

ReconnectTyped ==
            /\ clock \in Int
            /\ driver \in DriverType
            /\ telemetry \in [recv : Int, ok : BOOLEAN]
            /\ rec \in RecType
            /\ tasks \in Seq(TaskType)
            /\ worker \in {Recon!Idle} \cup [pc : {"rpc"}, gen : Int] \cup [pc : {"stamp"}]
            /\ lock \in {"free", "recovery"}
            /\ open \in BOOLEAN

(* RecoveryOwned, said case by case.                                       *)
Claimed(r, todo, w) ==
    \/ r.pending = FALSE /\ todo = <<>> /\ w = Recon!Idle
    \/ r.pending = TRUE /\ (todo # <<>> \/ w # Recon!Idle)

OneAtMost(todo, w) == todo = <<>> \/ (Len(todo) = 1 /\ w = Recon!Idle)

OwnRun == worker.pc = "rpc" => driver.gen = worker.gen /\ driver.state = "RUNNING"

(* The lock is held exactly while the RPCs run; a closed executor has      *)
(* nothing queued.                                                         *)
RInv ==
    /\ ReconnectTyped
    /\ open => Claimed(rec, tasks, worker)
    /\ OneAtMost(tasks, worker)
    /\ OwnRun
    /\ lock = "recovery" <=> worker.pc = "rpc"
    /\ ~open => tasks = <<>>

-----------------------------------------------------------------------------
(* What the decision of the main loop leaves alone.                        *)

(* _reset_auto_reconnect_if_healthy and the note of a degraded device      *)
(* touch neither the claim nor the shape of the record.                    *)
LEMMA BookkeepingKeepsClaim ==
  ASSUME ReconnectTyped, NEW r \in RecType, NEW d \in DriverType
  PROVE  /\ Recon!ResetIfHealthy(r, d) \in RecType /\ Recon!ResetIfHealthy(r, d).pending = r.pending
         /\ Recon!NoteDegraded(r, d) \in RecType /\ Recon!NoteDegraded(r, d).pending = r.pending
<1>1. clock \in Int /\ Recon!Never \in Int
  BY DEF ReconnectTyped, Recon!Never
<1>2. Recon!NoteDegraded(r, d) \in RecType /\ Recon!NoteDegraded(r, d).pending = r.pending
  BY <1>1 DEF Recon!NoteDegraded, RecType
<1>3. Recon!ResetIfHealthy(r, d) \in RecType /\ Recon!ResetIfHealthy(r, d).pending = r.pending
  <2> DEFINE seen == [r EXCEPT !.degradedSince = IF OnDegraded # Recon!Never THEN Recon!Never ELSE @]
  <2>1. seen \in RecType /\ seen.pending = r.pending
    BY <1>1 DEF RecType
  <2>2. \/ Recon!ResetIfHealthy(r, d) = r
        \/ Recon!ResetIfHealthy(r, d) = [r EXCEPT !.healthySince = Recon!Never]
        \/ Recon!ResetIfHealthy(r, d) = [seen EXCEPT !.healthySince = clock, !.waiting = FALSE]
        \/ Recon!ResetIfHealthy(r, d) = [seen EXCEPT !.attempts = 0, !.suppressed = FALSE]
        \/ Recon!ResetIfHealthy(r, d) = seen
    BY DEF Recon!ResetIfHealthy
  <2> HIDE DEF seen
  <2>3. /\ [r EXCEPT !.healthySince = Recon!Never] \in RecType
        /\ [r EXCEPT !.healthySince = Recon!Never].pending = r.pending
    BY <1>1 DEF RecType
  <2>4. /\ [seen EXCEPT !.healthySince = clock, !.waiting = FALSE] \in RecType
        /\ [seen EXCEPT !.healthySince = clock, !.waiting = FALSE].pending = r.pending
    BY <1>1, <2>1 DEF RecType
  <2>5. /\ [seen EXCEPT !.attempts = 0, !.suppressed = FALSE] \in RecType
        /\ [seen EXCEPT !.attempts = 0, !.suppressed = FALSE].pending = r.pending
    <3> DEFINE zeroed == [seen EXCEPT !.attempts = 0]
    <3>1. zeroed \in RecType /\ zeroed.pending = r.pending
      BY <2>1 DEF RecType
    <3> HIDE DEF zeroed
    <3>2. /\ [zeroed EXCEPT !.suppressed = FALSE] \in RecType
          /\ [zeroed EXCEPT !.suppressed = FALSE].pending = r.pending
      BY <3>1 DEF RecType
    <3> QED
      BY <3>2 DEF zeroed
  <2> QED
    BY <2>1, <2>2, <2>3, <2>4, <2>5
<1> QED
  BY <1>2, <1>3

(* The claim is taken only when it is free, and together with the work.    *)
LEMMA DecisionOwned ==
  ASSUME RInv, NEW d \in DriverType, Recon!MaybeAutoReconnect(d), open' = open, worker' = worker
  PROVE  /\ rec' \in RecType /\ tasks' \in Seq(TaskType)
         /\ open => Claimed(rec', tasks', worker)
         /\ OneAtMost(tasks', worker)
         /\ ~open => tasks' = <<>>
<1> DEFINE healed == Recon!ResetIfHealthy(rec, d)
           r == IF Recon!Watched(d) THEN Recon!NoteDegraded(healed, d) ELSE healed
           verdict == Recon!Verdict(r, d)
<1>1. /\ ReconnectTyped /\ rec \in RecType /\ clock \in Int /\ open \in BOOLEAN
      /\ tasks \in Seq(TaskType) /\ OneAtMost(tasks, worker)
      /\ open => Claimed(rec, tasks, worker)
  BY DEF RInv, ReconnectTyped
<1>2. r \in RecType /\ r.pending = rec.pending
  BY <1>1, BookkeepingKeepsClaim
<1>3. \/ verdict = "attempt" /\ Recon!Attempt(r, d)
      \/ verdict = "restart_driver" /\ Recon!ScheduleRestart(r, d)
      \/ /\ verdict \notin {"attempt", "restart_driver"}
         /\ rec' = [r EXCEPT !.suppressed = @ \/ verdict = "suppressed"]
         /\ UNCHANGED tasks
  BY DEF Recon!MaybeAutoReconnect
<1>4. verdict \in {"attempt", "restart_driver"} => r.pending = FALSE
  <2>1. r.pending \in BOOLEAN
    BY <1>2 DEF RecType
  <2> QED
    BY <2>1 DEF Recon!Verdict
<1> HIDE DEF r, verdict
<1>5. Recon!Trigger(r) \in Triggers /\ r.lastTrigger \in Triggers /\ d.gen \in Int
  BY <1>2 DEF Recon!Trigger, Triggers, RecType, DriverType
<1>6. ASSUME NEW task \in TaskType, r.pending = FALSE, tasks' = Recon!Submitted(task),
             rec' \in RecType, rec'.pending = open
      PROVE  /\ tasks' \in Seq(TaskType)
             /\ open => Claimed(rec', tasks', worker)
             /\ OneAtMost(tasks', worker)
             /\ ~open => tasks' = <<>>
  <2>1. CASE open
    <3>1. tasks = <<>> /\ worker = Recon!Idle
      BY <1>1, <1>2, <1>6, <2>1 DEF Claimed
    <3>2. tasks' = <<task>>
      BY <1>1, <1>6, <2>1, <3>1 DEF Recon!Submitted
    <3> QED
      BY <1>6, <2>1, <3>1, <3>2 DEF Claimed, OneAtMost
  <2>2. CASE ~open
    <3>1. tasks' = tasks /\ tasks = <<>>
      BY <1>6, <2>2 DEF Recon!Submitted, RInv
    <3> QED
      BY <1>1, <2>2, <3>1 DEF OneAtMost
  <2> QED
    BY <1>1, <2>1, <2>2
<1>7. CASE verdict = "attempt" /\ Recon!Attempt(r, d)
  <2>1. rec' \in RecType /\ rec'.pending = open
    <3> DEFINE once == [r EXCEPT !.attempts = @ + 1]
    <3> DEFINE counted == [once EXCEPT !.lastAttempt = clock]
    <3> DEFINE cleared == [counted EXCEPT !.suppressed = FALSE]
    <3> DEFINE claimed == [cleared EXCEPT !.pending = open]
    <3>1. counted \in RecType
      <4>1. once \in RecType
        BY <1>2 DEF RecType
      <4> HIDE DEF once
      <4> QED
        BY <1>1, <4>1 DEF RecType
    <3>2. cleared \in RecType
      BY <3>1 DEF RecType
    <3>3. claimed \in RecType /\ claimed.pending = open
      BY <1>1, <3>2 DEF RecType
    <3>4. rec' = [claimed EXCEPT !.lastTrigger = Recon!Trigger(r)]
      BY <1>7 DEF Recon!Attempt
    <3> HIDE DEF claimed
    <3> QED
      BY <1>5, <3>3, <3>4 DEF RecType
  <2>2. Recon!Task("reconnect", d, Recon!Trigger(r)) \in TaskType
    BY <1>5 DEF Recon!Task, TaskType
  <2> QED
    BY <1>4, <1>6, <1>7, <2>1, <2>2 DEF Recon!Attempt
<1>8. CASE verdict = "restart_driver" /\ Recon!ScheduleRestart(r, d)
  <2>1. rec' \in RecType /\ rec'.pending = open
    BY <1>1, <1>2, <1>8 DEF Recon!ScheduleRestart, RecType
  <2>2. Recon!Task("restart", d, r.lastTrigger) \in TaskType
    BY <1>5 DEF Recon!Task, TaskType
  <2> QED
    BY <1>4, <1>6, <1>8, <2>1, <2>2 DEF Recon!ScheduleRestart
<1>9. CASE /\ rec' = [r EXCEPT !.suppressed = @ \/ verdict = "suppressed"]
           /\ UNCHANGED tasks
  <2>1. rec' \in RecType /\ rec'.pending = rec.pending
    BY <1>2, <1>9 DEF RecType
  <2> QED
    BY <1>1, <1>9, <2>1 DEF Claimed, RInv
<1> QED
  BY <1>3, <1>7, <1>8, <1>9

-----------------------------------------------------------------------------
(* The steps.                                                              *)

(* A manager that has just started has nothing to recover.                 *)
LEMMA InitRInv == Recon!Init => RInv
<1> SUFFICES ASSUME Recon!Init PROVE RInv
  OBVIOUS
<1>1. Recon!Never \in Int
  BY DEF Recon!Never
<1>2. rec \in RecType /\ rec.pending = FALSE
  BY <1>1 DEF Recon!Init, RecType, Triggers
<1>3. driver \in DriverType /\ telemetry \in [recv : Int, ok : BOOLEAN]
  BY <1>1 DEF Recon!Init, DriverType
<1>4. worker = Recon!Idle /\ worker.pc = "idle" /\ lock = "free" /\ tasks = <<>> /\ open
      /\ clock \in Int
  BY DEF Recon!Init, Recon!Idle
<1>5. ReconnectTyped
  BY <1>2, <1>3, <1>4 DEF ReconnectTyped, Recon!Init
<1> QED
  BY <1>2, <1>4, <1>5 DEF RInv, Claimed, OneAtMost, OwnRun

(* Clock, heartbeats, telemetry, registration and the operator.            *)
LEMMA OutsideRInv ==
  ASSUME RInv,
         \/ Recon!Tick \/ Recon!Register \/ Recon!OperatorRestarts \/ Recon!ManagerCloses
         \/ \E h \in {"OK", "DEGRADED"} : Recon!Beat(h)
         \/ \E ok \in BOOLEAN : Recon!Bundle(ok)
         \/ UNCHANGED Recon!reconnectVars
  PROVE  RInv'
<1>1. ReconnectTyped /\ driver \in DriverType /\ clock \in Int /\ Recon!Never \in Int
  BY DEF RInv, ReconnectTyped, Recon!Never
<1>2. CASE Recon!Tick
  BY <1>1, <1>2 DEF Recon!Tick, RInv, ReconnectTyped, OwnRun, Claimed, OneAtMost
<1>3. CASE Recon!Register
  <2>1. driver.state = "STARTING" /\ driver'.gen = driver.gen /\ driver' \in DriverType
    BY <1>1, <1>3 DEF Recon!Register, DriverType
  <2> QED
    BY <1>1, <1>3, <2>1 DEF Recon!Register, RInv, ReconnectTyped, OwnRun, Claimed, OneAtMost
<1>4. CASE Recon!OperatorRestarts
  <2>1. driver' \in DriverType
    BY <1>1, <1>4 DEF Recon!OperatorRestarts, Recon!Launched, DriverType
  <2> QED
    BY <1>1, <1>4, <2>1 DEF Recon!OperatorRestarts, RInv, ReconnectTyped, OwnRun, Claimed, OneAtMost
<1>5. CASE Recon!ManagerCloses
  <2>1. tasks' = <<>> /\ tasks' \in Seq(TaskType) /\ open' = FALSE
    BY <1>5 DEF Recon!ManagerCloses
  <2>2. ReconnectTyped'
    BY <1>1, <1>5, <2>1 DEF Recon!ManagerCloses, ReconnectTyped
  <2>3. OneAtMost(tasks, worker)' /\ OwnRun'
    BY <1>5, <2>1 DEF Recon!ManagerCloses, RInv, OwnRun, OneAtMost
  <2> QED
    BY <1>5, <2>1, <2>2, <2>3 DEF Recon!ManagerCloses, RInv
<1>6. ASSUME NEW h \in {"OK", "DEGRADED"}, Recon!Beat(h) PROVE RInv'
  <2>1. /\ driver'.state = driver.state /\ driver'.gen = driver.gen
        /\ driver' \in DriverType
    BY <1>1, <1>6 DEF Recon!Beat, DriverType
  <2> QED
    BY <1>1, <1>6, <2>1 DEF Recon!Beat, RInv, ReconnectTyped, OwnRun, Claimed, OneAtMost
<1>7. ASSUME NEW ok \in BOOLEAN, Recon!Bundle(ok) PROVE RInv'
  BY <1>1, <1>7 DEF Recon!Bundle, RInv, ReconnectTyped, OwnRun, Claimed, OneAtMost
<1>8. CASE UNCHANGED Recon!reconnectVars
  BY <1>1, <1>8 DEF Recon!reconnectVars, RInv, ReconnectTyped, OwnRun, Claimed, OneAtMost
<1> QED
  BY <1>2, <1>3, <1>4, <1>5, <1>6, <1>7, <1>8

(* The main loop's pass over the device.                                   *)
LEMMA SuperviseRInv == RInv /\ Recon!Supervise => RInv'
<1> SUFFICES ASSUME RInv, Recon!Supervise PROVE RInv'
  OBVIOUS
<1> DEFINE d == Recon!AfterSupervision(driver)
<1>1. /\ ReconnectTyped /\ driver \in DriverType /\ Recon!Never \in Int
      /\ UNCHANGED <<clock, telemetry, worker, lock, open>> /\ lock = "free"
  BY DEF RInv, ReconnectTyped, Recon!Never, Recon!Supervise
<1>2. d \in DriverType
  <2>1. [driver EXCEPT !.state = "FAILED", !.since = Recon!Never] \in DriverType
    BY <1>1 DEF DriverType
  <2>2. Recon!Launched(driver) \in DriverType
    BY <1>1 DEF Recon!Launched, DriverType
  <2> QED
    BY <1>1, <2>1, <2>2 DEF Recon!AfterSupervision
<1>3. driver' = d /\ Recon!MaybeAutoReconnect(d)
  BY DEF Recon!Supervise
<1> HIDE DEF d
<1>4. /\ rec' \in RecType /\ tasks' \in Seq(TaskType)
      /\ open => Claimed(rec', tasks', worker)
      /\ OneAtMost(tasks', worker)
      /\ ~open => tasks' = <<>>
  BY <1>1, <1>2, <1>3, DecisionOwned
<1>5. ReconnectTyped'
  BY <1>1, <1>2, <1>3, <1>4 DEF ReconnectTyped
<1>6. OwnRun'
  BY <1>1 DEF OwnRun, RInv
<1> QED
  BY <1>1, <1>4, <1>5, <1>6 DEF RInv, Claimed, OneAtMost

(* The worker, which gives the claim back wherever it ends.                *)
LEMMA RecoveryRInv == RInv /\ Recon!Recovery => RInv'
<1> SUFFICES ASSUME RInv, Recon!Recovery PROVE RInv'
  OBVIOUS
<1>1. /\ ReconnectTyped /\ driver \in DriverType /\ rec \in RecType
      /\ clock \in Int /\ Recon!Never \in Int /\ tasks \in Seq(TaskType) /\ Recon!Idle.pc = "idle"
  BY DEF RInv, ReconnectTyped, Recon!Never, Recon!Idle
<1>2. CASE Recon!TakeUp
  <2> DEFINE task == Head(tasks)
  <2>1. /\ tasks # <<>> /\ worker = Recon!Idle /\ lock = "free" /\ tasks' = Tail(tasks)
        /\ UNCHANGED <<clock, telemetry, open>>
    BY <1>2 DEF Recon!TakeUp
  <2>2. task \in TaskType /\ Len(tasks) <= 1 /\ tasks' \in Seq(TaskType) /\ open
    BY <1>1, <2>1 DEF Claimed, OneAtMost, RInv, ReconnectTyped
  <2>3. tasks' = <<>>
    BY <1>1, <2>1, <2>2
  <2>4. ASSUME worker' = Recon!Idle, lock' = "free", rec' \in RecType, rec'.pending = FALSE,
               driver' \in DriverType
        PROVE  RInv'
    BY <1>1, <2>1, <2>2, <2>3, <2>4 DEF RInv, ReconnectTyped, OwnRun, Claimed, OneAtMost
  <2>5. CASE Recon!Cancelled
    BY <1>1, <2>4, <2>5 DEF Recon!Cancelled, RecType
  <2>6. CASE Recon!Escalate
    <3>1. rec' \in RecType /\ rec'.pending = FALSE
      BY <1>1, <2>6 DEF Recon!Escalate, RecType
    <3>2. driver' \in DriverType
      BY <1>1, <2>6 DEF Recon!Escalate, DriverType
    <3> QED
      BY <2>4, <2>6, <3>1, <3>2 DEF Recon!Escalate
  <2>7. CASE /\ Recon!TriggerActive(task) /\ worker' = [pc |-> "rpc", gen |-> task.gen]
             /\ lock' = "recovery" /\ UNCHANGED <<rec, driver>>
    <3>1. driver.gen = task.gen /\ driver.state = "RUNNING" /\ task.gen \in Int
      BY <2>2, <2>7 DEF Recon!TriggerActive, TaskType
    <3>2. worker'.pc = "rpc" /\ worker'.gen = task.gen /\ worker' # Recon!Idle
      BY <2>7 DEF Recon!Idle
    <3>3. rec.pending = TRUE
      BY <1>1, <2>1, <2>2 DEF RInv, Claimed
    <3>4. ReconnectTyped'
      BY <1>1, <2>1, <2>2, <2>7, <3>1 DEF ReconnectTyped
    <3>5. OwnRun' /\ Claimed(rec, tasks, worker)' /\ OneAtMost(tasks, worker)'
      BY <2>1, <2>2, <2>3, <2>7, <3>1, <3>2, <3>3 DEF OwnRun, Claimed, OneAtMost
    <3> QED
      BY <2>3, <2>7, <3>2, <3>4, <3>5 DEF RInv
  <2> QED
    BY <1>2, <2>5, <2>6, <2>7 DEF Recon!TakeUp
<1>3. CASE Recon!RpcFails
  <2>1. /\ rec' \in RecType /\ rec'.pending = FALSE
    BY <1>1, <1>3 DEF Recon!RpcFails, RecType
  <2>2. tasks = <<>>
    BY <1>1, <1>3 DEF Recon!RpcFails, RInv, OneAtMost
  <2> QED
    BY <1>1, <1>3, <2>1, <2>2 DEF Recon!RpcFails, RInv, ReconnectTyped, OwnRun, Claimed, OneAtMost
<1>4. CASE Recon!RpcSucceeds
  <2>1. worker'.pc = "stamp" /\ worker' # Recon!Idle /\ worker # Recon!Idle /\ worker' \in [pc : {"stamp"}]
    BY <1>1, <1>4 DEF Recon!RpcSucceeds, Recon!Idle
  <2> QED
    BY <1>1, <1>4, <2>1 DEF Recon!RpcSucceeds, RInv, ReconnectTyped, OwnRun, Claimed, OneAtMost
<1>5. CASE Recon!StampSuccess
  <2>1. /\ rec' \in RecType /\ rec'.pending = FALSE
    BY <1>1, <1>5 DEF Recon!StampSuccess, RecType
  <2>2. tasks = <<>> /\ lock = "free"
    BY <1>1, <1>5 DEF Recon!StampSuccess, OneAtMost, RInv, ReconnectTyped
  <2> QED
    BY <1>1, <1>5, <2>1, <2>2 DEF Recon!StampSuccess, RInv, ReconnectTyped, OwnRun, Claimed, OneAtMost
<1> QED
  BY <1>2, <1>3, <1>4, <1>5 DEF Recon!Recovery

-----------------------------------------------------------------------------
(* The theorem.                                                            *)

(* auto_reconnect_pending is held exactly while one piece of recovery work *)
(* is queued or under way, and a worker that talks to the device does so   *)
(* with the very run of the driver it was queued for: for every            *)
(* configuration of the recovery, however long the manager runs.           *)
THEOREM RecoveryAlwaysOwned == Recon!Spec => []Recon!RecoveryOwned
<1>1. RInv /\ [Recon!Next]_(Recon!reconnectVars) => RInv'
  BY OutsideRInv, SuperviseRInv, RecoveryRInv DEF Recon!Next
<1>2. RInv => Recon!RecoveryOwned
  <2> SUFFICES ASSUME RInv PROVE Recon!RecoveryOwned
    OBVIOUS
  <2>1. open => rec.pending = (tasks # <<>> \/ worker # Recon!Idle)
    BY DEF RInv, Claimed
  <2>2. Len(tasks) + (IF worker = Recon!Idle THEN 0 ELSE 1) <= 1
    <3>1. OneAtMost(tasks, worker) /\ (tasks = <<>> => Len(tasks) = 0)
      BY EmptySeq DEF RInv
    <3>2. CASE Len(tasks) = 0
      BY <3>2
    <3>3. CASE Len(tasks) = 1 /\ worker = Recon!Idle
      BY <3>3
    <3> QED
      BY <3>1, <3>2, <3>3 DEF OneAtMost
  <2> QED
    BY <2>1, <2>2 DEF Recon!RecoveryOwned, RInv, OwnRun
<1> QED
  BY <1>1, <1>2, InitRInv, PTL DEF Recon!Spec

-----------------------------------------------------------------------------
(* The gateway's RPC client *)

Answers == {"none", "gateway_busy", "gateway_timeout", "gateway_closed", "gateway_error",
            "absent", "unregistered", "registered", "ok", "failed"}
CallerType == [kind : Gateway!Kinds, step : {"idle", "lookup", "main", "retry"}, fut : Nat,
               answer : Answers, of : Nat]
RequestType == [fut : Nat, id : Nat]
Owners == Callers \ Reusing

RpcTyped ==
       /\ caller \in [Callers -> CallerType] /\ made \in Nat
       /\ submitted \in Seq(RequestType) /\ router \in SUBSET RequestType
       /\ worker \in {"run", "ended"} /\ thread \in {"started", "none"}
       /\ stopping \in BOOLEAN /\ closing \in BOOLEAN

Waiting(c) == caller[c].step # "idle" /\ caller[c].answer = "none"

(* A handler that waits has a future, each future has been made, and no two     *)
(* handlers have the same.                                                      *)
FuturesDistinct ==
    /\ \A c \in Callers : caller[c].fut <= made /\ (Waiting(c) => caller[c].fut # 0)
    /\ \A c, d \in Callers : caller[c].fut = caller[d].fut /\ caller[c].fut # 0 => c = d

(* A future is filed under its own number, or under an id that a client chose,  *)
(* and then it is not the future of a handler that lets the gateway choose.     *)
Filed(id, t) ==
    /\ t \in 1..made
    /\ id = t \/ (id = 0 /\ \A c \in Owners : caller[c].fut # t)
FiledRight ==
    /\ \A i \in DOMAIN submitted : Filed(submitted[i].id, submitted[i].fut)
    /\ \A id \in DOMAIN pending : Filed(id, pending[id])
    /\ \A q \in router : Filed(q.id, q.fut)

Queued(c) == \E i \in DOMAIN submitted : submitted[i].fut = caller[c].fut

(* While the worker runs, whoever waits is in its queue or in flight; while the *)
(* event loop is inside close() there is nothing in the queue.  And a worker    *)
(* that ended within close() has left nobody.                                   *)
Tracked == worker = "run" => \A c \in Owners : Waiting(c) => Queued(c) \/ caller[c].fut \in DOMAIN pending
ClosedRight ==
    /\ worker = "ended" => stopping = TRUE
    /\ closing = TRUE => submitted = <<>> /\ stopping = TRUE
    /\ closing = TRUE /\ worker = "ended" => \A c \in Owners : ~Waiting(c)
    /\ thread = "none" => worker = "ended" /\ \A c \in Owners : ~Waiting(c)

RpcInv == RpcTyped /\ FuturesDistinct /\ Gateway!ReplyIsOwn /\ FiledRight /\ Tracked /\ ClosedRight

-----------------------------------------------------------------------------
(* What a step does to the handlers.                                            *)

(* _set_future_result resolves the open futures of T, and nothing else.         *)
LEMMA ResolvedOutcome ==
  ASSUME RpcTyped, NEW T, NEW what \in Answers \ {"none"}, NEW of \in Nat,
         caller' = Gateway!Resolved(T, what, of)
  PROVE  /\ caller' \in [Callers -> CallerType]
         /\ \A c \in Callers :
              /\ caller'[c].fut = caller[c].fut
              /\ caller'[c].of = caller[c].of \/ (caller'[c].of = of /\ caller[c].fut \in T)
              /\ Waiting(c)' => Waiting(c) /\ caller[c].fut \notin T
<1>1. SUFFICES ASSUME NEW c \in Callers
               PROVE  /\ caller'[c] \in CallerType
                      /\ caller'[c].fut = caller[c].fut
                      /\ caller'[c].of = caller[c].of \/ (caller'[c].of = of /\ caller[c].fut \in T)
                      /\ Waiting(c)' => Waiting(c) /\ caller[c].fut \notin T
  <2>1. caller' = [c \in Callers |-> caller'[c]]
    BY DEF Gateway!Resolved
  <2> QED
    BY <2>1
<1>2. caller[c] \in CallerType
  BY DEF RpcTyped
<1>3. CASE \E t \in T : c \in Gateway!Open(t)
  <2>1. caller'[c] = [caller[c] EXCEPT !.answer = what, !.of = of]
    BY <1>3 DEF Gateway!Resolved
  <2>2. caller[c].fut \in T
    BY <1>3 DEF Gateway!Open
  <2>3. /\ caller'[c] \in CallerType /\ caller'[c].fut = caller[c].fut
        /\ caller'[c].of = of /\ caller'[c].answer = what
    BY <1>2, <2>1 DEF CallerType
  <2> QED
    BY <2>2, <2>3 DEF Waiting
<1>4. CASE ~\E t \in T : c \in Gateway!Open(t)
  <2>1. caller'[c] = caller[c]
    BY <1>4 DEF Gateway!Resolved
  <2>2. Waiting(c) => caller[c].fut \notin T
    BY <1>4 DEF Gateway!Open, Waiting
  <2> QED
    BY <1>2, <2>1, <2>2 DEF Waiting
<1> QED
  BY <1>3, <1>4

(* Requests stay rightly filed while the handlers keep their futures.           *)
LEMMA FilingKept ==
  ASSUME NEW id, NEW t, Filed(id, t), made' = made,
         \A c \in Callers : caller'[c].fut = caller[c].fut
  PROVE  Filed(id, t)'
BY DEF Filed, Owners

(* Answering the futures T, where a router's reply to request `of' goes only    *)
(* to handlers that made it.                                                    *)
LEMMA AnsweringKeeps ==
  ASSUME RpcTyped, FuturesDistinct, Gateway!ReplyIsOwn, made' = made,
         NEW T, NEW what \in Answers \ {"none"}, NEW of \in Nat, caller' = Gateway!Resolved(T, what, of),
         of = 0 \/ \A c \in Owners : caller[c].fut \in T => of = caller[c].fut
  PROVE  caller' \in [Callers -> CallerType] /\ FuturesDistinct' /\ Gateway!ReplyIsOwn'
<1>1. /\ caller' \in [Callers -> CallerType]
      /\ \A c \in Callers : /\ caller'[c].fut = caller[c].fut
                            /\ caller'[c].of = caller[c].of \/ (caller'[c].of = of /\ caller[c].fut \in T)
                            /\ Waiting(c)' => Waiting(c)
  BY ResolvedOutcome
<1>2. FuturesDistinct'
  BY <1>1 DEF FuturesDistinct
<1>3. Gateway!ReplyIsOwn'
  BY <1>1 DEF Gateway!ReplyIsOwn, Owners
<1> QED
  BY <1>1, <1>2, <1>3

(* One handler goes on without a future: it ended, was turned away, or gave up. *)
(* Its next record keeps its future or has none.                                *)
LEMMA HandlerGoesOn ==
  ASSUME RpcInv, NEW c \in Callers, NEW next \in CallerType,
         caller' = [caller EXCEPT ![c] = next], ~(next.step # "idle" /\ next.answer = "none"),
         next.fut = caller[c].fut \/ next.fut = 0, next.of = 0 \/ (next.of = caller[c].of /\ next.fut = caller[c].fut),
         UNCHANGED <<submitted, pending, router, worker, stopping, thread, closing, made>>
  PROVE  RpcInv'
<1>1. RpcTyped /\ FuturesDistinct /\ Gateway!ReplyIsOwn /\ FiledRight /\ Tracked /\ ClosedRight
  BY DEF RpcInv
<1>2. /\ caller' \in [Callers -> CallerType] /\ caller'[c] = next
      /\ \A d \in Callers \ {c} : caller'[d] = caller[d]
  BY <1>1 DEF RpcTyped
<1>3. RpcTyped'
  BY <1>1, <1>2 DEF RpcTyped
<1>4. FuturesDistinct'
  BY <1>1, <1>2 DEF FuturesDistinct, RpcTyped, Waiting
<1>5. Gateway!ReplyIsOwn'
  BY <1>1, <1>2 DEF Gateway!ReplyIsOwn
<1>6. \A id, t : Filed(id, t) => Filed(id, t)'
  BY <1>2 DEF Filed, Owners
<1>7. FiledRight'
  BY <1>1, <1>6 DEF FiledRight
<1>8. \A d \in Callers : Waiting(d)' => Waiting(d) /\ caller'[d] = caller[d]
  BY <1>2 DEF Waiting
<1>9. Tracked'
  BY <1>1, <1>8 DEF Tracked, Queued, Owners
<1>10. ClosedRight'
  BY <1>1, <1>8 DEF ClosedRight, Owners
<1> QED
  BY <1>3, <1>4, <1>5, <1>7, <1>9, <1>10 DEF RpcInv

(* request(): turned away, or queued with a future of its own.                  *)
LEMMA RequestKeeps ==
  ASSUME RpcInv, NEW c \in Callers, NEW st \in CallerType, Gateway!Request(c, st), closing = FALSE,
         st.step # "idle", st.fut = caller[c].fut \/ st.fut = 0,
         UNCHANGED <<pending, router, worker, stopping, thread, closing>>
  PROVE  RpcInv'
<1>1. RpcTyped /\ FuturesDistinct /\ Gateway!ReplyIsOwn /\ FiledRight /\ Tracked /\ ClosedRight
  BY DEF RpcInv
<1>2. CASE worker = "ended"
  <2>1. caller' = [caller EXCEPT ![c] = Gateway!Idle] /\ UNCHANGED <<submitted, made>>
    BY <1>2 DEF Gateway!Request
  <2>2. Gateway!Idle \in CallerType /\ Gateway!Idle.step = "idle" /\ Gateway!Idle.fut = 0 /\ Gateway!Idle.of = 0
    BY DEF Gateway!Idle, CallerType, Gateway!Kinds, Answers
  <2> QED
    BY <2>1, <2>2, HandlerGoesOn
<1>3. CASE worker # "ended" /\ Len(submitted) >= RpcQueueMax
  <2> DEFINE next == [st EXCEPT !.answer = "gateway_busy", !.of = 0]
  <2>1. caller' = [caller EXCEPT ![c] = next] /\ UNCHANGED <<submitted, made>>
    BY <1>3 DEF Gateway!Request
  <2>2. next \in CallerType /\ next.answer = "gateway_busy" /\ next.fut = st.fut /\ next.of = 0
    BY DEF CallerType, Answers
  <2> HIDE DEF next
  <2> QED
    BY <2>1, <2>2, HandlerGoesOn
<1>4. CASE worker # "ended" /\ ~(Len(submitted) >= RpcQueueMax)
  <2> DEFINE t == made + 1
             next == [st EXCEPT !.fut = t, !.answer = "none", !.of = 0]
             item == [fut |-> t, id |-> Gateway!RequestId(c, t)]
  <2>1. /\ made' = t /\ submitted' = Append(submitted, item)
        /\ caller' = [caller EXCEPT ![c] = next]
    BY <1>4 DEF Gateway!Request
  <2>2. made \in Nat /\ t \in Nat /\ t > made /\ t # 0
    BY <1>1 DEF RpcTyped
  <2>3. next \in CallerType /\ next.fut = t /\ next.of = 0
    BY <2>2 DEF CallerType, Answers
  <2>4. /\ item \in RequestType /\ item.fut = t /\ item.id \in {0, t}
        /\ item.id = 0 => c \in Reusing \/ t = 0
    BY <2>2 DEF RequestType, Gateway!RequestId
  <2> HIDE DEF next, item, t
  <2>5. /\ caller' \in [Callers -> CallerType] /\ caller'[c] = next
        /\ \A d \in Callers \ {c} : caller'[d] = caller[d]
    BY <1>1, <2>1, <2>3 DEF RpcTyped
  <2>6. /\ submitted' \in Seq(RequestType) /\ Len(submitted') = Len(submitted) + 1
        /\ submitted'[Len(submitted) + 1] = item
        /\ \A i \in 1..Len(submitted) : submitted'[i] = submitted[i]
        /\ DOMAIN submitted' = 1..(Len(submitted) + 1) /\ DOMAIN submitted = 1..Len(submitted)
        /\ Len(submitted) \in Nat
    BY <1>1, <2>1, <2>4 DEF RpcTyped
  <2>7. RpcTyped'
    BY <1>1, <2>1, <2>2, <2>5, <2>6 DEF RpcTyped
  <2>8. \A d \in Callers : caller[d].fut \in Nat /\ caller[d].fut <= made
    BY <1>1 DEF FuturesDistinct, RpcTyped, CallerType
  <2>9. FuturesDistinct'
    BY <1>1, <2>1, <2>2, <2>3, <2>5, <2>8 DEF FuturesDistinct, Waiting
  <2>10. Gateway!ReplyIsOwn'
    BY <1>1, <2>3, <2>5 DEF Gateway!ReplyIsOwn
  <2>11. \A id, u : Filed(id, u) => Filed(id, u)'
    <3> SUFFICES ASSUME NEW id, NEW u, Filed(id, u) PROVE Filed(id, u)'
      OBVIOUS
    <3>1. u \in 1..made /\ u \in 1..made' /\ u # t
      BY <2>1, <2>2 DEF Filed
    <3>2. \A d \in Owners : caller[d].fut # u => caller'[d].fut # u
      BY <2>3, <2>5, <3>1 DEF Owners
    <3> QED
      BY <3>1, <3>2 DEF Filed
  <2>12. /\ item.fut \in 1..made'
         /\ item.id = item.fut \/ (item.id = 0 /\ \A d \in Owners : caller'[d].fut # item.fut)
    <3>1. t \in 1..made'
      BY <2>1, <2>2
    <3>2. item.id = 0 => \A d \in Owners : caller'[d].fut # t
      BY <2>2, <2>4, <2>5, <2>8 DEF Owners
    <3> QED
      BY <2>4, <3>1, <3>2
  <2>13. FiledRight'
    <3>1. ASSUME NEW i \in DOMAIN submitted' PROVE Filed(submitted[i].id, submitted[i].fut)'
      <4>1. CASE i \in DOMAIN submitted
        BY <1>1, <2>6, <2>11, <4>1 DEF FiledRight
      <4>2. CASE i = Len(submitted) + 1
        BY <2>6, <2>12, <4>2 DEF Filed
      <4> QED
        BY <2>6, <3>1, <4>1, <4>2
    <3> QED
      BY <1>1, <2>11, <3>1 DEF FiledRight
  <2>14. Tracked'
    <3> SUFFICES ASSUME worker = "run", NEW d \in Owners, Waiting(d)'
                 PROVE  Queued(d)' \/ caller'[d].fut \in DOMAIN pending
      BY DEF Tracked
    <3>1. CASE d = c
      BY <2>3, <2>4, <2>5, <2>6, <3>1 DEF Queued
    <3>2. CASE d # c
      <4>1. caller'[d] = caller[d] /\ Waiting(d)
        BY <2>5, <3>2 DEF Waiting, Owners
      <4>2. Queued(d) => Queued(d)'
        BY <2>6, <4>1 DEF Queued
      <4> QED
        BY <1>1, <4>1, <4>2 DEF Tracked
    <3> QED
      BY <3>1, <3>2
  <2>15. ClosedRight'
    BY <1>1, <1>4 DEF ClosedRight, RpcTyped
  <2> QED
    BY <2>7, <2>9, <2>10, <2>13, <2>14, <2>15 DEF RpcInv
<1> QED
  BY <1>2, <1>3, <1>4

(* The handler answers its client.                                              *)
LEMMA DoneKeeps ==
  ASSUME RpcInv, NEW c \in Callers, Gateway!Done(c),
         UNCHANGED <<pending, router, worker, stopping, thread, closing>>
  PROVE  RpcInv'
<1>1. caller' = [caller EXCEPT ![c] = Gateway!Idle] /\ UNCHANGED <<submitted, made>>
  BY DEF Gateway!Done
<1>2. Gateway!Idle \in CallerType /\ Gateway!Idle.step = "idle" /\ Gateway!Idle.fut = 0 /\ Gateway!Idle.of = 0
  BY DEF Gateway!Idle, CallerType, Gateway!Kinds, Answers
<1> QED
  BY <1>1, <1>2, HandlerGoesOn

-----------------------------------------------------------------------------
(* The steps.                                                                   *)

(* No handler, nothing queued, nothing in flight.                               *)
LEMMA InitRpc == Gateway!Init => RpcInv
<1> SUFFICES ASSUME Gateway!Init PROVE RpcInv
  OBVIOUS
<1>1. Gateway!Idle \in CallerType /\ Gateway!Idle.step = "idle" /\ Gateway!Idle.fut = 0 /\ Gateway!Idle.of = 0
  BY DEF Gateway!Idle, CallerType, Gateway!Kinds, Answers
<1>2. \A c \in Callers : caller[c] = Gateway!Idle
  BY DEF Gateway!Init
<1>3. /\ submitted = <<>> /\ pending = <<>> /\ router = {} /\ made = 0
      /\ worker = "run" /\ closing = FALSE /\ thread = "started"
  BY DEF Gateway!Init
<1>4. DOMAIN submitted = {} /\ DOMAIN pending = {}
  BY <1>3
<1>5. RpcTyped
  <2>1. caller \in [Callers -> CallerType]
    BY <1>1 DEF Gateway!Init
  <2>2. submitted \in Seq(RequestType) /\ router \in SUBSET RequestType /\ made \in Nat
    BY <1>3
  <2> QED
    BY <1>3, <2>1, <2>2 DEF Gateway!Init, RpcTyped
<1>6. FuturesDistinct /\ Gateway!ReplyIsOwn
  BY <1>1, <1>2, <1>3 DEF FuturesDistinct, Gateway!ReplyIsOwn, Waiting
<1>7. FiledRight
  BY <1>3, <1>4 DEF FiledRight
<1>8. Tracked /\ ClosedRight
  BY <1>1, <1>2, <1>3 DEF Tracked, ClosedRight, Waiting, Owners
<1> QED
  BY <1>5, <1>6, <1>7, <1>8 DEF RpcInv

(* The handlers on the event loop.                                              *)
LEMMA HandlersRpc ==
  ASSUME RpcInv, NEW c \in Callers, (\E k \in Gateway!Kinds : Gateway!Begin(c, k)) \/ Gateway!SafetyNet(c) \/ Gateway!Resume(c)
  PROVE  RpcInv'
<1>1. caller[c] \in CallerType /\ closing \in BOOLEAN
  BY DEF RpcInv, RpcTyped
<1>2. ASSUME NEW k \in Gateway!Kinds, Gateway!Begin(c, k) PROVE RpcInv'
  <2> DEFINE st == [Gateway!Idle EXCEPT !.kind = k, !.step = IF k \in {"process", "cached"} THEN "lookup" ELSE "main"]
  <2>1. /\ closing = FALSE /\ Gateway!Request(c, st)
        /\ UNCHANGED <<pending, router, worker, stopping, thread, closing>>
    BY <1>1, <1>2 DEF Gateway!Begin
  <2>2. st \in CallerType /\ st.step # "idle" /\ st.fut = 0
    BY <1>2 DEF Gateway!Idle, CallerType, Answers
  <2> HIDE DEF st
  <2> QED
    BY <2>1, <2>2, RequestKeeps
<1>3. CASE Gateway!SafetyNet(c)
  <2> DEFINE next == [caller[c] EXCEPT !.answer = "gateway_timeout"]
  <2>1. /\ caller' = [caller EXCEPT ![c] = next]
        /\ UNCHANGED <<submitted, pending, router, worker, stopping, thread, closing, made>>
    BY <1>3 DEF Gateway!SafetyNet
  <2>2. /\ next \in CallerType /\ next.answer = "gateway_timeout"
        /\ next.fut = caller[c].fut /\ next.of = caller[c].of
    BY <1>1 DEF CallerType, Answers
  <2> HIDE DEF next
  <2> QED
    BY <2>1, <2>2, HandlerGoesOn
<1>4. CASE Gateway!Resume(c)
  <2> DEFINE asked == [caller[c] EXCEPT !.step = "main"]
             again == [caller[c] EXCEPT !.step = "retry"]
  <2>1. /\ closing = FALSE
        /\ UNCHANGED <<pending, router, worker, stopping, thread, closing>>
        /\ Gateway!Request(c, asked) \/ Gateway!Request(c, again) \/ Gateway!Done(c)
    BY <1>1, <1>4 DEF Gateway!Resume
  <2>2. /\ asked \in CallerType /\ asked.step # "idle" /\ asked.fut = caller[c].fut
        /\ again \in CallerType /\ again.step # "idle" /\ again.fut = caller[c].fut
    BY <1>1 DEF CallerType
  <2> HIDE DEF asked, again
  <2> QED
    BY <2>1, <2>2, RequestKeeps, DoneKeeps
<1> QED
  BY <1>2, <1>3, <1>4

(* close(): the queue is answered and the event loop waits for the thread.      *)
LEMMA CloseRpc ==
  ASSUME RpcInv, Gateway!Close \/ Gateway!CloseReturns
  PROVE  RpcInv'
<1>1. RpcTyped /\ FuturesDistinct /\ Gateway!ReplyIsOwn /\ FiledRight /\ Tracked /\ ClosedRight
  BY DEF RpcInv
<1>2. CASE Gateway!Close
  <2> DEFINE T == {submitted[i].fut : i \in DOMAIN submitted}
  <2>1. /\ stopping' = TRUE /\ closing' = TRUE /\ caller' = Gateway!Resolved(T, "gateway_closed", 0)
        /\ submitted' = <<>> /\ UNCHANGED <<pending, router, worker, thread, made>>
        /\ ~stopping
    BY <1>2 DEF Gateway!Close
  <2>2. \A c \in Callers : Queued(c) => caller[c].fut \in T
    BY DEF Queued
  <2> HIDE DEF T
  <2>3. "gateway_closed" \in Answers \ {"none"}
    BY DEF Answers
  <2>4. caller' \in [Callers -> CallerType] /\ FuturesDistinct' /\ Gateway!ReplyIsOwn'
    BY <1>1, <2>1, <2>3, AnsweringKeeps
  <2>5. \A c \in Callers : /\ caller'[c].fut = caller[c].fut
                           /\ Waiting(c)' => Waiting(c) /\ caller[c].fut \notin T
    BY <1>1, <2>1, <2>3, ResolvedOutcome
  <2>6. RpcTyped' /\ DOMAIN submitted' = {}
    BY <1>1, <2>1, <2>4 DEF RpcTyped
  <2>7. FiledRight'
    <3>1. \A id, t : Filed(id, t) => Filed(id, t)'
      BY <2>1, <2>5, FilingKept
    <3> QED
      BY <1>1, <2>1, <2>6, <3>1 DEF FiledRight
  <2>8. worker = "run" /\ thread = "started"
    BY <1>1, <2>1 DEF ClosedRight, RpcTyped
  <2>9. Tracked'
    BY <1>1, <2>1, <2>2, <2>5, <2>8 DEF Tracked, Owners
  <2>10. ClosedRight'
    BY <2>1, <2>8 DEF ClosedRight
  <2> QED
    BY <2>4, <2>6, <2>7, <2>9, <2>10 DEF RpcInv
<1>3. CASE Gateway!CloseReturns
  <2>1. /\ closing /\ closing' = FALSE /\ thread' = IF worker = "ended" THEN "none" ELSE thread
        /\ UNCHANGED <<caller, submitted, pending, router, worker, stopping, made>>
    BY <1>3 DEF Gateway!CloseReturns
  <2>2. RpcTyped' /\ FuturesDistinct' /\ Gateway!ReplyIsOwn'
    BY <1>1, <2>1 DEF RpcTyped, FuturesDistinct, Gateway!ReplyIsOwn, Waiting
  <2>3. FiledRight' /\ Tracked'
    BY <1>1, <2>1 DEF FiledRight, Filed, Tracked, Queued, Waiting
  <2>4. ClosedRight'
    BY <1>1, <2>1 DEF ClosedRight, Waiting, RpcTyped
  <2> QED
    BY <2>2, <2>3, <2>4 DEF RpcInv
<1> QED
  BY <1>2, <1>3

(* The worker sends: a request of an owner is in flight under its own number.   *)
LEMMA SendRpc ==
  ASSUME RpcInv, Gateway!SendNext
  PROVE  RpcInv'
<1>1. RpcTyped /\ FuturesDistinct /\ Gateway!ReplyIsOwn /\ FiledRight /\ Tracked /\ ClosedRight
  BY DEF RpcInv
<1> DEFINE h == Head(submitted)
<1>2. /\ worker = "run" /\ submitted # <<>> /\ submitted' = Tail(submitted)
      /\ UNCHANGED <<worker, stopping, thread, closing, made>>
  BY DEF Gateway!SendNext
<1>3. /\ submitted' \in Seq(RequestType) /\ Len(submitted) \in Nat /\ Len(submitted) >= 1
      /\ DOMAIN submitted = 1..Len(submitted) /\ DOMAIN submitted' = 1..(Len(submitted) - 1)
      /\ h = submitted[1] /\ h \in RequestType
      /\ \A i \in 1..(Len(submitted) - 1) : submitted'[i] = submitted[i + 1]
  BY <1>1, <1>2 DEF RpcTyped
<1>4. Filed(h.id, h.fut) /\ h.fut \in Nat /\ h.id \in Nat
  BY <1>1, <1>3 DEF FiledRight, RequestType
<1> HIDE DEF h
<1>5. \A c \in Callers : Queued(c) => caller[c].fut = h.fut \/ \E i \in DOMAIN submitted' : submitted'[i].fut = caller[c].fut
  <2> SUFFICES ASSUME NEW c \in Callers, NEW i \in DOMAIN submitted,
                      submitted[i].fut = caller[c].fut, i # 1
               PROVE  \E j \in DOMAIN submitted' : submitted'[j].fut = caller[c].fut
    BY <1>3 DEF Queued
  <2>1. i - 1 \in DOMAIN submitted' /\ submitted'[i - 1] = submitted[(i - 1) + 1] /\ (i - 1) + 1 = i
    BY <1>3
  <2> QED
    BY <2>1
<1>6. \A i \in DOMAIN submitted' : Filed(submitted'[i].id, submitted'[i].fut)
  <2> TAKE i \in DOMAIN submitted'
  <2>1. i + 1 \in DOMAIN submitted /\ submitted'[i] = submitted[i + 1]
    BY <1>3
  <2> QED
    BY <1>1, <2>1 DEF FiledRight
<1>7. closing = FALSE /\ thread = "started"
  BY <1>1, <1>2 DEF ClosedRight, RpcTyped
<1>8. ClosedRight'
  BY <1>1, <1>2, <1>7 DEF ClosedRight
<1>9. CASE /\ pending' = Gateway!Put(pending, h.id, h.fut) /\ UNCHANGED caller
           /\ router' = router \cup {[id |-> h.id, fut |-> h.fut]}
  <2>1. RpcTyped'
    BY <1>1, <1>2, <1>3, <1>4, <1>9 DEF RpcTyped, RequestType
  <2>2. FuturesDistinct' /\ Gateway!ReplyIsOwn'
    BY <1>1, <1>2, <1>9 DEF FuturesDistinct, Gateway!ReplyIsOwn, Waiting
  <2>3. \A id, t : Filed(id, t) => Filed(id, t)'
    BY <1>2, <1>9 DEF Filed
  <2>4. /\ DOMAIN pending' = DOMAIN pending \cup {h.id}
        /\ \A id \in DOMAIN pending' : pending'[id] = IF id = h.id THEN h.fut ELSE pending[id]
    BY <1>9 DEF Gateway!Put
  <2>5. FiledRight'
    <3>1. \A id \in DOMAIN pending' : Filed(id, pending'[id])
      BY <1>1, <1>4, <2>4 DEF FiledRight
    <3>2. \A q \in router' : Filed(q.id, q.fut)
      BY <1>1, <1>4, <1>9 DEF FiledRight
    <3> QED
      BY <1>6, <2>3, <3>1, <3>2 DEF FiledRight
  <2>6. Tracked'
    <3> SUFFICES ASSUME NEW c \in Owners, Waiting(c)' PROVE Queued(c)' \/ caller'[c].fut \in DOMAIN pending'
      BY DEF Tracked
    <3>1. c \in Callers /\ caller'[c] = caller[c] /\ (Queued(c) \/ caller[c].fut \in DOMAIN pending)
      BY <1>1, <1>2, <1>9 DEF Tracked, Waiting, Owners
    <3>2. caller[c].fut = h.fut => h.id = h.fut
      BY <1>4 DEF Filed
    <3> QED
      BY <1>5, <2>4, <3>1, <3>2 DEF Queued
  <2> QED
    BY <1>8, <2>1, <2>2, <2>5, <2>6 DEF RpcInv
<1>10. CASE caller' = Gateway!Resolved({h.fut}, "gateway_error", 0) /\ UNCHANGED <<pending, router>>
  <2>1. "gateway_error" \in Answers \ {"none"}
    BY DEF Answers
  <2>2. caller' \in [Callers -> CallerType] /\ FuturesDistinct' /\ Gateway!ReplyIsOwn'
    BY <1>1, <1>2, <1>10, <2>1, AnsweringKeeps
  <2>3. \A c \in Callers : /\ caller'[c].fut = caller[c].fut
                           /\ Waiting(c)' => Waiting(c) /\ caller[c].fut # h.fut
    BY <1>1, <1>10, <2>1, ResolvedOutcome
  <2>4. RpcTyped'
    BY <1>1, <1>2, <1>3, <1>10, <2>2 DEF RpcTyped
  <2>5. FiledRight'
    <3>1. \A id, t : Filed(id, t) => Filed(id, t)'
      BY <1>2, <2>3, FilingKept
    <3> QED
      BY <1>1, <1>6, <1>10, <3>1 DEF FiledRight
  <2>6. Tracked'
    BY <1>1, <1>2, <1>5, <1>10, <2>3, ZenonT(30) DEF Tracked, Queued, Owners
  <2> QED
    BY <1>8, <2>2, <2>4, <2>5, <2>6 DEF RpcInv
<1> QED
  BY <1>9, <1>10 DEF Gateway!SendNext, h

(* The worker answers some of those in flight and forgets them: a reply, an     *)
(* expiry or a failed socket.  Whoever is forgotten has been answered.          *)
LEMMA AnswersRpc ==
  ASSUME RpcInv, NEW swept \in SUBSET DOMAIN pending, NEW what \in Answers \ {"none"}, NEW of \in Nat,
         caller' = Gateway!Resolved({pending[id] : id \in swept}, what, of),
         of = 0 \/ \A c \in Owners : caller[c].fut \in {pending[id] : id \in swept} => of = caller[c].fut,
         DOMAIN pending' = DOMAIN pending \ swept, \A id \in DOMAIN pending' : pending'[id] = pending[id],
         router' \in SUBSET router, worker = "run",
         UNCHANGED <<submitted, worker, stopping, thread, closing, made>>
  PROVE  RpcInv'
<1> DEFINE T == {pending[id] : id \in swept}
<1>1. RpcTyped /\ FuturesDistinct /\ Gateway!ReplyIsOwn /\ FiledRight /\ Tracked /\ ClosedRight
  BY DEF RpcInv
<1>2. \A id \in swept : pending[id] \in T
  OBVIOUS
<1>3. caller' = Gateway!Resolved(T, what, of) /\ (of = 0 \/ \A c \in Owners : caller[c].fut \in T => of = caller[c].fut)
  OBVIOUS
<1> HIDE DEF T
<1>4. caller' \in [Callers -> CallerType] /\ FuturesDistinct' /\ Gateway!ReplyIsOwn'
  BY <1>1, <1>3, AnsweringKeeps
<1>5. \A c \in Callers : /\ caller'[c].fut = caller[c].fut
                         /\ Waiting(c)' => Waiting(c) /\ caller[c].fut \notin T
  BY <1>1, <1>3, ResolvedOutcome, ZenonT(30)
<1>6. RpcTyped'
  BY <1>1, <1>4 DEF RpcTyped
<1>7. FiledRight'
  <2>1. \A id, t : Filed(id, t) => Filed(id, t)'
    BY <1>5, FilingKept
  <2> QED
    BY <1>1, <2>1 DEF FiledRight
<1>8. Tracked'
  <2> SUFFICES ASSUME NEW c \in Owners, Waiting(c)' PROVE Queued(c)' \/ caller'[c].fut \in DOMAIN pending'
    BY DEF Tracked
  <2>1. c \in Callers /\ caller'[c].fut = caller[c].fut /\ Waiting(c) /\ caller[c].fut \notin T
    BY <1>5 DEF Owners
  <2>2. Queued(c) \/ caller[c].fut \in DOMAIN pending
    BY <1>1, <2>1 DEF Tracked
  <2>3. ASSUME caller[c].fut \in DOMAIN pending PROVE caller[c].fut \notin swept
    <3>1. Filed(caller[c].fut, pending[caller[c].fut])
      BY <1>1, <2>3 DEF FiledRight
    <3>2. pending[caller[c].fut] = caller[c].fut \/ caller[c].fut = 0
      BY <3>1 DEF Filed
    <3>3. caller[c].fut \in Nat
      BY <1>1, <2>1 DEF RpcTyped, CallerType
    <3>4. CASE pending[caller[c].fut] = caller[c].fut
      BY <1>2, <2>1, <3>4
    <3>5. CASE caller[c].fut = 0
      BY <1>1, <2>1, <3>5 DEF FuturesDistinct
    <3> QED
      BY <3>2, <3>4, <3>5
  <2> QED
    BY <2>1, <2>2, <2>3 DEF Queued
<1>9. ClosedRight'
  BY <1>1, <1>5 DEF ClosedRight, Owners, RpcTyped
<1> QED
  BY <1>4, <1>6, <1>7, <1>8, <1>9 DEF RpcInv

(* The worker's loop: a reply, an expiry, a socket that fails.                  *)
LEMMA WorkerRpc ==
  ASSUME RpcInv, Gateway!ReceiveReply \/ Gateway!SocketFails \/ \E id \in DOMAIN pending : Gateway!Sweep(id)
  PROVE  RpcInv'
<1>1. RpcTyped /\ FiledRight
  BY DEF RpcInv
<1>2. \A id : /\ DOMAIN Gateway!Without(pending, id) = DOMAIN pending \ {id}
              /\ \A x \in DOMAIN Gateway!Without(pending, id) : Gateway!Without(pending, id)[x] = pending[x]
  BY DEF Gateway!Without
<1>3. CASE Gateway!ReceiveReply
  <2>0. PICK q \in router : \E body \in Gateway!Bodies(q) :
          /\ router' = router \ {q}
          /\ IF q.id \in DOMAIN pending
             THEN caller' = Gateway!Resolved({pending[q.id]}, body, q.fut) /\ pending' = Gateway!Without(pending, q.id)
             ELSE UNCHANGED <<caller, pending>>
    BY <1>3 DEF Gateway!ReceiveReply
  <2>1. PICK body \in Gateway!Bodies(q) :
          /\ router' = router \ {q}
          /\ IF q.id \in DOMAIN pending
             THEN caller' = Gateway!Resolved({pending[q.id]}, body, q.fut) /\ pending' = Gateway!Without(pending, q.id)
             ELSE UNCHANGED <<caller, pending>>
    BY <2>0
  <2>2. body \in Answers \ {"none"} /\ q.fut \in Nat
    BY <1>1 DEF Gateway!Bodies, Answers, RpcTyped, RequestType
  <2>3. worker = "run" /\ UNCHANGED <<submitted, worker, stopping, thread, closing, made>>
    BY <1>3 DEF Gateway!ReceiveReply
  <2>4. CASE q.id \in DOMAIN pending
    <3> DEFINE swept == {q.id}
    <3>1. {pending[id] : id \in swept} = {pending[q.id]} /\ swept \in SUBSET DOMAIN pending
      BY <2>4
    <3>2. ASSUME NEW c \in Owners, caller[c].fut \in {pending[q.id]} PROVE q.fut = caller[c].fut
      BY <1>1, <2>4, <3>2 DEF FiledRight, Filed
    <3>3. /\ caller' = Gateway!Resolved({pending[id] : id \in swept}, body, q.fut)
          /\ DOMAIN pending' = DOMAIN pending \ swept
          /\ \A id \in DOMAIN pending' : pending'[id] = pending[id]
          /\ \A c \in Owners : caller[c].fut \in {pending[id] : id \in swept} => q.fut = caller[c].fut
      BY <1>2, <2>1, <2>4, <3>1, <3>2
    <3> HIDE DEF swept
    <3> QED
      BY <2>1, <2>2, <2>3, <3>1, <3>3, AnswersRpc
  <2>5. CASE q.id \notin DOMAIN pending
    <3>1. UNCHANGED <<caller, pending>> /\ router' \in SUBSET router
      BY <2>1, <2>5
    <3> QED
      BY <2>3, <3>1 DEF RpcInv, RpcTyped, FuturesDistinct, Waiting, Gateway!ReplyIsOwn, FiledRight, Filed,
                        Tracked, Queued, ClosedRight
  <2> QED
    BY <2>4, <2>5
<1>4. CASE Gateway!SocketFails
  <2>1. /\ caller' = Gateway!Resolved({pending[id] : id \in DOMAIN pending}, "gateway_error", 0)
        /\ DOMAIN pending' = {} /\ router' = {} /\ worker = "run"
        /\ UNCHANGED <<submitted, worker, stopping, thread, closing, made>>
    BY <1>4 DEF Gateway!SocketFails
  <2>2. "gateway_error" \in Answers \ {"none"} /\ DOMAIN pending' = DOMAIN pending \ DOMAIN pending
    BY <2>1 DEF Answers
  <2> QED
    BY <2>1, <2>2, AnswersRpc
<1>5. ASSUME NEW id \in DOMAIN pending, Gateway!Sweep(id) PROVE RpcInv'
  <2>1. /\ caller' = Gateway!Resolved({pending[id]}, "gateway_timeout", 0) /\ pending' = Gateway!Without(pending, id)
        /\ router' = router /\ worker = "run"
        /\ UNCHANGED <<submitted, worker, stopping, thread, closing, made>>
    BY <1>5 DEF Gateway!Sweep
  <2> DEFINE swept == {id}
  <2>2. {pending[x] : x \in swept} = {pending[id]} /\ swept \in SUBSET DOMAIN pending
    OBVIOUS
  <2>3. /\ caller' = Gateway!Resolved({pending[x] : x \in swept}, "gateway_timeout", 0)
        /\ DOMAIN pending' = DOMAIN pending \ swept
        /\ \A x \in DOMAIN pending' : pending'[x] = pending[x]
        /\ "gateway_timeout" \in Answers \ {"none"}
    BY <1>2, <2>1, <2>2 DEF Answers
  <2> HIDE DEF swept
  <2> QED
    BY <2>1, <2>2, <2>3, AnswersRpc
<1> QED
  BY <1>3, <1>4, <1>5

(* The worker ends.  Within close() nothing is queued, so that everybody who    *)
(* waits is in flight and is answered.                                          *)
LEMMA EndRpc ==
  ASSUME RpcInv, Gateway!WorkerEnds
  PROVE  RpcInv'
<1> DEFINE T == {pending[id] : id \in DOMAIN pending}
<1>1. RpcTyped /\ FuturesDistinct /\ Gateway!ReplyIsOwn /\ FiledRight /\ Tracked /\ ClosedRight
  BY DEF RpcInv
<1>2. /\ worker = "run" /\ stopping /\ worker' = "ended" /\ caller' = Gateway!Resolved(T, "gateway_closed", 0)
      /\ DOMAIN pending' = {} /\ UNCHANGED <<submitted, router, stopping, thread, closing, made>>
  BY DEF Gateway!WorkerEnds
<1>3. \A id \in DOMAIN pending : pending[id] \in T
  OBVIOUS
<1> HIDE DEF T
<1>4. "gateway_closed" \in Answers \ {"none"}
  BY DEF Answers
<1>5. caller' \in [Callers -> CallerType] /\ FuturesDistinct' /\ Gateway!ReplyIsOwn'
  BY <1>1, <1>2, <1>4, AnsweringKeeps
<1>6. \A c \in Callers : /\ caller'[c].fut = caller[c].fut
                         /\ Waiting(c)' => Waiting(c) /\ caller[c].fut \notin T
  BY <1>1, <1>2, <1>4, ResolvedOutcome
<1>7. RpcTyped'
  BY <1>1, <1>2, <1>5 DEF RpcTyped
<1>8. FiledRight'
  <2>1. \A id, t : Filed(id, t) => Filed(id, t)'
    BY <1>2, <1>6, FilingKept
  <2> QED
    BY <1>1, <1>2, <2>1 DEF FiledRight
<1>9. Tracked'
  BY <1>2 DEF Tracked
<1>10. ASSUME closing = TRUE, NEW c \in Owners, Waiting(c)' PROVE FALSE
  <2>1. c \in Callers /\ Waiting(c) /\ caller[c].fut \notin T /\ caller[c].fut # 0
    BY <1>1, <1>6, <1>10 DEF Owners, FuturesDistinct
  <2>2. submitted = <<>> /\ DOMAIN submitted = {}
    BY <1>1, <1>10 DEF ClosedRight
  <2>3. caller[c].fut \in DOMAIN pending
    BY <1>1, <1>2, <1>10, <2>1, <2>2 DEF Tracked, Queued
  <2>4. Filed(caller[c].fut, pending[caller[c].fut])
    BY <1>1, <2>3 DEF FiledRight
  <2>5. pending[caller[c].fut] = caller[c].fut
    BY <2>1, <2>4 DEF Filed
  <2> QED
    BY <1>3, <2>1, <2>3, <2>5
<1>11. ClosedRight'
  BY <1>1, <1>2, <1>10 DEF ClosedRight, RpcTyped
<1> QED
  BY <1>5, <1>7, <1>8, <1>9, <1>11 DEF RpcInv

-----------------------------------------------------------------------------
(* The theorems.                                                                *)

(* RpcInv is inductive.                                                         *)
THEOREM RpcInductive == Gateway!Spec => []RpcInv
<1>1. RpcInv /\ [Gateway!Next]_(Gateway!rpcVars) => RpcInv'
  <2> SUFFICES ASSUME RpcInv, [Gateway!Next]_(Gateway!rpcVars) PROVE RpcInv'
    OBVIOUS
  <2>1. CASE UNCHANGED Gateway!rpcVars
    BY <2>1 DEF Gateway!rpcVars, RpcInv, RpcTyped, FuturesDistinct, Waiting, Gateway!ReplyIsOwn, FiledRight, Filed,
                Tracked, Queued, ClosedRight
  <2> QED
    BY <2>1, HandlersRpc, CloseRpc, SendRpc, WorkerRpc, EndRpc DEF Gateway!Next
<1> QED
  BY <1>1, InitRpc, PTL DEF Gateway!Spec

(* A handler whose request_id the gateway chose is never given the reply to     *)
(* another request, whatever was retried, given up, reconnected or late, and    *)
(* no two handlers share a future (RouterRpcClient).                            *)
THEOREM RepliesAreOwn == Gateway!Spec => [](Gateway!ReplyIsOwn /\ FuturesDistinct)
<1>1. RpcInv => Gateway!ReplyIsOwn /\ FuturesDistinct
  BY DEF RpcInv
<1> QED
  BY <1>1, RpcInductive, PTL

(* Once close() has seen the worker end, no such handler waits for a future     *)
(* that nobody will resolve.                                                    *)
THEOREM NobodyStranded == Gateway!Spec => []Gateway!NoneStranded
<1>1. RpcInv => Gateway!NoneStranded
  BY DEF RpcInv, ClosedRight, Gateway!NoneStranded, Waiting, Owners
<1> QED
  BY <1>1, RpcInductive, PTL

-----------------------------------------------------------------------------
(* The driver runner *)

Health == [state : {"DISCONNECTED", "DEGRADED", "OK"}, reachable : BOOLEAN, failed : BOOLEAN, error : BOOLEAN]
Plan == [due : Int, resync : BOOLEAN, missed : Int, sent : Int, start : Int]

Handle == [open : BOOLEAN, stuck : BOOLEAN, called : BOOLEAN]

RunnerTyped ==
    /\ health \in Health /\ heartbeat \in Health
    /\ link \in Handle
    /\ step \in {"poll", "publish", "last", "cleanup", "ended"}
    /\ clock \in Int /\ sched \in Plan

Visible(h) == h.state = "OK" => h.failed = FALSE
Held(l) == l.open = TRUE => l.stuck = TRUE
Reached(l) == l.open = TRUE => l.called = TRUE
OnTime(s) == Period > 0 /\ s.resync = FALSE => s.due = s.start + (s.sent + s.missed + 1) * Period

(* The health never hides a failed action; a handle that is open was       *)
(* opened by a connect, and is stuck if nobody will close it; the schedule *)
(* is exact also while the device is away, until it is marked for a new    *)
(* start.                                                                  *)
RunnerInv ==
    /\ RunnerTyped
    /\ Visible(health) /\ Visible(heartbeat)
    /\ Reached(link)
    /\ health.state = "DISCONNECTED" \/ step = "ended" => Held(link)
    /\ OnTime(sched)

(* What a disconnect does to the handle.                                   *)
LEMMA ClosedHandle ==
  ASSUME NEW l \in Handle, NEW ok \in BOOLEAN
  PROVE  /\ Driver!Closed(l, ok) \in Handle
         /\ Driver!Closed(l, ok).called = l.called
         /\ Held(Driver!Closed(l, ok))
         /\ Driver!Closed(l, ok).open = TRUE => l.open = TRUE
<1>1. CASE ok = TRUE
  BY <1>1 DEF Driver!Closed, Held, Handle
<1>2. CASE ok = FALSE
  BY <1>2 DEF Driver!Closed, Held, Handle
<1> QED
  BY <1>1, <1>2

(* What connect() does to it before a failure is cleaned up.               *)
LEMMA OpenedHandle ==
  ASSUME NEW l \in Handle, NEW ok \in BOOLEAN, NEW half \in BOOLEAN
  PROVE  /\ [l EXCEPT !.called = TRUE, !.open = @ \/ ok \/ half] \in Handle
         /\ [l EXCEPT !.called = TRUE, !.open = @ \/ ok \/ half].called = TRUE
  BY DEF Handle

(* _mark_device_unreachable and a successful call keep the failure visible *)
(* and the connection as it is.                                            *)
LEMMA CallKeepsHealth ==
  ASSUME NEW h \in Health, Visible(h), NEW g,
         g \in {h, Driver!Unreachable(h), Driver!AccessWorked(h), Driver!CommandWorked(h)}
  PROVE  g \in Health /\ Visible(g) /\ (g.state = "DISCONNECTED" <=> h.state = "DISCONNECTED")
<1>1. CASE g = h
  BY <1>1
<1>2. CASE g = Driver!Unreachable(h)
  BY <1>2 DEF Driver!Unreachable, Driver!Degraded, Health, Visible
<1>3. CASE g = Driver!AccessWorked(h)
  BY <1>3 DEF Driver!AccessWorked, Health, Visible
<1>4. CASE g = Driver!CommandWorked(h)
  BY <1>4 DEF Driver!CommandWorked, Health, Visible
<1> QED
  BY <1>1, <1>2, <1>3, <1>4

(* A telemetry tick makes the device OK only if no action has failed.      *)
LEMMA TelemetryKeepsHealth ==
  ASSUME NEW h \in Health, Visible(h), NEW found
  PROVE  /\ Driver!AfterTelemetry(h, found) \in Health
         /\ Visible(Driver!AfterTelemetry(h, found))
         /\ Driver!AfterTelemetry(h, found).state = "DISCONNECTED" <=> h.state = "DISCONNECTED"
<1> DEFINE g == Driver!AfterTelemetry(h, found)
<1>1. \/ g = h
      \/ /\ h.state # "DISCONNECTED"
         /\ \/ g = [Driver!Degraded(h) EXCEPT !.reachable = FALSE, !.error = TRUE]
            \/ g = [Driver!Degraded(h) EXCEPT !.reachable = FALSE]
            \/ g = [h EXCEPT !.reachable = TRUE, !.error = FALSE]
            \/ g = [Driver!Degraded(h) EXCEPT !.reachable = TRUE, !.error = TRUE]
            \/ h.failed = FALSE /\ g = [h EXCEPT !.reachable = TRUE, !.state = "OK", !.error = FALSE]
  <2>1. h.failed \in BOOLEAN
    BY DEF Health
  <2> QED
    BY <2>1 DEF Driver!AfterTelemetry
<1> HIDE DEF g
<1>2. g \in Health /\ Visible(g) /\ (g.state = "DISCONNECTED" <=> h.state = "DISCONNECTED")
  BY <1>1 DEF Driver!Degraded, Health, Visible
<1> QED
  BY <1>2 DEF g

(* The scheduled stream call: it may only degrade the device, and the next *)
(* due time moves by the call made and the periods missed.                 *)
LEMMA ScheduledKeeps ==
  ASSUME NEW h \in Health, Visible(h), NEW ok, Period \in Nat, RunnerInv
  PROVE  /\ Driver!Scheduled(h, ok).h \in Health
         /\ Visible(Driver!Scheduled(h, ok).h)
         /\ Driver!Scheduled(h, ok).h.state = "DISCONNECTED" <=> h.state = "DISCONNECTED"
         /\ Driver!Scheduled(h, ok).s \in Plan
         /\ OnTime(Driver!Scheduled(h, ok).s)
<1> PICK r : r = Driver!Scheduled(h, ok)
  OBVIOUS
<1>1. sched \in Plan /\ OnTime(sched) /\ clock \in Int /\ sched.resync \in BOOLEAN
  BY DEF RunnerInv, RunnerTyped, Plan
<1>2. CASE r = [s |-> [sched EXCEPT !.resync = TRUE], h |-> h]
  <2>1. r.h = h /\ r.s = [sched EXCEPT !.resync = TRUE]
    BY <1>2
  <2>2. r.s \in Plan /\ r.s.resync = TRUE
    BY <1>1, <2>1 DEF Plan
  <2> QED
    BY <2>1, <2>2 DEF OnTime
<1>3. CASE r = [s |-> [sched EXCEPT !.resync = FALSE, !.due = clock + Period, !.start = clock, !.missed = 0, !.sent = 0], h |-> h]
  <2>1. /\ r.h = h
        /\ r.s = [sched EXCEPT !.resync = FALSE, !.due = clock + Period, !.start = clock, !.missed = 0, !.sent = 0]
    BY <1>3
  <2>2. /\ r.s \in Plan
        /\ r.s.due = clock + Period /\ r.s.start = clock /\ r.s.missed = 0 /\ r.s.sent = 0
    <3> PICK next : next = clock + Period
      OBVIOUS
    <3>1. next \in Int /\ sched.start \in Int
      BY <1>1 DEF Plan
    <3>2. r.s = [sched EXCEPT !.resync = FALSE, !.due = next, !.start = clock, !.missed = 0, !.sent = 0]
      BY <2>1
    <3>3. r.s = [due |-> next, resync |-> FALSE, missed |-> 0, sent |-> 0, start |-> clock]
      BY <1>1, <3>2 DEF Plan
    <3> QED
      BY <1>1, <3>1, <3>3 DEF Plan
  <2>3. clock + Period = clock + (0 + 0 + 1) * Period
    BY <1>1
  <2> QED
    BY <2>1, <2>2, <2>3 DEF OnTime
<1>4. CASE r = [s |-> sched, h |-> h]
  BY <1>1, <1>4
<1>5. CASE /\ h.state # "DISCONNECTED" /\ sched.resync = FALSE /\ Driver!IsDue(sched)
           /\ r = [s |-> [Driver!DueAfter(sched) EXCEPT !.sent = @ + 1],
                   h |-> IF ok THEN [h EXCEPT !.reachable = TRUE, !.error = FALSE] ELSE [Driver!Degraded(h) EXCEPT !.error = TRUE]]
  <2>1. r.h \in Health /\ Visible(r.h) /\ (r.h.state = "DISCONNECTED" <=> h.state = "DISCONNECTED")
    <3> PICK g : g = r.h
      OBVIOUS
    <3>1. \/ g = [h EXCEPT !.reachable = TRUE, !.error = FALSE]
          \/ g = [[h EXCEPT !.state = "DEGRADED"] EXCEPT !.error = TRUE]
      BY <1>5 DEF Driver!Degraded, Health
    <3>2. g \in Health /\ Visible(g) /\ (g.state = "DISCONNECTED" <=> h.state = "DISCONNECTED")
      BY <1>5, <3>1 DEF Health, Visible
    <3> QED
      BY <3>2
  <2> PICK m : m = (clock - sched.due) \div Period
    OBVIOUS
  <2>2. Period > 0 /\ m \in Int
    BY <1>1, <1>5 DEF Driver!IsDue, Plan
  <2>3. r.s = [[sched EXCEPT !.due = @ + (m + 1) * Period, !.missed = @ + m] EXCEPT !.sent = @ + 1]
    BY <1>5 DEF Driver!DueAfter
  <2>4. (m + 1) * Period \in Int
    BY <2>2
  <2> PICK later : later = sched.due + (m + 1) * Period
    OBVIOUS
  <2>5. r.s \in Plan
    <3>1. /\ r.s = [[sched EXCEPT !.due = later, !.missed = sched.missed + m] EXCEPT !.sent = sched.sent + 1]
          /\ sched = [due |-> sched.due, resync |-> sched.resync, missed |-> sched.missed,
                      sent |-> sched.sent, start |-> sched.start]
      BY <1>1, <2>3 DEF Plan
    <3>2. /\ later \in Int /\ sched.missed + m \in Int /\ sched.sent + 1 \in Int /\ sched.start \in Int
          /\ sched.resync \in BOOLEAN
      BY <1>1, <2>2, <2>4 DEF Plan
    <3>3. r.s = [due |-> later, resync |-> sched.resync, missed |-> sched.missed + m,
                 sent |-> sched.sent + 1, start |-> sched.start]
      BY <3>1
    <3> QED
      BY <3>2, <3>3 DEF Plan
  <2>6. r.s.due = sched.due + (m + 1) * Period /\ r.s.start = sched.start /\ r.s.sent = sched.sent + 1 /\ r.s.missed = sched.missed + m
    BY <1>1, <2>3 DEF Plan
  <2>7. sched.due = sched.start + (sched.sent + sched.missed + 1) * Period
    BY <1>1, <1>5, <2>2 DEF OnTime
  <2>8. \A a, b, p \in Int : (a + 1) * p + (b + 1) * p = ((a + 1) + (b + 1)) * p
    OBVIOUS
  <2>9. /\ sched.sent \in Int /\ sched.missed \in Int /\ sched.start \in Int /\ sched.sent + sched.missed \in Int
        /\ (sched.sent + sched.missed + 1) * Period \in Int
    BY <1>1 DEF Plan
  <2>10. (sched.sent + sched.missed + 1) * Period + (m + 1) * Period = ((sched.sent + sched.missed + 1) + (m + 1)) * Period
    BY <2>2, <2>8, <2>9
  <2>11. (sched.sent + sched.missed + 1) + (m + 1) = (r.s.sent + r.s.missed + 1)
    BY <2>2, <2>6, <2>9
  <2>12. r.s.due = r.s.start + (r.s.sent + r.s.missed + 1) * Period
    BY <2>4, <2>6, <2>7, <2>9, <2>10, <2>11
  <2> QED
    BY <2>1, <2>5, <2>12 DEF OnTime
<1> QED
  BY <1>1, <1>2, <1>3, <1>4, <1>5 DEF Driver!Scheduled

(* Every step of the runner keeps the invariant.                           *)
LEMMA RunnerStep ==
  ASSUME Period \in Nat, RunnerInv, [Driver!Next]_(Driver!runnerVars)
  PROVE  RunnerInv'
<1>1. /\ RunnerTyped /\ health \in Health /\ heartbeat \in Health
      /\ link \in Handle
      /\ step \in {"poll", "publish", "last", "cleanup", "ended"}
      /\ clock \in Int /\ sched \in Plan
      /\ Visible(health) /\ Visible(heartbeat) /\ Reached(link) /\ OnTime(sched)
      /\ health.state = "DISCONNECTED" \/ step = "ended" => Held(link)
  BY DEF RunnerInv, RunnerTyped
<1>2. CASE UNCHANGED Driver!runnerVars
  BY <1>2 DEF Driver!runnerVars, RunnerInv, RunnerTyped, Visible, Held, Reached, OnTime
<1>3. CASE Driver!Time
  BY <1>1, <1>3 DEF Driver!Time, RunnerInv, RunnerTyped, Visible, Held, Reached, OnTime
<1>4. CASE Driver!NoRequest \/ Driver!Shutdown \/ \E c \in 0..MaxContext : Driver!ContextSet(c)
  BY <1>1, <1>4 DEF Driver!NoRequest, Driver!Shutdown, Driver!ContextSet, Driver!InPoll, Driver!Handled,
     RunnerInv, RunnerTyped, Visible, Held, Reached, OnTime
<1>5. ASSUME NEW ok \in BOOLEAN, NEW half \in BOOLEAN, NEW dis \in BOOLEAN, Driver!Connect(ok, half, dis)
      PROVE  RunnerInv'
  <2> PICK l : l = IF Driver!Connected THEN Driver!Closed(link, dis) ELSE link
    OBVIOUS
  <2> PICK opened : opened = [l EXCEPT !.called = TRUE, !.open = @ \/ ok \/ half]
    OBVIOUS
  <2>1. l \in Handle
    BY <1>1, ClosedHandle
  <2>2. opened \in Handle /\ opened.called = TRUE
    BY <2>1, OpenedHandle
  <2>3. /\ Driver!Closed(opened, dis) \in Handle
        /\ Driver!Closed(opened, dis).called = TRUE
        /\ Held(Driver!Closed(opened, dis))
    BY <2>2, ClosedHandle
  <2>4. /\ link' = IF ok THEN opened ELSE Driver!Closed(opened, dis)
        /\ step = "poll" /\ step' = "publish" /\ UNCHANGED <<clock, sched, heartbeat>>
        /\ health' = IF ok THEN [state |-> "OK", reachable |-> TRUE, failed |-> FALSE, error |-> FALSE]
                     ELSE [health EXCEPT !.state = "DISCONNECTED", !.reachable = FALSE, !.error = TRUE]
    BY <1>5 DEF Driver!Connect, Driver!InPoll, Driver!Handled
  <2>5. link' \in Handle /\ Reached(link')
    BY <2>2, <2>3, <2>4 DEF Reached
  <2>6. health' \in Health /\ Visible(health') /\ (health'.state = "DISCONNECTED" => ok = FALSE)
    BY <1>1, <2>4 DEF Health, Visible
  <2>7. health'.state = "DISCONNECTED" => Held(link')
    BY <2>3, <2>4, <2>6
  <2> QED
    BY <1>1, <2>4, <2>5, <2>6, <2>7 DEF RunnerInv, RunnerTyped, Visible, Held, Reached, OnTime
<1>6. ASSUME NEW ok \in BOOLEAN, Driver!Disconnect(ok)
      PROVE  RunnerInv'
  <2>1. /\ link' = Driver!Closed(link, ok) /\ step = "poll" /\ step' = "publish"
        /\ UNCHANGED <<clock, sched, heartbeat>>
        /\ health' = IF ok THEN [health EXCEPT !.state = "DISCONNECTED", !.reachable = FALSE] ELSE [health EXCEPT !.error = TRUE]
    BY <1>6 DEF Driver!Disconnect, Driver!InPoll, Driver!Handled
  <2>2. link' \in Handle /\ Reached(link') /\ Held(link')
    BY <1>1, <2>1, ClosedHandle DEF Reached
  <2>3. health' \in Health /\ Visible(health')
    BY <1>1, <2>1 DEF Health, Visible
  <2> QED
    BY <1>1, <2>1, <2>2, <2>3 DEF RunnerInv, RunnerTyped, Visible, Held, Reached, OnTime
<1>7. ASSUME NEW ok \in BOOLEAN, Driver!Inquiry(ok)
      PROVE  RunnerInv'
  <2>1. health' = [health EXCEPT !.error = @ \/ ~ok] /\ UNCHANGED <<link, clock, sched, heartbeat>> /\ step = "poll" /\ step' = "publish"
    BY <1>7 DEF Driver!Inquiry, Driver!InPoll, Driver!Handled
  <2>2. health' \in Health /\ Visible(health') /\ health'.state = health.state
    <3> PICK e : e = (health.error \/ ~ok)
      OBVIOUS
    <3>1. e \in BOOLEAN /\ health' = [health EXCEPT !.error = e]
      BY <1>1, <2>1 DEF Health
    <3>2. health' \in Health
      BY <1>1, <3>1 DEF Health
    <3>3. health'.state = health.state /\ health'.failed = health.failed
      BY <1>1, <3>1 DEF Health
    <3> QED
      BY <1>1, <3>2, <3>3 DEF Visible
  <2> QED
    BY <1>1, <2>1, <2>2 DEF RunnerInv, RunnerTyped, Visible, Held, Reached, OnTime
<1>8. ASSUME NEW ok \in BOOLEAN, Driver!Cleanup(ok)
      PROVE  RunnerInv'
  <2>1. /\ link' = IF link.called THEN Driver!Closed(link, ok) ELSE link
        /\ step' = "ended" /\ UNCHANGED <<health, clock, sched, heartbeat>>
    BY <1>8 DEF Driver!Cleanup
  <2>2. link' \in Handle /\ Reached(link') /\ Held(link')
    <3>1. CASE link.called = TRUE
      BY <1>1, <2>1, <3>1, ClosedHandle DEF Reached
    <3>2. CASE link.called = FALSE
      BY <1>1, <2>1, <3>2 DEF Reached, Held, Handle
    <3> QED
      BY <1>1, <3>1, <3>2 DEF Handle
  <2> QED
    BY <1>1, <2>1, <2>2 DEF RunnerInv, RunnerTyped, Visible, Held, Reached, OnTime
<1>9. ASSUME NEW kind, NEW outcome, Driver!DeviceCall(kind, outcome)
      PROVE  RunnerInv'
  <2>1. /\ health' \in {health, Driver!Unreachable(health), Driver!AccessWorked(health), Driver!CommandWorked(health)}
        /\ UNCHANGED <<link, clock, sched, heartbeat>> /\ step = "poll" /\ step' = "publish"
    BY <1>9 DEF Driver!DeviceCall, Driver!InPoll, Driver!Handled
  <2>2. health' \in Health /\ Visible(health') /\ (health'.state = "DISCONNECTED" <=> health.state = "DISCONNECTED")
    BY <1>1, <2>1, CallKeepsHealth
  <2> QED
    BY <1>1, <2>1, <2>2 DEF RunnerInv, RunnerTyped, Visible, Held, Reached, OnTime
<1>10. ASSUME NEW beat \in BOOLEAN, NEW ok, NEW found, Driver!Publish(beat, found, ok)
       PROVE  RunnerInv'
  <2> PICK h1 : h1 = IF found = "not due" THEN health ELSE Driver!AfterTelemetry(health, found)
    OBVIOUS
  <2>1. /\ health' = Driver!Scheduled(h1, ok).h /\ sched' = Driver!Scheduled(h1, ok).s
        /\ heartbeat' = IF beat THEN health ELSE heartbeat
        /\ step \in {"publish", "last"} /\ step' \in {"cleanup", "poll"}
        /\ UNCHANGED <<link, clock>>
    BY <1>10 DEF Driver!Publish
  <2>2. h1 \in Health /\ Visible(h1) /\ (h1.state = "DISCONNECTED" <=> health.state = "DISCONNECTED")
    BY <1>1, TelemetryKeepsHealth
  <2>3. /\ health' \in Health /\ Visible(health') /\ (health'.state = "DISCONNECTED" <=> health.state = "DISCONNECTED")
        /\ sched' \in Plan /\ OnTime(sched')
    BY <2>1, <2>2, ScheduledKeeps
  <2> QED
    BY <1>1, <2>1, <2>3 DEF RunnerInv, RunnerTyped, Visible, Held, Reached, OnTime
<1> QED
  BY <1>2, <1>3, <1>4, <1>5, <1>6, <1>7, <1>8, <1>9, <1>10 DEF Driver!Next

(* For every schedule period, with or without telemetry, and without a     *)
(* bound on time: whatever requests, failures, ticks and scheduled calls   *)
(* interleave, a failed action shows in the health until it is retried     *)
(* with success, no handle is left open unless the device's own disconnect *)
(* raised, and the scheduled stream call neither bursts nor drifts.        *)
THEOREM RunnerIsSound ==
  ASSUME Period \in Nat
  PROVE  Driver!Spec => [](Driver!FailedActionIsVisible /\ Driver!NoHandleLeft /\ Driver!ScheduleExact)
<1>1. Driver!Init => RunnerInv
  BY DEF Driver!Init, Driver!Disconnected, RunnerInv, RunnerTyped, Handle, Health, Plan, Visible, Held, Reached, OnTime
<1>2. RunnerInv /\ [Driver!Next]_(Driver!runnerVars) => RunnerInv'
  BY RunnerStep
<1>3. RunnerInv => Driver!FailedActionIsVisible /\ Driver!NoHandleLeft /\ Driver!ScheduleExact
  <2> SUFFICES ASSUME RunnerInv
               PROVE  Driver!FailedActionIsVisible /\ Driver!NoHandleLeft /\ Driver!ScheduleExact
    OBVIOUS
  <2>1. Driver!FailedActionIsVisible
    BY DEF RunnerInv, Visible, Driver!FailedActionIsVisible
  <2>2. Driver!NoHandleLeft
    BY DEF RunnerInv, RunnerTyped, Held, Handle, Driver!NoHandleLeft
  <2>3. Driver!ScheduleExact
    BY DEF RunnerInv, RunnerTyped, Plan, OnTime, Driver!ScheduleExact
  <2> QED
    BY <2>1, <2>2, <2>3
<1> QED
  BY <1>1, <1>2, <1>3, PTL DEF Driver!Spec

-----------------------------------------------------------------------------
(* The place of a number among those of a finite set.  It numbers the set  *)
(* from 1 on in increasing order; what is written as `the i-th of S' in a  *)
(* model is well defined because of it.                                    *)

Rank(S, n) == Cardinality({m \in S : m <= n})

(* Ranks are between 1 and the size of the set, and grow with the numbers. *)
LEMMA RankGrows ==
  ASSUME NEW S, IsFiniteSet(S), S \subseteq Int
  PROVE  /\ Cardinality(S) \in Nat
         /\ \A n \in S : Rank(S, n) \in 1..Cardinality(S)
         /\ \A n, k \in S : n < k => Rank(S, n) < Rank(S, k)
<1>1. Cardinality(S) \in Nat
  BY FS_CardinalityType
<1>2. ASSUME NEW n \in S
      PROVE  /\ IsFiniteSet({m \in S : m <= n}) /\ Rank(S, n) \in Nat
             /\ Rank(S, n) \in 1..Cardinality(S)
  <2> PICK T : T = {m \in S : m <= n}
    OBVIOUS
  <2>1. T \in SUBSET S /\ n \in T
    OBVIOUS
  <2>2. IsFiniteSet(T) /\ Cardinality(T) <= Cardinality(S) /\ Cardinality(T) \in Nat
    BY <2>1, FS_Subset, FS_CardinalityType
  <2>3. Cardinality(T) # 0
    BY <2>1, <2>2, FS_EmptySet
  <2> QED
    BY <1>1, <2>2, <2>3 DEF Rank
<1>3. ASSUME NEW n \in S, NEW k \in S, n < k
      PROVE  Rank(S, n) < Rank(S, k)
  <2> PICK T : T = {m \in S : m <= n}
    OBVIOUS
  <2> PICK U : U = {m \in S : m <= k}
    OBVIOUS
  <2>1. T \in SUBSET U /\ k \in U /\ k \notin T
    <3>1. n \in Int /\ k \in Int /\ \A m \in S : m \in Int
      OBVIOUS
    <3>2. k \in U /\ k \notin T
      BY <1>3, <3>1
    <3>3. ASSUME NEW m \in T PROVE m \in U
      <4>1. m \in S /\ m \in Int /\ m <= n
        BY <3>1
      <4>2. m <= k
        BY <1>3, <3>1, <4>1
      <4> QED
        BY <4>1, <4>2
    <3> QED
      BY <3>2, <3>3
  <2>2. IsFiniteSet(U)
    BY <1>2
  <2>3. Cardinality(T) <= Cardinality(U) /\ Cardinality(T) # Cardinality(U)
    BY <2>1, <2>2, FS_Subset
  <2>4. Cardinality(T) \in Nat /\ Cardinality(U) \in Nat
    BY <1>2 DEF Rank
  <2> QED
    BY <2>3, <2>4 DEF Rank
<1> QED
  BY <1>1, <1>2, <1>3

(* Every place up to the size of the set is taken, by one number.          *)
LEMMA RankNumbers ==
  ASSUME NEW S, IsFiniteSet(S), S \subseteq Int, NEW i \in 1..Cardinality(S)
  PROVE  \E n \in S : Rank(S, n) = i
<1> PICK f : f = [n \in S |-> Rank(S, n)]
  OBVIOUS
<1>1. /\ Cardinality(S) \in Nat
      /\ \A n \in S : Rank(S, n) \in 1..Cardinality(S)
      /\ \A n, k \in S : n < k => Rank(S, n) < Rank(S, k)
  BY RankGrows
<1>2. f \in [S -> 1..Cardinality(S)]
  BY <1>1
<1>3. ASSUME NEW n \in S, NEW k \in S, f[n] = f[k]
      PROVE  n = k
  <2>1. n \in Int /\ k \in Int /\ Rank(S, n) = Rank(S, k) /\ Rank(S, n) \in Int
    BY <1>1, <1>3
  <2> QED
    BY <1>1, <2>1
<1>4. f \in Injection(S, 1..Cardinality(S))
  BY <1>2, <1>3 DEF Injection, IsInjective
<1>5. IsFiniteSet(1..Cardinality(S)) /\ Cardinality(1..Cardinality(S)) = Cardinality(S)
  BY <1>1, FS_Interval
<1>6. f \in Surjection(S, 1..Cardinality(S))
  BY <1>4, <1>5, FS_Injection
<1>7. PICK n \in S : f[n] = i
  BY <1>6 DEF Surjection
<1> QED
  BY <1>7

(* So a set that is not empty has a smallest number.                       *)
LEMMA SmallestOf ==
  ASSUME NEW S, IsFiniteSet(S), S \subseteq Int, S # {}
  PROVE  \E l \in S : \A m \in S : l <= m
<1>1. Cardinality(S) \in Nat /\ Cardinality(S) # 0
  BY FS_CardinalityType, FS_EmptySet
<1>2. PICK l \in S : Rank(S, l) = 1
  <2>1. 1 \in 1..Cardinality(S)
    BY <1>1
  <2> QED
    BY <2>1, RankNumbers
<1>3. ASSUME NEW m \in S PROVE l <= m
  <2>1. m \in Int /\ l \in Int /\ Rank(S, m) \in 1..Cardinality(S)
    BY RankGrows
  <2>2. m < l => Rank(S, m) < Rank(S, l)
    BY RankGrows
  <2> QED
    BY <1>1, <1>2, <2>1, <2>2
<1> QED
  BY <1>3

-----------------------------------------------------------------------------
(* The manager's request routing *)

RouteType == [pid : Processes, pat : Patterns]
RouteRequest == Routing!ProcessRequests \cup Routing!Commands \cup Routing!Overrides
CheckType == [action : Actions, chain : Seq(Processes), asked : SUBSET Processes]
ProcState == [known : BOOLEAN, state : {"STOPPED", "RUNNING"}, endpoint : BOOLEAN]

RoutingTyped ==
    /\ socket \in Seq(RouteRequest)
    /\ procs \in [Processes -> ProcState]
    /\ routes \in Seq(RouteType)
    /\ cache \in [Actions -> SUBSET Seq(Processes)]
    /\ check = Routing!NoCheck \/ check \in CheckType
    /\ promised \in SUBSET RouteType

InSeq(x, s) == \E i \in DOMAIN s : s[i] = x

(* What was promised is registered, and every cached chain asks for it.    *)
PromisesKept ==
    /\ \A rt \in promised : InSeq(rt, routes)
    /\ \A a \in Actions : \A c \in cache[a] : \A rt \in promised :
          Routing!Matches(rt, a) => InSeq(rt.pid, c)

(* The command under way has been or will be shown to each such process.   *)
UnderCheck ==
    check # Routing!NoCheck =>
        \A rt \in promised : Routing!Matches(rt, check.action) =>
            rt.pid \in check.asked \/ InSeq(rt.pid, check.chain)

RouteOwners == \A n \in DOMAIN routes : procs[routes[n].pid].known = TRUE

(* The published configuration may be old only between the reload and the  *)
(* end of the restart that reloaded it, unless the reload overlapped the   *)
(* publishing, and what a registration published is current until its end. *)
ConfigFresh ==
    /\ overlapped \in BOOLEAN
    /\ configured = TRUE /\ worker # "unpublish" /\ overlapped = FALSE => published = meta
    /\ registering = "assign" /\ overlapped = FALSE => published = meta

RoutingInv == RoutingTyped /\ PromisesKept /\ UnderCheck /\ RouteOwners /\ ConfigFresh

(* The routing module counts as this one does.                             *)
LEMMA RoutingCardinality == \A S : Routing!Cardinality(S) = Cardinality(S)
  BY DEF Routing!Cardinality, Cardinality

(* A selection of the routes keeps just the selected ones.                 *)
LEMMA KeptRoutes ==
  ASSUME routes \in Seq(RouteType), NEW at \in SUBSET DOMAIN routes
  PROVE  /\ IsFiniteSet(at) /\ Cardinality(at) \in Nat
         /\ DOMAIN Routing!Kept(at) = 1..Cardinality(at)
         /\ Routing!Kept(at) \in Seq(RouteType)
         /\ \A n \in at : InSeq(routes[n], Routing!Kept(at))
         /\ \A i \in DOMAIN Routing!Kept(at) : \E n \in at : Routing!Kept(at)[i] = routes[n]
<1> PICK k : k = Routing!Kept(at)
  OBVIOUS
<1>1. DOMAIN routes = 1..Len(routes) /\ Len(routes) \in Nat
  OBVIOUS
<1>2. at \subseteq Int /\ IsFiniteSet(at) /\ Cardinality(at) \in Nat
  <2>1. IsFiniteSet(1..Len(routes))
    BY <1>1, FS_Interval
  <2>2. IsFiniteSet(at)
    BY <1>1, <2>1, FS_Subset
  <2> QED
    BY <1>1, <2>2, FS_CardinalityType
<1>3. k = [i \in 1..Cardinality(at) |-> routes[CHOOSE n \in at : Routing!Cardinality({m \in at : m <= n}) = i]]
  BY RoutingCardinality DEF Routing!Kept
<1>4. ASSUME NEW i \in 1..Cardinality(at)
      PROVE  \E n \in at : Rank(at, n) = i /\ k[i] = routes[n]
  <2>1. \E n \in at : Rank(at, n) = i
    BY <1>2, <1>4, RankNumbers
  <2> PICK c : c = CHOOSE n \in at : Routing!Cardinality({m \in at : m <= n}) = i
    OBVIOUS
  <2>2. c \in at /\ Rank(at, c) = i
    <3>1. \E n \in at : Routing!Cardinality({m \in at : m <= n}) = i
      BY <2>1, RoutingCardinality DEF Rank
    <3>2. c \in at /\ Routing!Cardinality({m \in at : m <= c}) = i
      BY <3>1, Zenon
    <3> QED
      BY <3>2, RoutingCardinality DEF Rank
  <2>3. k[i] = routes[c]
    BY <1>3, <1>4
  <2> QED
    BY <2>2, <2>3
<1>5. ASSUME NEW n \in at
      PROVE  InSeq(routes[n], k)
  <2>1. Rank(at, n) \in 1..Cardinality(at)
    BY <1>2, RankGrows
  <2>2. PICK m \in at : Rank(at, m) = Rank(at, n) /\ k[Rank(at, n)] = routes[m]
    BY <1>4, <2>1
  <2>3. m = n
    <3>1. m \in Int /\ n \in Int
      BY <1>2
    <3>2. Rank(at, m) \in Int /\ ~(m < n) /\ ~(n < m)
      BY <1>2, <2>1, <2>2, <3>1, RankGrows
    <3> QED
      BY <3>1, <3>2
  <2>4. Rank(at, n) \in DOMAIN k
    BY <1>3, <2>1
  <2> QED
    BY <2>2, <2>3, <2>4 DEF InSeq
<1>6. DOMAIN k = 1..Cardinality(at)
  BY <1>3
<1>7. k \in Seq(RouteType)
  <2>1. \A i \in 1..Cardinality(at) : k[i] \in RouteType
    BY <1>1, <1>4
  <2>2. k \in [1..Cardinality(at) -> RouteType]
    BY <1>3, <2>1
  <2> QED
    BY <1>2, <2>2
<1> QED
  BY <1>2, <1>4, <1>5, <1>6, <1>7

(* The routes without those of one process.                                *)
LEMMA WithoutRoutes ==
  ASSUME routes \in Seq(RouteType), NEW pid
  PROVE  /\ Routing!Without(pid) \in Seq(RouteType)
         /\ \A n \in DOMAIN routes : routes[n].pid # pid => InSeq(routes[n], Routing!Without(pid))
         /\ \A i \in DOMAIN Routing!Without(pid) :
               /\ Routing!Without(pid)[i].pid # pid
               /\ InSeq(Routing!Without(pid)[i], routes)
<1> PICK at : at = {n \in DOMAIN routes : routes[n].pid # pid}
  OBVIOUS
<1>1. at \in SUBSET DOMAIN routes
  OBVIOUS
<1>2. Routing!Without(pid) = Routing!Kept(at)
  BY DEF Routing!Without
<1> PICK k : k = Routing!Kept(at)
  OBVIOUS
<1>3. /\ k \in Seq(RouteType)
      /\ \A n \in at : InSeq(routes[n], k)
      /\ \A i \in DOMAIN k : \E n \in at : k[i] = routes[n]
  BY <1>1, KeptRoutes
<1>4. ASSUME NEW i \in DOMAIN k
      PROVE  k[i].pid # pid /\ InSeq(k[i], routes)
  <2>1. PICK n \in at : k[i] = routes[n]
    BY <1>3
  <2> QED
    BY <2>1 DEF InSeq
<1> QED
  BY <1>2, <1>3, <1>4

(* A computed chain asks every process with a matching route.              *)
LEMMA ChainAsksAll ==
  ASSUME routes \in Seq(RouteType), NEW a
  PROVE  /\ Routing!ComputedChain(a) \in Seq(Processes)
         /\ \A n \in DOMAIN routes : Routing!Matches(routes[n], a) => InSeq(routes[n].pid, Routing!ComputedChain(a))
<1> PICK matching : matching = {n \in DOMAIN routes : Routing!Matches(routes[n], a)}
  OBVIOUS
<1> PICK first : first = {n \in matching : \A m \in matching : routes[m].pid = routes[n].pid => n <= m}
  OBVIOUS
<1> PICK k : k = Routing!Kept(first)
  OBVIOUS
<1>1. first \in SUBSET DOMAIN routes
  OBVIOUS
<1>2. /\ IsFiniteSet(first) /\ Cardinality(first) \in Nat
      /\ k \in Seq(RouteType) /\ DOMAIN k = 1..Cardinality(first)
      /\ \A n \in first : InSeq(routes[n], k)
  BY <1>1, KeptRoutes
<1>3. Routing!ComputedChain(a) = [i \in 1..Cardinality(first) |-> k[i].pid]
  BY RoutingCardinality DEF Routing!ComputedChain
<1>4. \A i \in 1..Cardinality(first) : k[i].pid \in Processes
  <2>1. \A i \in 1..Cardinality(first) : k[i] \in RouteType
    BY <1>2
  <2> QED
    BY <2>1 DEF RouteType
<1>5. Routing!ComputedChain(a) \in Seq(Processes)
  BY <1>2, <1>3, <1>4
<1>6. ASSUME NEW n \in matching
      PROVE  InSeq(routes[n].pid, Routing!ComputedChain(a))
  <2> PICK same : same = {m \in matching : routes[m].pid = routes[n].pid}
    OBVIOUS
  <2>1. same \subseteq Int /\ n \in same /\ IsFiniteSet(same)
    <3>1. DOMAIN routes = 1..Len(routes) /\ Len(routes) \in Nat
      OBVIOUS
    <3>2. same \in SUBSET (1..Len(routes)) /\ IsFiniteSet(1..Len(routes))
      BY <3>1, FS_Interval
    <3> QED
      BY <3>2, FS_Subset
  <2>2. PICK l \in same : \A m \in same : l <= m
    BY <2>1, SmallestOf
  <2>3. l \in first /\ routes[l].pid = routes[n].pid
    BY <2>2
  <2>4. PICK i \in DOMAIN k : k[i] = routes[l]
    BY <1>2, <2>3 DEF InSeq
  <2>5. i \in 1..Cardinality(first)
    BY <1>2, <2>4
  <2>6. Routing!ComputedChain(a)[i] = routes[n].pid /\ i \in DOMAIN Routing!ComputedChain(a)
    BY <1>3, <2>3, <2>4, <2>5
  <2> QED
    BY <2>6 DEF InSeq
<1> QED
  BY <1>5, <1>6

(* The order of the requests' kinds tells what a taken request is.         *)
LEMMA TakenRequest ==
  ASSUME RoutingTyped, NEW kind, Routing!Takes(kind)
  PROVE  /\ check = Routing!NoCheck /\ socket' \in Seq(RouteRequest)
         /\ kind \in Routing!Kinds => Routing!Req \in Routing!ProcessRequests
         /\ kind = "command" => Routing!Req \in Routing!Commands
<1>1. socket \in Seq(RouteRequest) /\ socket # <<>> /\ Head(socket).kind = kind /\ socket' = Tail(socket)
  BY DEF RoutingTyped, Routing!Takes
<1>2. Head(socket) \in RouteRequest /\ socket' \in Seq(RouteRequest)
  BY <1>1
<1>3. kind \in Routing!Kinds => Head(socket) \in Routing!ProcessRequests
  BY <1>1, <1>2 DEF RouteRequest, Routing!ProcessRequests, Routing!Commands, Routing!Overrides, Routing!Kinds
<1>4. kind = "command" => Head(socket) \in Routing!Commands
  BY <1>1, <1>2 DEF RouteRequest, Routing!ProcessRequests, Routing!Commands, Routing!Overrides, Routing!Kinds
<1> QED
  BY <1>2, <1>3, <1>4 DEF Routing!Takes, Routing!LoopFree, Routing!Req

(* Every route names a process.                                            *)
LEMMA RoutePids ==
  ASSUME RoutingTyped
  PROVE  \A n \in DOMAIN routes : routes[n].pid \in Processes
<1>1. \A n \in DOMAIN routes : routes[n] \in RouteType
  BY DEF RoutingTyped
<1> QED
  BY <1>1 DEF RouteType

(* A step that leaves the routes, their promises and the chains alone.     *)
LEMMA RoutesUntouched ==
  ASSUME RoutingInv, UNCHANGED <<routes, cache, promised, check>>,
         socket' \in Seq(RouteRequest), procs' \in [Processes -> ProcState],
         \A p \in Processes : procs[p].known = TRUE => procs'[p].known = TRUE,
         ConfigFresh'
  PROVE  RoutingInv'
<1>1. RoutingTyped' /\ PromisesKept' /\ UnderCheck'
  BY DEF RoutingInv, RoutingTyped, PromisesKept, UnderCheck
<1>2. RouteOwners'
  <2>1. \A n \in DOMAIN routes : routes[n].pid \in Processes
    BY RoutePids DEF RoutingInv
  <2> QED
    BY <2>1 DEF RoutingInv, RouteOwners
<1> QED
  BY <1>1, <1>2 DEF RoutingInv

(* A registration, or what is left of one that failed: the process's old   *)
(* routes may go first, and chains are kept only if nothing is promised    *)
(* that was not before.                                                    *)
LEMMA RoutesReplaced ==
  ASSUME RoutingInv, NEW rt \in RouteType, NEW old \in Seq(RouteType),
         check = Routing!NoCheck, check' = check,
         routes' = Append(old, rt),
         procs' = procs, procs[rt.pid].known = TRUE,
         \A i \in DOMAIN old : InSeq(old[i], routes),
         \A n \in DOMAIN routes : routes[n] \in promised' => routes[n] = rt \/ InSeq(routes[n], old),
         promised' \in SUBSET (promised \cup {rt}),
         cache' = [a \in Actions |-> {}] \/ (cache' = cache /\ promised' \in SUBSET promised),
         socket' \in Seq(RouteRequest), ConfigFresh'
  PROVE  RoutingInv'
<1>1. /\ RoutingTyped /\ routes \in Seq(RouteType) /\ promised \in SUBSET RouteType
      /\ cache \in [Actions -> SUBSET Seq(Processes)]
  BY DEF RoutingInv, RoutingTyped
<1>2. /\ Append(old, rt) \in Seq(RouteType) /\ DOMAIN Append(old, rt) = DOMAIN old \cup {Len(old) + 1}
      /\ \A i \in DOMAIN old : Append(old, rt)[i] = old[i]
      /\ Append(old, rt)[Len(old) + 1] = rt
  OBVIOUS
<1>3. RoutingTyped'
  <2>1. cache' \in [Actions -> SUBSET Seq(Processes)]
    BY <1>1
  <2>2. promised' \in SUBSET RouteType
    BY <1>1
  <2> QED
    BY <1>1, <1>2, <2>1, <2>2 DEF RoutingTyped
<1>4. RouteOwners'
  <2>1. ASSUME NEW n \in DOMAIN routes' PROVE procs'[routes'[n].pid].known = TRUE
    <3>1. CASE n = Len(old) + 1
      BY <1>2, <3>1
    <3>2. CASE n \in DOMAIN old
      BY <1>2, <3>2 DEF InSeq, RoutingInv, RouteOwners
    <3> QED
      BY <1>2, <2>1, <3>1, <3>2
  <2> QED
    BY <2>1 DEF RouteOwners
<1>5. ASSUME NEW pr \in promised' PROVE InSeq(pr, routes')
  <2>1. CASE pr = rt
    BY <1>2, <2>1 DEF InSeq
  <2>2. CASE pr \in promised /\ pr # rt
    <3>1. InSeq(pr, old)
      BY <1>5, <2>2 DEF RoutingInv, PromisesKept, InSeq
    <3> QED
      BY <1>2, <3>1 DEF InSeq
  <2> QED
    BY <1>5, <2>1, <2>2
<1>6. ASSUME NEW a \in Actions, NEW c \in cache'[a], NEW pr \in promised', Routing!Matches(pr, a)
      PROVE  InSeq(pr.pid, c)
  BY <1>6 DEF RoutingInv, PromisesKept
<1> QED
  BY <1>3, <1>4, <1>5, <1>6 DEF RoutingInv, PromisesKept, UnderCheck, Routing!Matches

(* A process gives up its routes.                                          *)
LEMMA RoutesDropped ==
  ASSUME RoutingInv, NEW pid \in Processes, Routing!Dropped(pid),
         check = Routing!NoCheck, check' = check,
         procs' \in [Processes -> ProcState],
         \A p \in Processes : p # pid /\ procs[p].known = TRUE => procs'[p].known = TRUE,
         socket' \in Seq(RouteRequest), ConfigFresh'
  PROVE  RoutingInv'
<1>1. /\ RoutingTyped /\ routes \in Seq(RouteType) /\ promised \in SUBSET RouteType
      /\ cache \in [Actions -> SUBSET Seq(Processes)]
  BY DEF RoutingInv, RoutingTyped
<1>2. /\ routes' = Routing!Without(pid) /\ promised' = promised \ Routing!Promises(pid)
      /\ cache' = [a \in Actions |-> {}] \/ cache' = cache
  BY DEF Routing!Dropped, Routing!Invalidated
<1>3. /\ routes' \in Seq(RouteType)
      /\ \A n \in DOMAIN routes : routes[n].pid # pid => InSeq(routes[n], routes')
      /\ \A i \in DOMAIN routes' : routes'[i].pid # pid /\ InSeq(routes'[i], routes)
  BY <1>1, <1>2, WithoutRoutes
<1>4. promised' \in SUBSET promised /\ \A rt \in promised' : rt.pid # pid
  BY <1>2 DEF Routing!Promises
<1>5. RoutingTyped'
  BY <1>1, <1>2, <1>3, <1>4 DEF RoutingTyped
<1>6. RouteOwners'
  <2>1. ASSUME NEW n \in DOMAIN routes' PROVE procs'[routes'[n].pid].known = TRUE
    <3>1. PICK m \in DOMAIN routes : routes[m] = routes'[n]
      BY <1>3 DEF InSeq
    <3>2. procs[routes[m].pid].known = TRUE /\ routes[m].pid # pid /\ routes[m].pid \in Processes
      BY <1>1, <1>3, <3>1, RoutePids DEF RoutingInv, RouteOwners
    <3> QED
      BY <3>1, <3>2
  <2> QED
    BY <2>1 DEF RouteOwners
<1>7. \A rt \in promised' : InSeq(rt, routes')
  BY <1>3, <1>4 DEF RoutingInv, PromisesKept, InSeq
<1>8. ASSUME NEW a \in Actions, NEW c \in cache'[a], NEW rt \in promised', Routing!Matches(rt, a)
      PROVE  InSeq(rt.pid, c)
  BY <1>2, <1>4, <1>8 DEF RoutingInv, PromisesKept
<1> QED
  BY <1>5, <1>6, <1>7, <1>8 DEF RoutingInv, PromisesKept, UnderCheck, Routing!Matches

(* Requests about processes and their routes.                              *)
LEMMA ProcessRequestStep ==
  ASSUME RoutingInv,
         \/ Routing!AddProcess \/ Routing!StartProcess \/ Routing!Advertise
         \/ \E pid \in Processes : Routing!ProcessExits(pid)
         \/ Routing!Register \/ Routing!Replace \/ Routing!RegisterFails
         \/ Routing!Unregister \/ Routing!RemoveProcess
  PROVE  RoutingInv'
<1>1. /\ RoutingTyped /\ procs \in [Processes -> ProcState] /\ routes \in Seq(RouteType)
      /\ socket \in Seq(RouteRequest)
  BY DEF RoutingInv, RoutingTyped
<1>2. /\ UNCHANGED <<driver, meta, published, configured, registering, worker, overlapped>> /\ UNCHANGED check
  BY DEF Routing!AddProcess, Routing!StartProcess, Routing!Advertise, Routing!ProcessExits, Routing!Register,
     Routing!Replace, Routing!RegisterFails, Routing!Unregister, Routing!RemoveProcess, Routing!deviceVars
<1>3. ConfigFresh'
  BY <1>2 DEF RoutingInv, ConfigFresh
<1>4. ASSUME NEW kind \in Routing!Kinds, Routing!Takes(kind)
      PROVE  /\ check = Routing!NoCheck /\ socket' \in Seq(RouteRequest)
             /\ Routing!Req.pid \in Processes /\ Routing!Req.pat \in Patterns
             /\ procs[Routing!Req.pid] \in ProcState /\ procs[Routing!Req.pid].known \in BOOLEAN
             /\ [pid |-> Routing!Req.pid, pat |-> Routing!Req.pat] \in RouteType
  <2>1. /\ check = Routing!NoCheck /\ socket' \in Seq(RouteRequest)
        /\ Routing!Req \in Routing!ProcessRequests
    BY <1>1, <1>4, TakenRequest
  <2>2. Routing!Req.pid \in Processes /\ Routing!Req.pat \in Patterns
    BY <2>1 DEF Routing!ProcessRequests
  <2>3. procs[Routing!Req.pid] \in ProcState
    BY <1>1, <2>2
  <2> QED
    BY <2>1, <2>2, <2>3 DEF ProcState, RouteType
<1>5. ASSUME NEW p \in Processes, NEW st \in ProcState, procs' = [procs EXCEPT ![p] = st],
             procs[p].known = TRUE => st.known = TRUE
      PROVE  /\ procs' \in [Processes -> ProcState]
             /\ \A q \in Processes : procs[q].known = TRUE => procs'[q].known = TRUE
  BY <1>1, <1>5
<1>6. ASSUME NEW p \in Processes
      PROVE  /\ [procs[p] EXCEPT !.endpoint = TRUE] \in ProcState
             /\ [procs[p] EXCEPT !.endpoint = TRUE].known = procs[p].known
             /\ [procs[p] EXCEPT !.state = "RUNNING", !.endpoint = FALSE] \in ProcState
             /\ [procs[p] EXCEPT !.state = "RUNNING", !.endpoint = FALSE].known = procs[p].known
             /\ [procs[p] EXCEPT !.state = "STOPPED", !.endpoint = FALSE] \in ProcState
             /\ [procs[p] EXCEPT !.state = "STOPPED", !.endpoint = FALSE].known = procs[p].known
             /\ Routing!Removed \in ProcState
             /\ [Routing!Removed EXCEPT !.known = TRUE, !.state = "RUNNING"] \in ProcState
             /\ [Routing!Removed EXCEPT !.known = TRUE, !.state = "RUNNING"].known = TRUE
  <2>1. procs[p] \in ProcState
    BY <1>1
  <2> QED
    BY <2>1 DEF ProcState, Routing!Removed
<1>7. CASE Routing!AddProcess
  <2>1. Routing!Takes("add") /\ "add" \in Routing!Kinds /\ UNCHANGED <<routes, cache, promised>>
    BY <1>7 DEF Routing!AddProcess, Routing!Kinds
  <2>2. /\ procs' \in [Processes -> ProcState]
        /\ \A q \in Processes : procs[q].known = TRUE => procs'[q].known = TRUE
    <3>1. \/ procs' = procs
          \/ procs' = [procs EXCEPT ![Routing!Req.pid] = [Routing!Removed EXCEPT !.known = TRUE, !.state = "RUNNING"]]
      BY <1>7 DEF Routing!AddProcess
    <3> QED
      BY <1>1, <1>4, <1>5, <1>6, <2>1, <3>1
  <2> QED
    BY <1>2, <1>3, <1>4, <2>1, <2>2, RoutesUntouched
<1>8. CASE Routing!StartProcess
  <2>1. Routing!Takes("start") /\ "start" \in Routing!Kinds /\ UNCHANGED <<routes, cache, promised>>
    BY <1>8 DEF Routing!StartProcess, Routing!Kinds
  <2>2. /\ procs' \in [Processes -> ProcState]
        /\ \A q \in Processes : procs[q].known = TRUE => procs'[q].known = TRUE
    <3>1. \/ procs' = procs
          \/ procs' = [procs EXCEPT ![Routing!Req.pid] = [procs[Routing!Req.pid] EXCEPT !.state = "RUNNING", !.endpoint = FALSE]]
      BY <1>1, <1>4, <1>8, <2>1 DEF Routing!StartProcess
    <3> QED
      BY <1>1, <1>4, <1>5, <1>6, <2>1, <3>1
  <2> QED
    BY <1>2, <1>3, <1>4, <2>1, <2>2, RoutesUntouched
<1>9. CASE Routing!Advertise
  <2>1. Routing!Takes("advertise") /\ "advertise" \in Routing!Kinds /\ UNCHANGED <<routes, cache, promised>>
    BY <1>9 DEF Routing!Advertise, Routing!Kinds
  <2>2. /\ procs' \in [Processes -> ProcState]
        /\ \A q \in Processes : procs[q].known = TRUE => procs'[q].known = TRUE
    <3>1. \/ procs' = procs
          \/ procs' = [procs EXCEPT ![Routing!Req.pid] = [procs[Routing!Req.pid] EXCEPT !.endpoint = TRUE]]
      BY <1>9 DEF Routing!Advertise
    <3> QED
      BY <1>1, <1>4, <1>5, <1>6, <2>1, <3>1
  <2> QED
    BY <1>2, <1>3, <1>4, <2>1, <2>2, RoutesUntouched
<1>10. CASE \E pid \in Processes : Routing!ProcessExits(pid)
  <2>1. PICK pid \in Processes : Routing!ProcessExits(pid)
    BY <1>10
  <2>2. /\ UNCHANGED <<routes, cache, promised>> /\ socket' \in Seq(RouteRequest)
        /\ procs' = [procs EXCEPT ![pid] = [procs[pid] EXCEPT !.state = "STOPPED", !.endpoint = FALSE]]
    BY <1>1, <2>1 DEF Routing!ProcessExits
  <2>3. /\ procs' \in [Processes -> ProcState]
        /\ \A q \in Processes : procs[q].known = TRUE => procs'[q].known = TRUE
    BY <1>5, <1>6, <2>2
  <2> QED
    BY <1>2, <1>3, <2>2, <2>3, RoutesUntouched
<1>11. CASE Routing!Register \/ Routing!Replace \/ Routing!RegisterFails
  <2>1. PICK kind \in Routing!Kinds : Routing!Takes(kind)
    BY <1>11 DEF Routing!Register, Routing!Replace, Routing!RegisterFails, Routing!Kinds
  <2> PICK rt : rt = [pid |-> Routing!Req.pid, pat |-> Routing!Req.pat]
    OBVIOUS
  <2>2. rt \in RouteType /\ rt.pid = Routing!Req.pid /\ procs' = procs
    BY <1>4, <1>11, <2>1 DEF Routing!Register, Routing!Replace, Routing!RegisterFails
  <2>3. CASE UNCHANGED <<routes, cache, promised>>
    BY <1>1, <1>2, <1>3, <1>4, <2>1, <2>2, <2>3, RoutesUntouched
  <2>4. CASE ~UNCHANGED <<routes, cache, promised>>
    <3>1. procs[rt.pid].known = TRUE
      <4>1. Routing!MayRegister(Routing!Req.pid)
        BY <1>11, <2>4 DEF Routing!Register, Routing!Replace, Routing!RegisterFails
      <4> QED
        BY <1>4, <2>1, <2>2, <4>1 DEF Routing!MayRegister
    <3>2. CASE routes' = Append(routes, rt)
      <4>1. /\ promised' \in SUBSET (promised \cup {rt})
            /\ cache' = [a \in Actions |-> {}] \/ (cache' = cache /\ promised' \in SUBSET promised)
        BY <1>11, <2>2, <2>4 DEF Routing!Register, Routing!Replace, Routing!RegisterFails,
           Routing!Invalidated, Routing!CacheAfterRegister, Routing!Promises
      <4>2. \A n \in DOMAIN routes : InSeq(routes[n], routes)
        BY DEF InSeq
      <4> QED
        BY <1>1, <1>2, <1>3, <1>4, <2>1, <2>2, <3>1, <3>2, <4>1, <4>2, RoutesReplaced
    <3>3. CASE routes' # Append(routes, rt)
      <4> PICK old : old = Routing!Without(rt.pid)
        OBVIOUS
      <4>1. /\ routes' = Append(old, rt)
            /\ \/ promised' = (promised \ Routing!Promises(rt.pid)) \cup {rt} /\ cache' = [a \in Actions |-> {}]
               \/ promised' = promised \ Routing!Promises(rt.pid) /\ cache' \in {cache, [a \in Actions |-> {}]}
        BY <1>11, <2>2, <2>4, <3>3 DEF Routing!Register, Routing!Replace, Routing!RegisterFails,
           Routing!Invalidated, Routing!CacheAfterRegister
      <4>2. /\ promised' \in SUBSET (promised \cup {rt})
            /\ cache' = [a \in Actions |-> {}] \/ (cache' = cache /\ promised' \in SUBSET promised)
            /\ \A pr \in promised' : pr = rt \/ pr.pid # rt.pid
        BY <4>1 DEF Routing!Promises
      <4>3. /\ old \in Seq(RouteType)
            /\ \A n \in DOMAIN routes : routes[n].pid # rt.pid => InSeq(routes[n], old)
            /\ \A i \in DOMAIN old : InSeq(old[i], routes)
        BY <1>1, WithoutRoutes
      <4>4. \A n \in DOMAIN routes : routes[n] \in promised' => routes[n] = rt \/ InSeq(routes[n], old)
        BY <4>2, <4>3
      <4> QED
        BY <1>2, <1>3, <1>4, <2>1, <2>2, <3>1, <4>1, <4>2, <4>3, <4>4, RoutesReplaced
    <3> QED
      BY <3>2, <3>3
  <2> QED
    BY <2>3, <2>4
<1>12. CASE Routing!Unregister
  <2>1. Routing!Takes("unregister") /\ "unregister" \in Routing!Kinds /\ Routing!Dropped(Routing!Req.pid) /\ procs' = procs
    BY <1>12 DEF Routing!Unregister, Routing!Kinds
  <2> QED
    BY <1>1, <1>2, <1>3, <1>4, <2>1, RoutesDropped
<1>13. CASE Routing!RemoveProcess
  <2>1. Routing!Takes("remove") /\ "remove" \in Routing!Kinds
    BY <1>13 DEF Routing!RemoveProcess, Routing!Kinds
  <2>2. CASE UNCHANGED <<procs, routes, cache, promised>>
    BY <1>1, <1>2, <1>3, <1>4, <2>1, <2>2, RoutesUntouched
  <2>3. CASE Routing!Dropped(Routing!Req.pid) /\ procs' = [procs EXCEPT ![Routing!Req.pid] = Routing!Removed]
    <3>1. /\ procs' \in [Processes -> ProcState]
          /\ \A p \in Processes : p # Routing!Req.pid /\ procs[p].known = TRUE => procs'[p].known = TRUE
      BY <1>1, <1>4, <1>6, <2>1, <2>3
    <3> QED
      BY <1>2, <1>3, <1>4, <2>1, <2>3, <3>1, RoutesDropped
  <2> QED
    BY <1>13, <2>2, <2>3 DEF Routing!RemoveProcess, Routing!processVars
<1> QED
  BY <1>7, <1>8, <1>9, <1>10, <1>11, <1>12, <1>13

(* Commands: the chain that is asked covers what was promised, whether it  *)
(* is computed or comes from the cache.                                    *)
LEMMA CommandStep ==
  ASSUME RoutingInv,
         \/ Routing!RouteCommand \/ Routing!InterceptorAllows
         \/ Routing!InterceptorRejects \/ Routing!PassOn
  PROVE  RoutingInv'
<1>1. /\ RoutingTyped /\ procs \in [Processes -> ProcState] /\ routes \in Seq(RouteType)
      /\ socket \in Seq(RouteRequest) /\ cache \in [Actions -> SUBSET Seq(Processes)]
      /\ promised \in SUBSET RouteType /\ PromisesKept /\ UnderCheck
      /\ check = Routing!NoCheck \/ check \in CheckType
  BY DEF RoutingInv, RoutingTyped
<1>2. UNCHANGED <<driver, meta, published, configured, registering, worker, overlapped>> /\ UNCHANGED <<procs, routes, promised>>
  BY DEF Routing!RouteCommand, Routing!InterceptorAllows, Routing!InterceptorRejects, Routing!PassOn,
     Routing!deviceVars, Routing!processVars
<1>3. ConfigFresh' /\ RouteOwners'
  BY <1>2 DEF RoutingInv, ConfigFresh, RouteOwners
<1>4. CASE Routing!RouteCommand
  <2>1. /\ Routing!Takes("command") /\ check = Routing!NoCheck /\ socket' \in Seq(RouteRequest)
        /\ Routing!Req.action \in Actions
    <3>1. Routing!Takes("command")
      BY <1>4 DEF Routing!RouteCommand
    <3>2. /\ check = Routing!NoCheck /\ socket' \in Seq(RouteRequest) /\ Routing!Req \in Routing!Commands
      BY <1>1, <3>1, TakenRequest
    <3> QED
      BY <3>1, <3>2 DEF Routing!Commands
  <2>2. CASE UNCHANGED <<check, cache>>
    BY <1>1, <1>2, <1>3, <2>1, <2>2 DEF RoutingInv, RoutingTyped, PromisesKept, UnderCheck
  <2>3. CASE ~UNCHANGED <<check, cache>>
    <3> PICK a : a = Routing!Req.action
      OBVIOUS
    <3> PICK c : c = Routing!Chain(a)
      OBVIOUS
    <3>1. /\ check' = [action |-> a, chain |-> c, asked |-> {}]
          /\ cache' = [cache EXCEPT ![a] = {c}]
      BY <1>4, <2>3 DEF Routing!RouteCommand
    <3>2. c \in Seq(Processes) /\ \A rt \in promised : Routing!Matches(rt, a) => InSeq(rt.pid, c)
      <4>1. CASE cache[a] # {}
        <5>1. c = CHOOSE x \in cache[a] : TRUE
          BY <4>1 DEF Routing!Chain
        <5>2. c \in cache[a]
          BY <4>1, <5>1
        <5> QED
          BY <1>1, <2>1, <5>2 DEF PromisesKept
      <4>2. CASE cache[a] = {}
        <5>1. c = Routing!ComputedChain(a)
          BY <4>2 DEF Routing!Chain
        <5>2. /\ c \in Seq(Processes)
              /\ \A n \in DOMAIN routes : Routing!Matches(routes[n], a) => InSeq(routes[n].pid, c)
          BY <1>1, <5>1, ChainAsksAll
        <5>3. \A rt \in promised : \E n \in DOMAIN routes : routes[n] = rt
          BY <1>1 DEF PromisesKept, InSeq
        <5> QED
          BY <5>2, <5>3
      <4> QED
        BY <4>1, <4>2
    <3>3. check' \in CheckType /\ cache' \in [Actions -> SUBSET Seq(Processes)]
      BY <1>1, <2>1, <3>1, <3>2 DEF CheckType
    <3>4. RoutingTyped'
      BY <1>1, <1>2, <2>1, <3>3 DEF RoutingTyped
    <3>5. UnderCheck'
      <4>1. check'.action = a /\ check'.chain = c
        BY <3>1
      <4> QED
        BY <1>2, <3>2, <4>1 DEF UnderCheck, Routing!Matches
    <3>6. ASSUME NEW b \in Actions, NEW d \in cache'[b], NEW rt \in promised, Routing!Matches(rt, b)
          PROVE  InSeq(rt.pid, d)
      <4>1. CASE b = a
        BY <1>1, <2>1, <3>1, <3>2, <3>6, <4>1
      <4>2. CASE b # a
        BY <1>1, <2>1, <3>1, <3>6, <4>2 DEF PromisesKept
      <4> QED
        BY <4>1, <4>2
    <3>7. PromisesKept'
      BY <1>1, <1>2, <3>6 DEF PromisesKept, Routing!Matches
    <3> QED
      BY <1>3, <3>4, <3>5, <3>7 DEF RoutingInv
  <2> QED
    BY <2>2, <2>3
<1>5. CASE Routing!InterceptorAllows
  <2>1. /\ check \in CheckType /\ check.chain # <<>> /\ UNCHANGED <<socket, cache>>
        /\ check' = [check EXCEPT !.chain = Tail(@), !.asked = @ \cup {Head(check.chain)}]
    BY <1>1, <1>5 DEF Routing!InterceptorAllows, Routing!Asking, Routing!processVars
  <2> PICK c : c = check.chain
    OBVIOUS
  <2>2. c \in Seq(Processes) /\ c # <<>> /\ Head(c) \in Processes /\ Tail(c) \in Seq(Processes) /\ check.asked \in SUBSET Processes
    BY <2>1 DEF CheckType
  <2>3. check' = [check EXCEPT !.chain = Tail(c), !.asked = check.asked \cup {Head(c)}]
    BY <2>1
  <2>4. /\ check' \in CheckType /\ check'.action = check.action /\ check'.chain = Tail(c)
        /\ check'.asked = check.asked \cup {Head(c)}
    <3> PICK asked : asked = check.asked \cup {Head(c)}
      OBVIOUS
    <3> PICK rest : rest = Tail(c)
      OBVIOUS
    <3>1. asked \in SUBSET Processes /\ rest \in Seq(Processes)
      BY <2>2
    <3>2. check' = [check EXCEPT !.chain = rest, !.asked = asked]
      BY <2>3
    <3>3. /\ check' \in CheckType /\ check'.action = check.action
          /\ check'.chain = rest /\ check'.asked = asked
      BY <2>1, <3>1, <3>2 DEF CheckType
    <3> QED
      BY <3>3
  <2>5. ASSUME NEW p, InSeq(p, c) PROVE p = Head(c) \/ InSeq(p, Tail(c))
    <3>1. PICK i \in DOMAIN c : c[i] = p
      BY <2>5 DEF InSeq
    <3>2. CASE i = 1
      BY <2>2, <3>1, <3>2
    <3>3. CASE i # 1
      <4>1. i - 1 \in DOMAIN Tail(c) /\ Tail(c)[i - 1] = p
        <5>1. Len(c) \in Nat /\ i \in 1..Len(c) /\ Len(Tail(c)) = Len(c) - 1 /\ DOMAIN Tail(c) = 1..Len(Tail(c))
          BY <2>2, <3>1
        <5>2. \A k \in 1..Len(Tail(c)) : Tail(c)[k] = c[k + 1]
          BY <2>2, HeadTailProperties
        <5>3. i - 1 \in 1..Len(Tail(c)) /\ (i - 1) + 1 = i
          BY <3>3, <5>1
        <5> QED
          BY <3>1, <5>1, <5>2, <5>3
      <4> QED
        BY <4>1 DEF InSeq
    <3> QED
      BY <3>2, <3>3
  <2>6. UnderCheck'
    <3>1. check # Routing!NoCheck
      BY <1>5 DEF Routing!InterceptorAllows, Routing!Asking
    <3>2. \A rt \in promised : Routing!Matches(rt, check.action) => rt.pid \in check.asked \/ InSeq(rt.pid, c)
      BY <1>1, <3>1 DEF UnderCheck
    <3> QED
      BY <1>2, <2>4, <2>5, <3>2 DEF UnderCheck, Routing!Matches
  <2> QED
    BY <1>1, <1>2, <1>3, <2>1, <2>4, <2>6 DEF RoutingInv, RoutingTyped, PromisesKept, Routing!Matches
<1>6. CASE Routing!InterceptorRejects \/ Routing!PassOn
  <2>1. check' = Routing!NoCheck /\ UNCHANGED <<socket, cache>>
    BY <1>6 DEF Routing!InterceptorRejects, Routing!PassOn, Routing!processVars
  <2> QED
    BY <1>1, <1>2, <1>3, <2>1 DEF RoutingInv, RoutingTyped, PromisesKept, UnderCheck, Routing!Matches, Routing!NoCheck
<1> QED
  BY <1>4, <1>5, <1>6

(* The device's driver and its registration.                               *)
LEMMA RegistrationStep ==
  ASSUME RoutingInv,
         \/ Routing!DriverStarts \/ Routing!DriverPosts \/ Routing!DriverExits
         \/ Routing!DriverRegisters \/ Routing!RegistrationPublishes \/ Routing!RegistrationEnds
  PROVE  RoutingInv'
<1>1. RoutingTyped /\ procs \in [Processes -> ProcState] /\ socket \in Seq(RouteRequest) /\ ConfigFresh
  BY DEF RoutingInv, RoutingTyped
<1>2. UNCHANGED <<procs, routes, cache, promised>> /\ UNCHANGED <<check, socket, meta>>
  BY DEF Routing!DriverStarts, Routing!DriverPosts, Routing!DriverExits, Routing!DriverRegisters,
     Routing!RegistrationPublishes, Routing!RegistrationEnds, Routing!processVars
<1>3. ConfigFresh'
  <2>1. CASE Routing!DriverStarts \/ Routing!DriverPosts \/ Routing!DriverExits
    BY <1>1, <2>1 DEF Routing!DriverStarts, Routing!DriverPosts, Routing!DriverExits, ConfigFresh
  <2>2. CASE Routing!DriverRegisters
    BY <1>1, <2>2 DEF Routing!DriverRegisters, ConfigFresh
  <2>3. CASE Routing!RegistrationPublishes
    BY <1>1, <2>3 DEF Routing!RegistrationPublishes, Routing!Payload, ConfigFresh
  <2>4. CASE Routing!RegistrationEnds
    BY <1>1, <2>4 DEF Routing!RegistrationEnds, ConfigFresh
  <2> QED
    BY <2>1, <2>2, <2>3, <2>4
<1> QED
  BY <1>1, <1>2, <1>3, RoutesUntouched

(* The restart on a worker, changes of the metadata, and requests that     *)
(* arrive.                                                                 *)
LEMMA DeviceStep ==
  ASSUME RoutingInv,
         \/ \E req \in RouteRequest : Routing!Send(req)
         \/ Routing!RestartStops \/ Routing!RestartReloads \/ Routing!RestartEnds
         \/ Routing!MetadataSet \/ Routing!MetadataClear
  PROVE  RoutingInv'
<1>1. RoutingTyped /\ procs \in [Processes -> ProcState] /\ socket \in Seq(RouteRequest) /\ ConfigFresh
  BY DEF RoutingInv, RoutingTyped
<1>2. UNCHANGED <<procs, routes, cache, promised>> /\ UNCHANGED check
  BY DEF Routing!Send, Routing!RestartStops, Routing!RestartReloads,
     Routing!RestartEnds, Routing!MetadataSet, Routing!MetadataClear, Routing!processVars
<1>3. socket' \in Seq(RouteRequest)
  <2>1. \/ socket' = socket
        \/ \E req \in RouteRequest : socket' = Append(socket, req)
        \/ socket # <<>> /\ socket' = Tail(socket)
    BY DEF Routing!Send, Routing!RestartStops, Routing!RestartReloads,
       Routing!RestartEnds, Routing!MetadataSet, Routing!MetadataClear, Routing!Takes
  <2> QED
    BY <1>1, <2>1
<1>4. ConfigFresh'
  <2>1. CASE \E req \in RouteRequest : Routing!Send(req)
    BY <1>1, <2>1 DEF Routing!Send, Routing!deviceVars, ConfigFresh
  <2>2. CASE Routing!RestartStops
    BY <1>1, <2>2 DEF Routing!RestartStops, ConfigFresh
  <2>3. CASE Routing!RestartReloads
    BY <1>1, <2>3 DEF Routing!RestartReloads, ConfigFresh
  <2>4. CASE Routing!RestartEnds
    BY <1>1, <2>4 DEF Routing!RestartEnds, ConfigFresh
  <2>5. CASE Routing!MetadataSet \/ Routing!MetadataClear
    <3>1. /\ UNCHANGED <<configured, registering, worker>>
          /\ \/ UNCHANGED <<meta, published, overlapped>>
             \/ published' = meta' /\ overlapped' = FALSE
      BY <2>5 DEF Routing!MetadataSet, Routing!MetadataClear, Routing!Changed
    <3> QED
      BY <1>1, <3>1 DEF ConfigFresh
  <2> QED
    BY <2>1, <2>2, <2>3, <2>4, <2>5
<1> QED
  BY <1>1, <1>2, <1>3, <1>4, RoutesUntouched

(* For any processes, actions, patterns and metadata values, and without a *)
(* bound on requests or reloads: every route belongs to a configured       *)
(* process, a command is passed on only after every process whose matching *)
(* registration was acknowledged has allowed it, and the published device  *)
(* configuration is the present one outside a reload and unless a reload   *)
(* overlapped the publishing of a registration.                            *)
THEOREM RoutingIsSound ==
  Routing!Spec => [](Routing!RoutesHaveOwners /\ Routing!CommandPassedItsChain /\ Routing!PublishedConfigCurrent)
<1>1. Routing!Init => RoutingInv
  <2> SUFFICES ASSUME Routing!Init PROVE RoutingInv
    OBVIOUS
  <2>1. /\ socket = <<>> /\ routes = <<>> /\ cache = [a \in Actions |-> {}] /\ check = Routing!NoCheck
        /\ promised = {} /\ configured = FALSE /\ registering = "no" /\ overlapped = FALSE
    BY DEF Routing!Init
  <2>2. procs \in [Processes -> ProcState]
    BY DEF Routing!Init, Routing!Removed, ProcState
  <2>3. RoutingTyped
    BY <2>1, <2>2 DEF RoutingTyped
  <2>4. PromisesKept /\ UnderCheck /\ RouteOwners
    BY <2>1 DEF PromisesKept, UnderCheck, RouteOwners
  <2>5. ConfigFresh
    BY <2>1 DEF ConfigFresh
  <2> QED
    BY <2>3, <2>4, <2>5 DEF RoutingInv
<1>2. RoutingInv /\ [Routing!Next]_(Routing!routingVars) => RoutingInv'
  <2> SUFFICES ASSUME RoutingInv, [Routing!Next]_(Routing!routingVars) PROVE RoutingInv'
    OBVIOUS
  <2>1. CASE UNCHANGED Routing!routingVars
    BY <2>1 DEF Routing!routingVars, RoutingInv, RoutingTyped, PromisesKept, UnderCheck, RouteOwners, ConfigFresh, Routing!Matches
  <2>2. CASE Routing!Next
    BY <2>2, ProcessRequestStep, CommandStep, RegistrationStep, DeviceStep DEF Routing!Next, RouteRequest
  <2> QED
    BY <2>1, <2>2
<1>3. RoutingInv => Routing!RoutesHaveOwners /\ Routing!CommandPassedItsChain /\ Routing!PublishedConfigCurrent
  <2> SUFFICES ASSUME RoutingInv
               PROVE  Routing!RoutesHaveOwners /\ Routing!CommandPassedItsChain /\ Routing!PublishedConfigCurrent
    OBVIOUS
  <2>1. Routing!RoutesHaveOwners
    BY DEF RoutingInv, RouteOwners, Routing!RoutesHaveOwners
  <2>2. Routing!CommandPassedItsChain
    BY DEF RoutingInv, UnderCheck, InSeq, Routing!CommandPassedItsChain
  <2>3. Routing!PublishedConfigCurrent
    BY DEF RoutingInv, ConfigFresh, Routing!PublishedConfigCurrent, Routing!Payload
  <2> QED
    BY <2>1, <2>2, <2>3
<1> QED
  BY <1>1, <1>2, <1>3, PTL DEF Routing!Spec

-----------------------------------------------------------------------------
(* The watchdog *)

(* What the parsers of the configuration demand: an action chain has an    *)
(* action, and a confirmation counts the samples of one source, or each    *)
(* source with a condition of its own.                                     *)
WatchdogConfigured ==
    /\ IsFiniteSet(Rules) /\ Rules \subseteq Int
    /\ \A r \in Rules :
          /\ Rule[r].retries \in Seq(Nat) /\ Rule[r].retries # <<>>
          /\ Rule[r].need \in Nat /\ Rule[r].aliases \subseteq Signals
          /\ Rule[r].latch \in BOOLEAN /\ Rule[r].disarms \in BOOLEAN
          /\ Rule[r].need > 0 /\ ~Rule[r].branches => \E a \in Signals : Rule[r].aliases = {a}

Reading == {"low", "high", "odd", "bad"}
Result == [ok : BOOLEAN, attempts : Nat]
ChainStatus == [trip : Nat, state : {"none", "running", "completed", "error"}, results : Seq(Result)]
Streak == [n : Nat, last : Nat, ev : SUBSET Nat]
RuleStatus == [latched : BOOLEAN, armed : BOOLEAN, since : {"none", "counting", "elapsed"}, cooling : BOOLEAN,
               trip : Nat, recovered : BOOLEAN, conf : [Signals -> Streak], chain : ChainStatus]
Submitted == [rule : Rules, trip : Nat]
Busied == [phase : {"call", "record", "release"}, rule : Rules, trip : Nat, attempt : Nat, results : Seq(Result)]

DogTyped ==
    /\ sample \in [Signals -> [id : Nat, ok : BOOLEAN]] /\ was \in [Signals -> Seq(Reading)]
    /\ rst \in [Rules -> RuleStatus] /\ inflight \in SUBSET Rules
    /\ queue \in Seq(Submitted) /\ (worker = Dog!IdleWorker \/ worker \in Busied)
    /\ trips \in [Rules -> Nat] /\ clears \in [Rules -> Nat]

(* A latched rule has used its trip, and one that is not has one for each  *)
(* clear left.                                                             *)
LatchHolds ==
    \A r \in Rules : Rule[r].latch = TRUE =>
        /\ rst[r].latched = FALSE => trips[r] <= clears[r]
        /\ trips[r] <= clears[r] + 1

(* The results so far: each action succeeded or used up its retries.       *)
Tried(r, results) ==
    \A i \in DOMAIN results : results[i].ok = TRUE \/ results[i].attempts = 1 + Dog!Actions(r)[i]

(* The chain of a rule's latest trip is the one that is queued or run.     *)
ChainShown(r, c) ==
    /\ c.trip = trips[r]
    /\ c.state = "running" => r \in inflight
    /\ c.state = "completed" => Len(c.results) = Len(Dog!Actions(r)) /\ Tried(r, c.results)

QueueOwned ==
    /\ \A i \in DOMAIN queue : queue[i].rule \in inflight /\ queue[i].trip = trips[queue[i].rule]
    /\ \A i, j \in DOMAIN queue : queue[i].rule = queue[j].rule => i = j

WorkerOwned ==
    worker # Dog!IdleWorker =>
        /\ worker.rule \in inflight /\ worker.trip = trips[worker.rule]
        /\ \A i \in DOMAIN queue : queue[i].rule # worker.rule
        /\ Tried(worker.rule, worker.results)
        /\ worker.phase = "call" => Len(worker.results) < Len(Dog!Actions(worker.rule))
        /\ worker.phase = "record" => Len(worker.results) = Len(Dog!Actions(worker.rule))
        /\ worker.phase = "release" => rst[worker.rule].chain.state # "running"

(* The samples are numbered as they come.                                  *)
SamplesNumbered ==
    \A a \in Signals : sample[a].id = Len(was[a]) /\ (sample[a].ok = TRUE => sample[a].id > 0)

(* The evidence of a streak: its latest samples, at most as many as are    *)
(* needed, all above the threshold.                                        *)
StreakSound(r, a, c) ==
    /\ c.last <= Len(was[a])
    /\ IsFiniteSet(c.ev) /\ Cardinality(c.ev) = IF c.n <= Rule[r].need THEN c.n ELSE Rule[r].need
    /\ \A i \in c.ev : 0 < i /\ i <= c.last /\ was[a][i] = "high"

(* What earlier trips have used is behind every streak.                    *)
UsedUp(r) == tripped[r].ev \cup tripped[r].earlier
StreakFresh(r, a, c) ==
    \A i \in Nat : <<a, i>> \in UsedUp(r) => i <= c.last /\ i \notin c.ev

Streaks ==
    \A r \in Rules : Rule[r].need > 0 =>
        \A a \in Signals : StreakSound(r, a, rst[r].conf[a]) /\ StreakFresh(r, a, rst[r].conf[a])

(* The evidence of the latest trip.                                        *)
Evidence(r, a) == {p \in tripped[r].ev : p[1] = a}
TripRests(r, a) ==
    /\ Cardinality(Evidence(r, a)) = Rule[r].need
    /\ \A p \in Evidence(r, a) : p[2] \in 1..Len(was[a]) /\ was[a][p[2]] = "high"
    /\ Evidence(r, a) \cap tripped[r].earlier = {}
TripsRest ==
    \A r \in Rules : Rule[r].need > 0 =>
        tripped[r].unknown \/ \E a \in Rule[r].aliases : TripRests(r, a)

WatchdogInv ==
    /\ DogTyped /\ LatchHolds /\ \A r \in Rules : ChainShown(r, rst[r].chain)
    /\ QueueOwned /\ WorkerOwned /\ SamplesNumbered /\ Streaks /\ TripsRest

(* The watchdog module counts as this one does.                            *)
LEMMA WatchdogCardinality == \A S : Dog!Cardinality(S) = Cardinality(S)
  BY DEF Dog!Cardinality, Cardinality

(* What a rule says, as the parsers leave it.                              *)
LEMMA RuleSays ==
  ASSUME WatchdogConfigured, NEW r \in Rules
  PROVE  /\ Rule[r].retries \in Seq(Nat) /\ Rule[r].retries # <<>>
         /\ Rule[r].need \in Nat /\ Rule[r].aliases \subseteq Signals
         /\ Rule[r].latch \in BOOLEAN /\ Rule[r].disarms \in BOOLEAN
         /\ r \in Int
  BY DEF WatchdogConfigured

(* A streak that is given up keeps its place in the samples.               *)
IsReset(d, c) == d = [c EXCEPT !.n = 0, !.ev = {}]

(* It stays sound, and behind it is still all that was used.               *)
LEMMA ResetStreak ==
  ASSUME NEW r \in Rules, NEW a \in Signals, NEW c \in Streak, Rule[r].need \in Nat, NEW d, IsReset(d, c)
  PROVE  /\ d \in Streak /\ d.last = c.last /\ d.ev = {}
         /\ StreakSound(r, a, c) /\ StreakFresh(r, a, c) => StreakSound(r, a, d) /\ StreakFresh(r, a, d)
<1>1. d \in Streak /\ d.last = c.last /\ d.ev = {} /\ d.n = 0
  BY DEF Streak, IsReset
<1>2. StreakSound(r, a, c) => StreakSound(r, a, d)
  BY <1>1, FS_EmptySet DEF StreakSound
<1>3. StreakFresh(r, a, c) => StreakFresh(r, a, d)
  BY <1>1 DEF StreakFresh
<1> QED
  BY <1>1, <1>2, <1>3

(* Removing the oldest of a set of numbers removes one.                    *)
LEMMA TrimmedEvidence ==
  ASSUME NEW S \in SUBSET Nat, IsFiniteSet(S), S # {}
  PROVE  /\ IsFiniteSet(S \ {Dog!Min(S)}) /\ Cardinality(S \ {Dog!Min(S)}) = Cardinality(S) - 1
         /\ S \ {Dog!Min(S)} \in SUBSET S
<1>1. \E l \in S : \A m \in S : l <= m
  <2>1. S \subseteq Int
    OBVIOUS
  <2> QED
    BY <2>1, SmallestOf
<1> PICK l : l = Dog!Min(S)
  OBVIOUS
<1>2. l = CHOOSE x \in S : \A y \in S : x <= y
  BY DEF Dog!Min
<1>3. l \in S
  BY <1>1, <1>2
<1> QED
  BY <1>3, FS_RemoveElement

(* The fields of a streak.                                                 *)
IsStreak(d, m, l, e) == d = [n |-> m, last |-> l, ev |-> e]

(* They are what the record is made of.                                    *)
LEMMA StreakRecord ==
  ASSUME NEW m \in Nat, NEW l \in Nat, NEW e \in SUBSET Nat, NEW d, IsStreak(d, m, l, e)
  PROVE  d \in Streak /\ d.n = m /\ d.last = l /\ d.ev = e
  BY DEF Streak, IsStreak

(* One more look at a source, while the alarm is on.                       *)
LEMMA CountedStreak ==
  ASSUME WatchdogConfigured, DogTyped, SamplesNumbered,
         NEW r \in Rules, NEW a \in Rule[r].aliases, a \in Signals, NEW c \in Streak, Rule[r].need > 0,
         StreakSound(r, a, c), StreakFresh(r, a, c), Dog!Alarm(r), ~Dog!Unknown(r)
  PROVE  /\ Dog!Counted(r, c, a) \in Streak
         /\ StreakSound(r, a, Dog!Counted(r, c, a))
         /\ StreakFresh(r, a, Dog!Counted(r, c, a))
<1> PICK d : d = Dog!Counted(r, c, a)
  OBVIOUS
<1> PICK id : id = sample[a].id
  OBVIOUS
<1>1. /\ id = Len(was[a]) /\ id \in Nat /\ Rule[r].need \in Nat /\ sample[a].ok \in BOOLEAN
      /\ (sample[a].ok = TRUE => id > 0)
      /\ c.n \in Nat /\ c.last \in Nat /\ c.ev \in SUBSET Nat
  <2>1. sample[a] \in [id : Nat, ok : BOOLEAN]
    BY DEF DogTyped
  <2>2. Rule[r].need \in Nat
    BY RuleSays
  <2> QED
    BY <2>1, <2>2 DEF SamplesNumbered, Streak
<1>2. /\ c.last <= id /\ IsFiniteSet(c.ev)
      /\ Cardinality(c.ev) = IF c.n <= Rule[r].need THEN c.n ELSE Rule[r].need
      /\ \A i \in c.ev : 0 < i /\ i <= c.last /\ was[a][i] = "high"
      /\ \A i \in Nat : <<a, i>> \in UsedUp(r) => i <= c.last /\ i \notin c.ev
  BY <1>1 DEF StreakSound, StreakFresh
<1>3. CASE d = [n |-> 0, last |-> id, ev |-> {}]
  <2>1. d \in Streak /\ d.n = 0 /\ d.last = id /\ d.ev = {}
    BY <1>1, <1>3 DEF Streak
  <2>2. StreakSound(r, a, d)
    BY <1>1, <2>1, FS_EmptySet DEF StreakSound
  <2>3. StreakFresh(r, a, d)
    BY <1>1, <1>2, <2>1 DEF StreakFresh
  <2> QED
    BY <2>1, <2>2, <2>3
<1>4. CASE d = c
  BY <1>4
<1>5. CASE /\ sample[a].ok = TRUE /\ id # c.last /\ ~(Rule[r].branches /\ ~Dog!High(a))
           /\ d = [n |-> c.n + 1, last |-> id,
                   ev |-> IF Dog!Cardinality(c.ev \cup {id}) > Rule[r].need
                          THEN (c.ev \cup {id}) \ {Dog!Min(c.ev \cup {id})} ELSE c.ev \cup {id}]
  <2>1. was[a][id] = "high"
    <3>1. Dog!High(a)
      <4>1. CASE Rule[r].branches
        BY <1>5, <4>1
      <4>2. CASE ~Rule[r].branches
        <5>1. PICK b \in Signals : Rule[r].aliases = {b}
          BY <4>2 DEF WatchdogConfigured
        <5>2. \E e \in Rule[r].aliases : Dog!High(e)
          BY DEF Dog!Alarm
        <5> QED
          BY <5>1, <5>2
      <4> QED
        BY <4>1, <4>2
    <3> QED
      BY <3>1 DEF Dog!High, Dog!Value
  <2> PICK ev : ev = c.ev \cup {id}
    OBVIOUS
  <2>2. id \notin c.ev /\ ev \in SUBSET Nat /\ ev # {}
    BY <1>1, <1>2, <1>5
  <2>3. IsFiniteSet(ev) /\ Cardinality(ev) = Cardinality(c.ev) + 1 /\ Cardinality(ev) \in Nat
    BY <1>1, <1>2, <2>2, FS_AddElement, FS_CardinalityType
  <2>kept. PICK kept : kept = IF Cardinality(ev) > Rule[r].need THEN ev \ {Dog!Min(ev)} ELSE ev
    OBVIOUS
  <2>4. d = [n |-> c.n + 1, last |-> id, ev |-> kept]
    BY <1>5, <2>kept, WatchdogCardinality
  <2>5. /\ kept \in SUBSET ev /\ IsFiniteSet(kept)
        /\ Cardinality(kept) = IF Cardinality(ev) > Rule[r].need THEN Cardinality(ev) - 1 ELSE Cardinality(ev)
    <3>1. /\ IsFiniteSet(ev \ {Dog!Min(ev)}) /\ Cardinality(ev \ {Dog!Min(ev)}) = Cardinality(ev) - 1
          /\ ev \ {Dog!Min(ev)} \in SUBSET ev
      BY <2>2, <2>3, TrimmedEvidence
    <3>2. CASE Cardinality(ev) > Rule[r].need
      BY <2>kept, <3>1, <3>2
    <3>3. CASE ~(Cardinality(ev) > Rule[r].need)
      BY <2>kept, <2>3, <3>3
    <3> QED
      BY <3>2, <3>3
  <2>6. Cardinality(kept) = IF c.n + 1 <= Rule[r].need THEN c.n + 1 ELSE Rule[r].need
    <3>1. CASE c.n + 1 <= Rule[r].need
      <4>1. Cardinality(c.ev) = c.n
        BY <1>1, <1>2, <3>1
      <4>2. Cardinality(ev) = c.n + 1 /\ ~(Cardinality(ev) > Rule[r].need)
        BY <1>1, <2>3, <3>1, <4>1
      <4> QED
        BY <2>5, <3>1, <4>2
    <3>2. CASE ~(c.n + 1 <= Rule[r].need)
      <4>1. Cardinality(c.ev) = Rule[r].need
        BY <1>1, <1>2, <3>2
      <4>2. Cardinality(ev) = Rule[r].need + 1 /\ Cardinality(ev) > Rule[r].need
        BY <1>1, <2>3, <4>1
      <4>3. Cardinality(kept) = Cardinality(ev) - 1
        BY <2>5, <4>2
      <4> QED
        BY <1>1, <3>2, <4>2, <4>3
    <3> QED
      BY <3>1, <3>2
  <2>7. d \in Streak /\ d.n = c.n + 1 /\ d.last = id /\ d.ev = kept
    <3> PICK m : m = c.n + 1
      OBVIOUS
    <3>1. kept \in SUBSET Nat /\ m \in Nat
      BY <1>1, <2>2, <2>5
    <3>2. IsStreak(d, m, id, kept)
      BY <2>4 DEF IsStreak
    <3>4. id \in Nat
      BY <1>1
    <3>3. d \in Streak /\ d.n = m /\ d.last = id /\ d.ev = kept
      BY <3>1, <3>2, <3>4, StreakRecord
    <3> QED
      BY <3>3
  <2>8. \A i \in kept : 0 < i /\ i <= id /\ was[a][i] = "high"
    <3>1. ASSUME NEW i \in kept PROVE 0 < i /\ i <= id /\ was[a][i] = "high"
      <4>1. CASE i = id
        BY <1>1, <1>5, <2>1, <4>1
      <4>2. CASE i \in c.ev
        BY <1>1, <1>2, <4>2
      <4> QED
        BY <2>5, <4>1, <4>2
    <3> QED
      BY <3>1
  <2>9. StreakSound(r, a, d)
    <3>1. id <= Len(was[a])
      BY <1>1
    <3> QED
      BY <2>5, <2>6, <2>7, <2>8, <3>1, Zenon DEF StreakSound
  <2>10. StreakFresh(r, a, d)
    <3>1. ASSUME NEW i \in Nat, <<a, i>> \in UsedUp(r) PROVE i <= id /\ i \notin kept
      <4>1. i <= c.last /\ i \notin c.ev
        BY <1>2, <3>1
      <4> QED
        BY <1>1, <1>2, <1>5, <2>5, <4>1
    <3> QED
      BY <2>7, <3>1 DEF StreakFresh
  <2> QED
    BY <2>7, <2>9, <2>10
<1> QED
  BY <1>1, <1>3, <1>4, <1>5 DEF Dog!Counted

(* The streaks of a rule after a look at all its sources.                  *)
StreaksOf(r, conf) ==
    /\ conf \in [Signals -> Streak]
    /\ Rule[r].need > 0 => \A a \in Signals : StreakSound(r, a, conf[a]) /\ StreakFresh(r, a, conf[a])

(* Giving up the streaks of a rule keeps them sound.                       *)
LEMMA ResetStreaks ==
  ASSUME WatchdogConfigured, NEW r \in Rules, NEW conf, StreaksOf(r, conf)
  PROVE  /\ StreaksOf(r, Dog!ResetConfirmation(conf))
         /\ \A a \in Signals : Dog!ResetConfirmation(conf)[a].ev = {} /\ Dog!ResetConfirmation(conf)[a].last = conf[a].last
<1> PICK g : g = Dog!ResetConfirmation(conf)
  OBVIOUS
<1>1. g = [a \in Signals |-> [conf[a] EXCEPT !.n = 0, !.ev = {}]]
  BY DEF Dog!ResetConfirmation
<1>2. ASSUME NEW a \in Signals
      PROVE  /\ g[a] \in Streak /\ g[a].ev = {} /\ g[a].last = conf[a].last
             /\ Rule[r].need > 0 => StreakSound(r, a, g[a]) /\ StreakFresh(r, a, g[a])
  <2>1. conf[a] \in Streak /\ IsReset(g[a], conf[a])
    BY <1>1 DEF StreaksOf, IsReset
  <2>2. /\ g[a] \in Streak /\ g[a].ev = {} /\ g[a].last = conf[a].last
        /\ StreakSound(r, a, conf[a]) /\ StreakFresh(r, a, conf[a]) => StreakSound(r, a, g[a]) /\ StreakFresh(r, a, g[a])
    <3>1. Rule[r].need \in Nat
      BY RuleSays
    <3> QED
      BY <2>1, <3>1, ResetStreak
  <2> QED
    BY <2>2 DEF StreaksOf
<1>3. g \in [Signals -> Streak]
  BY <1>1, <1>2
<1> QED
  BY <1>2, <1>3 DEF StreaksOf

(* And so does counting on while the alarm is on.                          *)
LEMMA ConfirmationStreaks ==
  ASSUME WatchdogConfigured, DogTyped, SamplesNumbered,
         NEW r \in Rules, NEW s, StreaksOf(r, s.conf), Dog!Alarm(r)
  PROVE  StreaksOf(r, Dog!Confirmation(r, s))
<1> PICK g : g = Dog!Confirmation(r, s)
  OBVIOUS
<1>1. CASE Rule[r].need = 0
  BY <1>1 DEF Dog!Confirmation
<1>2. CASE Rule[r].need # 0 /\ Dog!Unknown(r)
  BY <1>2, ResetStreaks DEF Dog!Confirmation
<1>3. CASE Rule[r].need # 0 /\ ~Dog!Unknown(r)
  <2>1. Rule[r].need > 0 /\ Rule[r].aliases \subseteq Signals
    BY <1>3, RuleSays
  <2>2. g = [a \in Signals |-> IF a \in Rule[r].aliases THEN Dog!Counted(r, s.conf[a], a) ELSE s.conf[a]]
    BY <1>3 DEF Dog!Confirmation
  <2>3. ASSUME NEW a \in Signals
        PROVE  g[a] \in Streak /\ StreakSound(r, a, g[a]) /\ StreakFresh(r, a, g[a])
    <3>1. s.conf[a] \in Streak /\ StreakSound(r, a, s.conf[a]) /\ StreakFresh(r, a, s.conf[a])
      BY <2>1 DEF StreaksOf
    <3>2. CASE a \in Rule[r].aliases
      <4>1. g[a] = Dog!Counted(r, s.conf[a], a)
        BY <2>2, <3>2
      <4> QED
        BY <1>3, <2>1, <3>1, <3>2, <4>1, CountedStreak
    <3>3. CASE a \notin Rule[r].aliases
      BY <2>2, <3>1, <3>3
    <3> QED
      BY <3>2, <3>3
  <2>4. g \in [Signals -> Streak]
    BY <2>2, <2>3
  <2> QED
    BY <2>3, <2>4 DEF StreaksOf
<1> QED
  BY <1>1, <1>2, <1>3

(* A rule that triggers is latched, or not, and may be disarmed.           *)
IsLatched(t, s, latch, armed) == t = [s EXCEPT !.latched = latch, !.armed = armed]

(* Nothing else of it changes.                                             *)
LEMMA LatchedRule ==
  ASSUME NEW s \in RuleStatus, NEW latch \in BOOLEAN, NEW armed \in BOOLEAN, NEW t, IsLatched(t, s, latch, armed)
  PROVE  t \in RuleStatus /\ t.chain = s.chain /\ t.conf = s.conf /\ t.latched = latch
  BY DEF RuleStatus, IsLatched

(* What an evaluation makes of a rule's state: it trips only when it is    *)
(* not latched already and, unless a binding is unknown, a streak is long  *)
(* enough.                                                                 *)
Outcome(r, old, e) ==
    /\ e.s \in RuleStatus /\ e.s.chain = old.chain /\ StreaksOf(r, e.s.conf)
    /\ ~e.triggered => e.s.latched = old.latched
    /\ e.triggered => /\ e.s.latched = Rule[r].latch
                      /\ Rule[r].latch = TRUE => old.latched = FALSE
                      /\ Dog!Confirmed(r, e.s.conf)

(* evaluate_watchdog_rule has such an outcome.                             *)
LEMMA EvaluateOutcome ==
  ASSUME WatchdogConfigured, DogTyped, SamplesNumbered,
         NEW r \in Rules, NEW old \in RuleStatus, StreaksOf(r, old.conf)
  PROVE  Outcome(r, old, Dog!Evaluate(r, old))
<1> PICK e : e = Dog!Evaluate(r, old)
  OBVIOUS
<1> PICK c : c = Dog!Confirmation(r, old)
  OBVIOUS
<1>since. PICK since : since = IF ~Rule[r].stable THEN "elapsed" ELSE IF old.since = "none" THEN "counting" ELSE old.since
  OBVIOUS
<1>s. PICK s : s = [old EXCEPT !.conf = c, !.since = since]
  OBVIOUS
<1>quiet. PICK quiet : quiet = [old EXCEPT !.since = "none", !.conf = Dog!ResetConfirmation(old.conf)]
  OBVIOUS
<1>1. /\ Rule[r].latch \in BOOLEAN /\ Rule[r].disarms \in BOOLEAN /\ since \in {"none", "counting", "elapsed"}
      /\ old.latched \in BOOLEAN /\ old.armed \in BOOLEAN
  BY <1>since, RuleSays DEF RuleStatus
<1>2. \/ e = [s |-> quiet, triggered |-> FALSE]
      \/ e = [s |-> old, triggered |-> FALSE]
      \/ Dog!Alarm(r) /\ e = [s |-> s, triggered |-> FALSE]
      \/ /\ Dog!Alarm(r) /\ ~Dog!Waits(r, old) /\ Dog!Confirmed(r, s.conf)
         /\ e = [s |-> [s EXCEPT !.latched = Rule[r].latch, !.armed = @ /\ ~Rule[r].disarms], triggered |-> TRUE]
  BY <1>since, <1>s, <1>quiet DEF Dog!Evaluate
<1>3. Dog!Alarm(r) => StreaksOf(r, c)
  BY ConfirmationStreaks
<1>4. CASE e = [s |-> quiet, triggered |-> FALSE]
  <2> PICK g : g = Dog!ResetConfirmation(old.conf)
    OBVIOUS
  <2>1. StreaksOf(r, g) /\ g \in [Signals -> Streak]
    BY ResetStreaks DEF StreaksOf
  <2>2. quiet = [old EXCEPT !.since = "none", !.conf = g]
    BY <1>quiet
  <2>3. quiet \in RuleStatus /\ quiet.chain = old.chain /\ quiet.conf = g /\ quiet.latched = old.latched
    BY <2>1, <2>2 DEF RuleStatus
  <2>4. e.s = quiet /\ e.triggered = FALSE
    BY <1>4
  <2> QED
    BY <2>1, <2>3, <2>4 DEF Outcome
<1>5. CASE e = [s |-> old, triggered |-> FALSE]
  <2>1. e.s = old /\ e.triggered = FALSE
    BY <1>5
  <2> QED
    BY <2>1 DEF Outcome
<1>6. ASSUME Dog!Alarm(r)
      PROVE  s \in RuleStatus /\ s.chain = old.chain /\ s.conf = c /\ s.latched = old.latched /\ s.armed = old.armed
  <2>1. c \in [Signals -> Streak]
    BY <1>3, <1>6 DEF StreaksOf
  <2> QED
    BY <1>1, <1>s, <2>1 DEF RuleStatus
<1>7. CASE Dog!Alarm(r) /\ e = [s |-> s, triggered |-> FALSE]
  <2>1. e.s = s /\ e.triggered = FALSE
    BY <1>7
  <2> QED
    BY <1>3, <1>6, <1>7, <2>1 DEF Outcome
<1>8. CASE /\ Dog!Alarm(r) /\ ~Dog!Waits(r, old) /\ Dog!Confirmed(r, s.conf)
           /\ e = [s |-> [s EXCEPT !.latched = Rule[r].latch, !.armed = @ /\ ~Rule[r].disarms], triggered |-> TRUE]
  <2>armed. PICK armed : armed = (s.armed /\ ~Rule[r].disarms)
    OBVIOUS
  <2>t. PICK t : t = [s EXCEPT !.latched = Rule[r].latch, !.armed = armed]
    OBVIOUS
  <2>1. e.s = t /\ e.triggered = TRUE
    BY <1>8, <2>armed, <2>t
  <2>2. armed \in BOOLEAN
    BY <2>armed
  <2>3. t \in RuleStatus /\ t.chain = s.chain /\ t.conf = s.conf /\ t.latched = Rule[r].latch
    <3>1. Rule[r].latch \in BOOLEAN /\ s \in RuleStatus /\ IsLatched(t, s, Rule[r].latch, armed)
      BY <1>1, <1>6, <1>8, <2>t DEF IsLatched
    <3> QED
      BY <2>2, <3>1, LatchedRule
  <2>4. Rule[r].latch = TRUE => old.latched = FALSE
    BY <1>1, <1>8 DEF Dog!Waits
  <2> QED
    <3>1. s.chain = old.chain /\ s.conf = c /\ StreaksOf(r, c) /\ Dog!Confirmed(r, c)
      BY <1>3, <1>6, <1>8
    <3>2. /\ e.s \in RuleStatus /\ e.s.chain = old.chain /\ e.s.conf = c /\ e.s.latched = Rule[r].latch
      BY <2>1, <2>3, <3>1
    <3> QED
      BY <2>1, <2>4, <3>1, <3>2 DEF Outcome
<1> QED
  BY <1>2, <1>4, <1>5, <1>7, <1>8

(* Recovery and a trip, as far as they touch what is said here.            *)
LEMMA RecoveredOutcome ==
  ASSUME NEW r, NEW s \in RuleStatus, NEW t, t = Dog!Recovered(r, s)
  PROVE  t \in RuleStatus /\ t.latched = s.latched /\ t.conf = s.conf /\ t.chain = s.chain
<1>1. CASE t = s
  BY <1>1
<1>2. CASE t = [s EXCEPT !.recovered = TRUE, !.trip = IF s.latched THEN s.trip ELSE 0]
  <2> PICK active : active = IF s.latched THEN s.trip ELSE 0
    OBVIOUS
  <2>1. active \in Nat /\ t = [s EXCEPT !.recovered = TRUE, !.trip = active]
    BY <1>2 DEF RuleStatus
  <2> QED
    BY <2>1 DEF RuleStatus
<1> QED
  BY <1>1, <1>2 DEF Dog!Recovered

(* A trip leaves the latch, shows a running chain and gives up the streaks.*)
LEMMA TrippedOutcome ==
  ASSUME WatchdogConfigured, NEW r \in Rules, NEW s \in RuleStatus, StreaksOf(r, s.conf), NEW id \in Nat, NEW t, t = Dog!Tripped(s, id)
  PROVE  /\ t \in RuleStatus /\ t.latched = s.latched
         /\ t.chain.trip = id /\ t.chain.state = "running"
         /\ t.conf = Dog!ResetConfirmation(s.conf)
<1> PICK g : g = Dog!ResetConfirmation(s.conf)
  OBVIOUS
<1> PICK ch : ch = [trip |-> id, state |-> "running", results |-> <<>>]
  OBVIOUS
<1>1. g \in [Signals -> Streak]
  BY ResetStreaks DEF StreaksOf
<1>2. ch \in ChainStatus /\ ch.trip = id /\ ch.state = "running"
  BY DEF ChainStatus
<1>3. t = [s EXCEPT !.cooling = TRUE, !.trip = id, !.recovered = FALSE, !.chain = ch, !.conf = g]
  BY DEF Dog!Tripped
<1>4. t \in RuleStatus /\ t.latched = s.latched /\ t.chain = ch /\ t.conf = g
  BY <1>1, <1>2, <1>3 DEF RuleStatus
<1> QED
  BY <1>2, <1>4

(* The evidence a trip is given, and that the streak it rests on is long   *)
(* enough.                                                                 *)
EvidenceOf(r, conf) == UNION {{<<a, i>> : i \in conf[a].ev} : a \in Rule[r].aliases}

(* A confirmed trip rests on `need' unused samples of one source.          *)
LEMMA EvidenceRests ==
  ASSUME WatchdogConfigured, NEW r \in Rules, NEW conf, StreaksOf(r, conf), Rule[r].need > 0,
         Dog!Confirmed(r, conf), ~Dog!Unknown(r)
  PROVE  \E a \in Rule[r].aliases :
           LET mine == {p \in EvidenceOf(r, conf) : p[1] = a}
           IN  /\ Cardinality(mine) = Rule[r].need
               /\ \A p \in mine : p[2] \in 1..Len(was[a]) /\ was[a][p[2]] = "high"
               /\ mine \cap UsedUp(r) = {}
<1>1. Rule[r].need \in Nat /\ Rule[r].aliases \subseteq Signals
  BY RuleSays
<1>2. PICK a \in Rule[r].aliases : conf[a].n >= Rule[r].need
  BY <1>1 DEF Dog!Confirmed
<1> PICK ev : ev = conf[a].ev
  OBVIOUS
<1> PICK mine : mine = {p \in EvidenceOf(r, conf) : p[1] = a}
  OBVIOUS
<1>3. /\ conf[a] \in Streak /\ StreakSound(r, a, conf[a]) /\ StreakFresh(r, a, conf[a])
      /\ conf[a].n \in Nat /\ conf[a].last \in Nat /\ ev \in SUBSET Nat
  BY <1>1, <1>2 DEF StreaksOf, Streak
<1>4. mine = {<<a, i>> : i \in ev}
  BY DEF EvidenceOf
<1>5. IsFiniteSet(ev) /\ Cardinality(ev) = Rule[r].need
  BY <1>1, <1>2, <1>3 DEF StreakSound
<1>6. Cardinality(mine) = Rule[r].need
  <2> PICK f : f = [i \in ev |-> <<a, i>>]
    OBVIOUS
  <2>1. f \in Bijection(ev, mine)
    <3>1. f \in [ev -> mine]
      BY <1>4
    <3>2. \A i, j \in ev : f[i] = f[j] => i = j
      OBVIOUS
    <3>3. \A p \in mine : \E i \in ev : f[i] = p
      BY <1>4
    <3> QED
      BY <3>1, <3>2, <3>3 DEF Bijection, Injection, Surjection, IsInjective
  <2> QED
    BY <1>5, <2>1, FS_Bijection DEF ExistsBijection
<1>7. ASSUME NEW p \in mine
      PROVE  p[2] \in 1..Len(was[a]) /\ was[a][p[2]] = "high" /\ p \notin UsedUp(r)
  <2>1. PICK i \in ev : p = <<a, i>>
    BY <1>4
  <2>2. i \in Nat /\ 0 < i /\ i <= conf[a].last /\ conf[a].last <= Len(was[a]) /\ was[a][i] = "high"
    BY <1>3, <2>1 DEF StreakSound
  <2>3. <<a, i>> \notin UsedUp(r)
    BY <1>3, <2>1, <2>2 DEF StreakFresh
  <2> QED
    BY <1>3, <2>1, <2>2, <2>3
<1> QED
  BY <1>2, <1>6, <1>7

(* Every rule's part of the invariant.                                     *)
LEMMA RuleStreaks ==
  ASSUME WatchdogInv, NEW r \in Rules
  PROVE  rst[r] \in RuleStatus /\ StreaksOf(r, rst[r].conf) /\ rst[r].chain \in ChainStatus
<1>1. rst[r] \in RuleStatus
  BY DEF WatchdogInv, DogTyped
<1>2. rst[r].conf \in [Signals -> Streak] /\ rst[r].chain \in ChainStatus
  BY <1>1 DEF RuleStatus
<1> QED
  BY <1>1, <1>2 DEF StreaksOf, WatchdogInv, Streaks

(* A step that leaves trips, chains and the worker's queue alone.          *)
LEMMA ChainsUntouched ==
  ASSUME WatchdogInv, UNCHANGED <<inflight, queue, worker, trips>>,
         \A r \in Rules : rst'[r].chain = rst[r].chain
  PROVE  (\A r \in Rules : ChainShown(r, rst[r].chain))' /\ QueueOwned' /\ WorkerOwned'
<1>1. (\A r \in Rules : ChainShown(r, rst[r].chain))'
  BY DEF WatchdogInv, ChainShown, Tried, Dog!Actions
<1>2. QueueOwned'
  BY DEF WatchdogInv, QueueOwned
<1>3. WorkerOwned'
  <2>1. worker # Dog!IdleWorker => worker.rule \in Rules
    BY DEF WatchdogInv, DogTyped, Busied
  <2> QED
    BY <2>1 DEF WatchdogInv, WorkerOwned, Tried, Dog!Actions
<1> QED
  BY <1>1, <1>2, <1>3

(* Samples arrive and grow old; the evidence is about samples that came    *)
(* before.                                                                 *)
LEMMA SampleStep ==
  ASSUME WatchdogConfigured, WatchdogInv,
         \/ \E a \in Signals, v \in {"low", "high", "odd", "bad"} : Dog!TelemetryArrives(a, v)
         \/ \E a \in Signals : Dog!SampleAges(a)
  PROVE  WatchdogInv'
<1>1. UNCHANGED <<enabled, rst, inflight, queue, worker, trips, clears, tripped>>
  BY DEF Dog!TelemetryArrives, Dog!SampleAges
<1>2. /\ sample' \in [Signals -> [id : Nat, ok : BOOLEAN]] /\ was' \in [Signals -> Seq(Reading)]
      /\ SamplesNumbered'
      /\ \A a \in Signals : Len(was[a]) <= Len(was'[a]) /\ Len(was[a]) \in Nat /\ Len(was'[a]) \in Nat
      /\ \A a \in Signals : \A i \in 1..Len(was[a]) : was'[a][i] = was[a][i]
  <2>1. /\ sample \in [Signals -> [id : Nat, ok : BOOLEAN]] /\ was \in [Signals -> Seq(Reading)] /\ SamplesNumbered
        /\ \A a \in Signals : was[a] \in Seq(Reading) /\ Len(was[a]) \in Nat
    BY DEF WatchdogInv, DogTyped
  <2>2. CASE \E a \in Signals, v \in {"low", "high", "odd", "bad"} : Dog!TelemetryArrives(a, v)
    <3>1. PICK a \in Signals, v \in {"low", "high", "odd", "bad"} : Dog!TelemetryArrives(a, v)
      BY <2>2
    <3>good. PICK good \in BOOLEAN : good = (v # "bad")
      OBVIOUS
    <3>2. /\ was' = [was EXCEPT ![a] = Append(was[a], v)]
          /\ sample' = [sample EXCEPT ![a] = [id |-> Len(was'[a]), ok |-> good]]
      BY <3>1, <3>good DEF Dog!TelemetryArrives
    <3>3. /\ was'[a] = Append(was[a], v) /\ Len(was'[a]) = Len(was[a]) + 1 /\ was'[a] \in Seq(Reading)
          /\ \A i \in 1..Len(was[a]) : was'[a][i] = was[a][i]
      <4>1. was'[a] = Append(was[a], v) /\ was[a] \in Seq(Reading)
        BY <2>1, <3>2
      <4>2. v \in Reading
        BY DEF Reading
      <4>3. Append(was[a], v) \in Seq(Reading) /\ Len(Append(was[a], v)) = Len(was[a]) + 1
        BY <4>1, <4>2
      <4>4. \A i \in 1..Len(was[a]) : Append(was[a], v)[i] = was[a][i]
        BY <4>1
      <4> QED
        BY <4>1, <4>3, <4>4
    <3>4. \A b \in Signals : b # a => was'[b] = was[b] /\ sample'[b] = sample[b]
      BY <2>1, <3>2
    <3>5. was' \in [Signals -> Seq(Reading)]
      BY <2>1, <3>2, <3>3
    <3>6. sample'[a] = [id |-> Len(was'[a]), ok |-> good] /\ sample'[a].id = Len(was'[a]) /\ sample'[a].id > 0
      BY <2>1, <3>2, <3>3
    <3>7. sample' \in [Signals -> [id : Nat, ok : BOOLEAN]]
      <4>1. Len(was'[a]) \in Nat
        BY <2>1, <3>3
      <4>2. [id |-> Len(was'[a]), ok |-> good] \in [id : Nat, ok : BOOLEAN]
        BY <4>1
      <4> QED
        BY <2>1, <3>2, <4>2
    <3>8. SamplesNumbered'
      BY <2>1, <3>4, <3>6 DEF SamplesNumbered
    <3>9. ASSUME NEW b \in Signals
          PROVE  /\ Len(was[b]) <= Len(was'[b]) /\ Len(was[b]) \in Nat /\ Len(was'[b]) \in Nat
                 /\ \A i \in 1..Len(was[b]) : was'[b][i] = was[b][i]
      <4>1. CASE b = a
        <5>1. Len(was[a]) \in Nat /\ Len(was'[a]) = Len(was[a]) + 1
          BY <2>1, <3>3
        <5>2. Len(was[a]) <= Len(was'[a]) /\ Len(was'[a]) \in Nat
          BY <5>1
        <5> QED
          BY <3>3, <4>1, <5>1, <5>2
      <4>2. CASE b # a
        BY <2>1, <3>4, <4>2
      <4> QED
        BY <4>1, <4>2
    <3> QED
      BY <3>5, <3>7, <3>8, <3>9
  <2>3. CASE \E a \in Signals : Dog!SampleAges(a)
    <3>1. PICK a \in Signals : Dog!SampleAges(a)
      BY <2>3
    <3>2. was' = was /\ sample' = [sample EXCEPT ![a] = [sample[a] EXCEPT !.ok = FALSE]]
      BY <3>1 DEF Dog!SampleAges
    <3>3. sample' \in [Signals -> [id : Nat, ok : BOOLEAN]] /\ sample'[a].id = sample[a].id /\ sample'[a].ok = FALSE
          /\ \A b \in Signals : b # a => sample'[b] = sample[b]
      BY <2>1, <3>2
    <3>4. SamplesNumbered'
      BY <2>1, <3>2, <3>3 DEF SamplesNumbered
    <3> QED
      BY <2>1, <3>2, <3>3, <3>4
  <2> QED
    BY <2>2, <2>3
<1>3. (\A r \in Rules : ChainShown(r, rst[r].chain))' /\ QueueOwned' /\ WorkerOwned'
  BY <1>1, ChainsUntouched
<1>4. DogTyped' /\ LatchHolds'
  BY <1>1, <1>2 DEF WatchdogInv, DogTyped, LatchHolds
<1>5. Streaks'
  <2>1. ASSUME NEW r \in Rules, Rule[r].need > 0, NEW a \in Signals
        PROVE  StreakSound(r, a, rst[r].conf[a])' /\ StreakFresh(r, a, rst[r].conf[a])'
    <3>1. /\ StreakSound(r, a, rst[r].conf[a]) /\ StreakFresh(r, a, rst[r].conf[a])
          /\ rst[r].conf[a] \in Streak
      BY <2>1, RuleStreaks DEF StreaksOf
    <3>2. rst[r].conf[a].last \in Nat /\ rst[r].conf[a].ev \in SUBSET Nat
      BY <3>1 DEF Streak
    <3>3. StreakFresh(r, a, rst[r].conf[a])'
      BY <1>1, <3>1 DEF StreakFresh, UsedUp
    <3>4. ASSUME NEW i \in rst[r].conf[a].ev
          PROVE  0 < i /\ i <= rst[r].conf[a].last /\ was'[a][i] = "high"
      <4>1. i \in Nat /\ 0 < i /\ i <= rst[r].conf[a].last /\ rst[r].conf[a].last <= Len(was[a]) /\ was[a][i] = "high"
        BY <3>1, <3>2 DEF StreakSound
      <4>2. i \in 1..Len(was[a])
        BY <1>2, <3>2, <4>1
      <4> QED
        BY <1>2, <4>1, <4>2
    <3>5. rst[r].conf[a].last <= Len(was'[a])
      BY <1>2, <3>1, <3>2 DEF StreakSound
    <3> QED
      BY <1>1, <3>1, <3>3, <3>4, <3>5 DEF StreakSound
  <2> QED
    BY <2>1 DEF Streaks
<1>6. TripsRest'
  <2>1. ASSUME NEW r \in Rules, Rule[r].need > 0, ~tripped[r].unknown
        PROVE  \E a \in Rule[r].aliases : TripRests(r, a)'
    <3>1. PICK a \in Rule[r].aliases : TripRests(r, a)
      BY <2>1 DEF WatchdogInv, TripsRest
    <3>2. a \in Signals
      BY <3>1, RuleSays
    <3>3. Evidence(r, a)' = Evidence(r, a) /\ tripped' = tripped
      BY <1>1 DEF Evidence
    <3>4. \A p \in Evidence(r, a) : p[2] \in 1..Len(was'[a]) /\ was'[a][p[2]] = "high"
      <4>1. ASSUME NEW p \in Evidence(r, a) PROVE p[2] \in 1..Len(was'[a]) /\ was'[a][p[2]] = "high"
        <5>1. p[2] \in 1..Len(was[a]) /\ was[a][p[2]] = "high"
          BY <3>1 DEF TripRests
        <5>2. was'[a][p[2]] = was[a][p[2]] /\ Len(was[a]) <= Len(was'[a]) /\ Len(was[a]) \in Nat /\ Len(was'[a]) \in Nat
          BY <1>2, <3>2, <5>1
        <5> QED
          BY <5>1, <5>2
      <4> QED
        BY <4>1
    <3> QED
      BY <3>1, <3>3, <3>4 DEF TripRests
  <2> QED
    BY <1>1, <2>1 DEF TripsRest
<1> QED
  BY <1>2, <1>3, <1>4, <1>5, <1>6 DEF WatchdogInv

(* The streaks of the next state, where neither samples nor trips change.  *)
LEMMA StreaksKept ==
  ASSUME UNCHANGED <<was, tripped>>, \A r \in Rules : StreaksOf(r, rst'[r].conf)
  PROVE  Streaks'
<1>1. ASSUME NEW r \in Rules, Rule[r].need > 0, NEW a \in Signals
      PROVE  StreakSound(r, a, rst[r].conf[a])' /\ StreakFresh(r, a, rst[r].conf[a])'
  <2>1. StreakSound(r, a, rst'[r].conf[a]) /\ StreakFresh(r, a, rst'[r].conf[a])
    BY <1>1 DEF StreaksOf
  <2>2. StreakSound(r, a, rst[r].conf[a])'
    BY <2>1 DEF StreakSound
  <2>3. StreakFresh(r, a, rst[r].conf[a])'
    BY <2>1 DEF StreakFresh, UsedUp
  <2> QED
    BY <2>2, <2>3
<1> QED
  BY <1>1 DEF Streaks

(* Steps that change rule states but neither their chains nor what was     *)
(* tripped.                                                                *)
LEMMA RuleStatesStep ==
  ASSUME WatchdogConfigured, WatchdogInv, UNCHANGED <<sample, was, inflight, queue, worker, trips, tripped>>,
         rst' \in [Rules -> RuleStatus], clears' \in [Rules -> Nat], LatchHolds',
         \A r \in Rules : rst'[r].chain = rst[r].chain /\ StreaksOf(r, rst'[r].conf)
  PROVE  WatchdogInv'
<1>1. (\A r \in Rules : ChainShown(r, rst[r].chain))' /\ QueueOwned' /\ WorkerOwned'
  BY ChainsUntouched
<1>2. Streaks'
  BY StreaksKept
<1>3. DogTyped'
  BY DEF WatchdogInv, DogTyped
<1>4. SamplesNumbered'
  BY DEF WatchdogInv, SamplesNumbered
<1>5. TripsRest'
  BY DEF WatchdogInv, TripsRest, TripRests, Evidence
<1> QED
  BY <1>1, <1>2, <1>3, <1>4, <1>5 DEF WatchdogInv

(* The time conditions elapse.                                             *)
LEMMA ElapseStep ==
  ASSUME WatchdogConfigured, WatchdogInv, NEW r \in Rules, Dog!StableElapses(r) \/ Dog!CooldownElapses(r)
  PROVE  WatchdogInv'
<1>1. UNCHANGED <<sample, was, inflight, queue, worker, trips, clears, tripped>>
  BY DEF Dog!StableElapses, Dog!CooldownElapses
<1>2. rst \in [Rules -> RuleStatus] /\ clears \in [Rules -> Nat] /\ LatchHolds
  BY DEF WatchdogInv, DogTyped
<1>3. \/ rst' = [rst EXCEPT ![r] = [rst[r] EXCEPT !.since = "elapsed"]]
      \/ rst' = [rst EXCEPT ![r] = [rst[r] EXCEPT !.cooling = FALSE]]
  BY DEF Dog!StableElapses, Dog!CooldownElapses
<1>t. PICK t : t \in {[rst[r] EXCEPT !.since = "elapsed"], [rst[r] EXCEPT !.cooling = FALSE]} /\ rst' = [rst EXCEPT ![r] = t]
  BY <1>3
<1>4. t \in RuleStatus /\ t.chain = rst[r].chain /\ t.conf = rst[r].conf /\ t.latched = rst[r].latched
  BY <1>t, <1>2 DEF RuleStatus
<1>5. /\ rst' \in [Rules -> RuleStatus]
      /\ \A q \in Rules : rst'[q].chain = rst[q].chain /\ rst'[q].conf = rst[q].conf /\ rst'[q].latched = rst[q].latched
  BY <1>t, <1>2, <1>4
<1>6. LatchHolds'
  BY <1>1, <1>2, <1>5 DEF LatchHolds
<1>7. \A q \in Rules : StreaksOf(q, rst'[q].conf)
  BY <1>5, RuleStreaks
<1> QED
  BY <1>1, <1>2, <1>5, <1>6, <1>7, RuleStatesStep

(* A client clears rules.                                                  *)
LEMMA ClearStep ==
  ASSUME WatchdogConfigured, WatchdogInv, NEW S \in SUBSET Rules, Dog!ClearRuleState(S)
  PROVE  WatchdogInv'
<1>1. UNCHANGED <<sample, was, inflight, queue, worker, trips, tripped>>
  BY DEF Dog!ClearRuleState
<1>2. rst \in [Rules -> RuleStatus] /\ clears \in [Rules -> Nat] /\ trips \in [Rules -> Nat] /\ LatchHolds
  BY DEF WatchdogInv, DogTyped
<1>3. ASSUME NEW r \in Rules
      PROVE  /\ rst'[r] \in RuleStatus /\ rst'[r].chain = rst[r].chain /\ StreaksOf(r, rst'[r].conf)
             /\ r \notin S => rst'[r] = rst[r]
  <2>0. rst[r] \in RuleStatus /\ StreaksOf(r, rst[r].conf)
    BY RuleStreaks
  <2>1. CASE r \notin S
    <3>1. rst'[r] = rst[r]
      BY <2>1 DEF Dog!ClearRuleState
    <3> QED
      BY <2>0, <3>1
  <2>2. CASE r \in S
    <3>s. PICK s : s = rst[r]
      OBVIOUS
    <3>g. PICK g : g = Dog!ResetConfirmation(rst[r].conf)
      OBVIOUS
    <3>active. PICK active : active = IF rst[r].latched THEN 0 ELSE rst[r].trip
      OBVIOUS
    <3>known. PICK known : known = (rst[r].recovered /\ ~rst[r].latched)
      OBVIOUS
    <3>1. rst'[r] = [s EXCEPT !.latched = FALSE, !.armed = FALSE, !.since = "none", !.conf = g, !.trip = active, !.recovered = known]
      BY <2>2, <3>s, <3>g, <3>active, <3>known DEF Dog!ClearRuleState
    <3>2. StreaksOf(r, g) /\ g \in [Signals -> Streak]
      BY <2>0, <3>g, ResetStreaks DEF StreaksOf
    <3>3. active \in Nat /\ known \in BOOLEAN /\ s \in RuleStatus
      BY <2>0, <3>s, <3>active, <3>known DEF RuleStatus
    <3>4. rst'[r] \in RuleStatus /\ rst'[r].chain = s.chain /\ rst'[r].conf = g
      BY <3>1, <3>2, <3>3 DEF RuleStatus
    <3> QED
      BY <2>2, <3>2, <3>4, <3>s
  <2> QED
    BY <2>1, <2>2
<1>4. rst' \in [Rules -> RuleStatus]
  <2>1. DOMAIN rst' = Rules /\ rst' = [r \in Rules |-> rst'[r]]
    BY DEF Dog!ClearRuleState
  <2> QED
    BY <1>3, <2>1
<1>5. clears' \in [Rules -> Nat] /\ \A r \in Rules : clears'[r] = IF r \in S THEN clears[r] + 1 ELSE clears[r]
  <2>1. clears' = [r \in Rules |-> IF r \in S THEN clears[r] + 1 ELSE clears[r]]
    BY DEF Dog!ClearRuleState
  <2> QED
    BY <1>2, <2>1
<1>6. LatchHolds'
  <2>1. ASSUME NEW r \in Rules, Rule[r].latch = TRUE
        PROVE  (rst'[r].latched = FALSE => trips[r] <= clears'[r]) /\ trips[r] <= clears'[r] + 1
    <3>1. trips[r] \in Nat /\ clears[r] \in Nat /\ trips[r] <= clears[r] + 1 /\ (rst[r].latched = FALSE => trips[r] <= clears[r])
      BY <1>2, <2>1 DEF LatchHolds
    <3>2. CASE r \in S
      BY <1>5, <3>1, <3>2
    <3>3. CASE r \notin S
      BY <1>3, <1>5, <3>1, <3>3
    <3> QED
      BY <3>2, <3>3
  <2> QED
    BY <1>1, <2>1 DEF LatchHolds
<1> QED
  BY <1>1, <1>3, <1>4, <1>5, <1>6, RuleStatesStep

(* A client switches rulesets on or off.                                   *)
LEMMA EnableStep ==
  ASSUME WatchdogConfigured, WatchdogInv, NEW S, NEW b, Dog!EnableDisable(S, b)
  PROVE  WatchdogInv'
<1>1. UNCHANGED <<sample, was, rst, inflight, queue, worker, trips, clears, tripped>>
  BY DEF Dog!EnableDisable
<1>2. rst' \in [Rules -> RuleStatus] /\ clears' \in [Rules -> Nat] /\ LatchHolds'
  BY <1>1 DEF WatchdogInv, DogTyped, LatchHolds
<1>3. \A r \in Rules : rst'[r].chain = rst[r].chain /\ StreaksOf(r, rst'[r].conf)
  BY <1>1, RuleStreaks
<1> QED
  BY <1>1, <1>2, <1>3, RuleStatesStep

(* Steps of the worker: neither trips nor streaks are its business.        *)
LEMMA WorkerLeavesRules ==
  ASSUME WatchdogInv, UNCHANGED <<sample, was, trips, clears, tripped>>,
         rst' \in [Rules -> RuleStatus],
         \A r \in Rules : rst'[r].latched = rst[r].latched /\ rst'[r].conf = rst[r].conf,
         inflight' \in SUBSET Rules, queue' \in Seq(Submitted), worker' = Dog!IdleWorker \/ worker' \in Busied,
         (\A r \in Rules : ChainShown(r, rst[r].chain))', QueueOwned', WorkerOwned'
  PROVE  WatchdogInv'
<1>1. DogTyped'
  <2>1. /\ sample \in [Signals -> [id : Nat, ok : BOOLEAN]] /\ was \in [Signals -> Seq(Reading)]
        /\ trips \in [Rules -> Nat] /\ clears \in [Rules -> Nat]
    BY DEF WatchdogInv, DogTyped
  <2>2. Dog!IdleWorker' = Dog!IdleWorker
    BY DEF Dog!IdleWorker
  <2> QED
    BY <2>1, <2>2 DEF DogTyped
<1>2. LatchHolds'
  BY DEF WatchdogInv, LatchHolds
<1>3. Streaks'
  <2>1. \A r \in Rules : StreaksOf(r, rst'[r].conf)
    BY RuleStreaks
  <2> QED
    BY <2>1, StreaksKept
<1>4. SamplesNumbered'
  BY DEF WatchdogInv, SamplesNumbered
<1>5. TripsRest'
  BY DEF WatchdogInv, TripsRest, TripRests, Evidence
<1> QED
  BY <1>1, <1>2, <1>3, <1>4, <1>5 DEF WatchdogInv

(* The worker is idle or holds a submission.                               *)
LEMMA WorkerPhases ==
  ASSUME WatchdogInv
  PROVE  /\ worker.phase = "idle" => worker = Dog!IdleWorker
         /\ worker.phase # "idle" => /\ worker \in Busied /\ worker # Dog!IdleWorker
                                     /\ worker.rule \in Rules
<1>1. worker = Dog!IdleWorker \/ worker \in Busied
  BY DEF WatchdogInv, DogTyped
<1>2. Dog!IdleWorker.phase = "idle"
  BY DEF Dog!IdleWorker
<1>3. worker \in Busied => worker.phase # "idle" /\ worker.rule \in Rules
  BY DEF Busied
<1> QED
  BY <1>1, <1>2, <1>3

(* The worker takes the next submission.                                   *)
LEMMA TakesStep ==
  ASSUME WatchdogConfigured, WatchdogInv, Dog!WorkerTakes
  PROVE  WatchdogInv'
<1>1. UNCHANGED <<sample, was, rst, inflight, trips, clears, tripped>>
  BY DEF Dog!WorkerTakes
<1>2. /\ queue \in Seq(Submitted) /\ queue # <<>> /\ queue' = Tail(queue)
      /\ worker = Dog!IdleWorker
      /\ worker' = [phase |-> "call", rule |-> Head(queue).rule, trip |-> Head(queue).trip, attempt |-> 1, results |-> <<>>]
  BY WorkerPhases DEF Dog!WorkerTakes, WatchdogInv, DogTyped
<1>3. /\ Len(queue) \in Nat /\ Len(queue) > 0 /\ Head(queue) = queue[1] /\ queue[1] \in Submitted
      /\ queue' \in Seq(Submitted) /\ DOMAIN queue = 1..Len(queue) /\ DOMAIN queue' = 1..(Len(queue) - 1)
      /\ \A i \in DOMAIN queue' : queue'[i] = queue[i + 1] /\ i + 1 \in DOMAIN queue
      /\ 1 \in DOMAIN queue
  BY <1>2
<1>4. /\ QueueOwned
      /\ queue[1].rule \in Rules /\ queue[1].trip \in Nat /\ queue[1].rule \in inflight /\ queue[1].trip = trips[queue[1].rule]
  BY <1>3 DEF WatchdogInv, QueueOwned, Submitted
<1>5. /\ worker'.phase = "call" /\ worker'.rule = queue[1].rule /\ worker'.trip = queue[1].trip /\ worker'.results = <<>>
      /\ worker' \in Busied
  <2>r. PICK r : r = Head(queue).rule
    OBVIOUS
  <2>i. PICK i : i = Head(queue).trip
    OBVIOUS
  <2>1. r \in Rules /\ i \in Nat
    BY <1>3, <1>4, <2>r, <2>i
  <2>2. worker' = [phase |-> "call", rule |-> r, trip |-> i, attempt |-> 1, results |-> <<>>]
    BY <1>2, <2>r, <2>i
  <2>3. worker' \in Busied
    BY <2>1, <2>2 DEF Busied
  <2>4. worker'.phase = "call" /\ worker'.rule = r /\ worker'.trip = i /\ worker'.results = <<>>
    BY <2>2
  <2> QED
    BY <1>3, <2>3, <2>4, <2>r, <2>i
<1>6. (\A r \in Rules : ChainShown(r, rst[r].chain))'
  BY <1>1 DEF WatchdogInv, ChainShown, Tried, Dog!Actions
<1>7. QueueOwned'
  <2>1. \A i \in DOMAIN queue' : queue'[i].rule \in inflight' /\ queue'[i].trip = trips'[queue'[i].rule]
    BY <1>1, <1>3, <1>4 DEF QueueOwned
  <2>2. ASSUME NEW i \in DOMAIN queue', NEW j \in DOMAIN queue', queue'[i].rule = queue'[j].rule PROVE i = j
    <3>1. i + 1 = j + 1
      BY <1>3, <1>4, <2>2 DEF QueueOwned
    <3> QED
      BY <1>3, <3>1
  <2> QED
    BY <2>1, <2>2 DEF QueueOwned
<1>8. WorkerOwned'
  <2>1. \A i \in DOMAIN queue' : queue'[i].rule # worker'.rule
    <3>1. ASSUME NEW i \in DOMAIN queue', queue'[i].rule = worker'.rule PROVE FALSE
      <4>1. i + 1 = 1
        BY <1>3, <1>4, <1>5, <3>1 DEF QueueOwned
      <4> QED
        BY <1>3, <4>1
    <3> QED
      BY <3>1
  <2>2. Len(Dog!Actions(worker'.rule)) > 0
    <3>1. Rule[worker'.rule].retries \in Seq(Nat) /\ Rule[worker'.rule].retries # <<>>
      BY <1>4, <1>5, RuleSays
    <3> QED
      BY <3>1 DEF Dog!Actions
  <2>3. Tried(worker'.rule, worker'.results)
    BY <1>5 DEF Tried
  <2>4. Len(worker'.results) = 0
    BY <1>5
  <2>5. worker'.rule \in inflight' /\ worker'.trip = trips'[worker'.rule]
    BY <1>1, <1>4, <1>5
  <2> QED
    BY <1>5, <2>1, <2>2, <2>3, <2>4, <2>5 DEF WorkerOwned, Tried, Dog!Actions
<1>9. rst' \in [Rules -> RuleStatus] /\ inflight' \in SUBSET Rules
  BY <1>1 DEF WatchdogInv, DogTyped
<1> QED
  BY <1>1, <1>3, <1>5, <1>6, <1>7, <1>8, <1>9, WorkerLeavesRules

(* An attempt ends: a retry, the next action, or the end of the chain.     *)
LEMMA ExecuteStep ==
  ASSUME WatchdogConfigured, WatchdogInv, NEW ok \in BOOLEAN, Dog!ExecuteAction(ok)
  PROVE  WatchdogInv'
<1>1. UNCHANGED <<sample, was, rst, inflight, queue, trips, clears, tripped>>
  BY DEF Dog!ExecuteAction
<1>r. PICK r : r = worker.rule
  OBVIOUS
<1>2. /\ worker.phase = "call" /\ worker # Dog!IdleWorker /\ worker \in Busied /\ r \in Rules /\ WorkerOwned
      /\ worker' = Dog!NextCall(worker, ok)
  BY <1>r, WorkerPhases DEF Dog!ExecuteAction, WatchdogInv
<1>3. worker.attempt \in Nat /\ worker.results \in Seq(Result) /\ worker.trip \in Nat
  BY <1>2 DEF Busied
<1>acts. PICK acts : acts = Dog!Actions(r)
  OBVIOUS
<1>last. PICK last \in BOOLEAN : last = (ok \/ worker.attempt = 1 + acts[Len(worker.results) + 1])
  OBVIOUS
<1>res. PICK res : res = IF last THEN Append(worker.results, [ok |-> ok, attempts |-> worker.attempt]) ELSE worker.results
  OBVIOUS
<1>att. PICK att : att = IF last THEN 1 ELSE worker.attempt + 1
  OBVIOUS
<1>ph. PICK ph : ph = IF Len(res) = Len(acts) THEN "record" ELSE "call"
  OBVIOUS
<1>4. worker' = [worker EXCEPT !.results = res, !.attempt = att, !.phase = ph]
  BY <1>2, <1>r, <1>acts, <1>last, <1>res, <1>att, <1>ph DEF Dog!NextCall
<1>5. acts \in Seq(Nat) /\ Len(acts) \in Nat /\ Len(worker.results) \in Nat /\ Len(worker.results) < Len(acts)
  <2>1. acts \in Seq(Nat)
    BY <1>2, <1>acts, RuleSays DEF Dog!Actions
  <2>2. Len(worker.results) < Len(acts)
    BY <1>2, <1>r, <1>acts DEF WorkerOwned
  <2> QED
    BY <1>3, <2>1, <2>2
<1>6. /\ res \in Seq(Result) /\ Len(res) \in Nat /\ Len(res) <= Len(acts)
      /\ \A i \in DOMAIN res : res[i].ok = TRUE \/ res[i].attempts = 1 + acts[i]
  <2>0. \A i \in DOMAIN worker.results : worker.results[i].ok = TRUE \/ worker.results[i].attempts = 1 + acts[i]
    BY <1>2, <1>r, <1>acts DEF WorkerOwned, Tried
  <2>1. CASE ~last
    BY <1>3, <1>5, <1>res, <2>0, <2>1
  <2>2. CASE last
    <3>e. PICK e : e = [ok |-> ok, attempts |-> worker.attempt]
      OBVIOUS
    <3>1. e \in Result /\ e.ok = ok /\ e.attempts = worker.attempt
      BY <1>3, <3>e DEF Result
    <3>2. res = Append(worker.results, e)
      BY <1>res, <2>2, <3>e
    <3>3. /\ res \in Seq(Result) /\ Len(res) = Len(worker.results) + 1 /\ DOMAIN res = 1..(Len(worker.results) + 1)
          /\ DOMAIN worker.results = 1..Len(worker.results)
          /\ \A i \in 1..Len(worker.results) : res[i] = worker.results[i]
          /\ res[Len(worker.results) + 1] = e
      BY <1>3, <3>1, <3>2
    <3>4. e.ok = TRUE \/ e.attempts = 1 + acts[Len(worker.results) + 1]
      <4>1. ok = TRUE \/ worker.attempt = 1 + acts[Len(worker.results) + 1]
        BY <1>last, <2>2, Zenon
      <4> QED
        BY <3>1, <4>1
    <3>5. ASSUME NEW i \in DOMAIN res PROVE res[i].ok = TRUE \/ res[i].attempts = 1 + acts[i]
      <4>1. CASE i = Len(worker.results) + 1
        BY <3>3, <3>4, <4>1
      <4>2. CASE i # Len(worker.results) + 1
        <5>1. i \in 1..Len(worker.results)
          BY <1>5, <3>3, <4>2
        <5> QED
          BY <2>0, <3>3, <5>1
      <4> QED
        BY <4>1, <4>2
    <3>6. Len(res) \in Nat /\ Len(res) <= Len(acts)
      BY <1>5, <3>3
    <3>7. res \in Seq(Result)
      BY <3>3
    <3> QED
      BY <3>5, <3>6, <3>7
  <2> QED
    BY <2>1, <2>2
<1>7. /\ worker' \in Busied /\ worker'.phase = ph /\ worker'.rule = r /\ worker'.trip = worker.trip /\ worker'.results = res
  <2>1. att \in Nat /\ ph \in {"call", "record"}
    BY <1>3, <1>att, <1>ph
  <2>w. PICK w : w = worker
    OBVIOUS
  <2>2. w \in Busied /\ worker' = [w EXCEPT !.results = res, !.attempt = att, !.phase = ph]
    BY <1>2, <1>4, <2>w
  <2>3. worker' \in Busied /\ worker'.phase = ph /\ worker'.rule = w.rule /\ worker'.trip = w.trip /\ worker'.results = res
    BY <1>6, <2>1, <2>2 DEF Busied
  <2> QED
    BY <1>r, <2>3, <2>w
<1>8. (\A q \in Rules : ChainShown(q, rst[q].chain))' /\ QueueOwned'
  BY <1>1 DEF WatchdogInv, ChainShown, Tried, Dog!Actions, QueueOwned
<1>9. WorkerOwned'
  <2>1. worker.rule \in inflight /\ worker.trip = trips[worker.rule] /\ \A i \in DOMAIN queue : queue[i].rule # worker.rule
    BY <1>2 DEF WorkerOwned
  <2>2. r \in inflight' /\ worker'.trip = trips'[r] /\ \A i \in DOMAIN queue' : queue'[i].rule # r
    BY <1>1, <1>7, <1>r, <2>1
  <2>3. Tried(r, res)
    BY <1>6, <1>acts DEF Tried
  <2>4. ph # "release" /\ (ph = "call" => Len(res) < Len(Dog!Actions(r))) /\ (ph # "call" => Len(res) = Len(Dog!Actions(r)))
    BY <1>5, <1>6, <1>acts, <1>ph
  <2> QED
    BY <1>7, <2>2, <2>3, <2>4 DEF WorkerOwned, Tried, Dog!Actions
<1>10. rst' \in [Rules -> RuleStatus] /\ inflight' \in SUBSET Rules /\ queue' \in Seq(Submitted)
  BY <1>1 DEF WatchdogInv, DogTyped
<1> QED
  BY <1>1, <1>7, <1>8, <1>9, <1>10, WorkerLeavesRules

(* The result of the chain is recorded: no later trip owns the status,     *)
(* because the rule cannot trip while it is in flight.                     *)
LEMMA RecordStep ==
  ASSUME WatchdogConfigured, WatchdogInv, Dog!OnActionChainDone
  PROVE  WatchdogInv'
<1>1. UNCHANGED <<sample, was, inflight, queue, trips, clears, tripped>>
  BY DEF Dog!OnActionChainDone
<1>r. PICK r : r = worker.rule
  OBVIOUS
<1>2. /\ worker.phase = "record" /\ worker # Dog!IdleWorker /\ worker \in Busied /\ r \in Rules /\ WorkerOwned
      /\ worker' = [worker EXCEPT !.phase = "release"]
  BY <1>r, WorkerPhases DEF Dog!OnActionChainDone, WatchdogInv
<1>3. rst[r] \in RuleStatus /\ rst[r].chain \in ChainStatus /\ rst[r].chain.trip = trips[r] /\ rst \in [Rules -> RuleStatus]
  BY <1>2, RuleStreaks DEF WatchdogInv, ChainShown, DogTyped
<1>4. worker.trip = trips[r] /\ worker.results \in Seq(Result) /\ Len(worker.results) = Len(Dog!Actions(r)) /\ Tried(r, worker.results)
  BY <1>2, <1>r DEF WorkerOwned, Busied
<1>res. PICK res : res = worker.results
  OBVIOUS
<1>ch. PICK ch : ch = [rst[r].chain EXCEPT !.state = "completed", !.results = res]
  OBVIOUS
<1>5. ch \in ChainStatus /\ ch.state = "completed" /\ ch.results = res /\ ch.trip = trips[r]
  BY <1>3, <1>4, <1>ch, <1>res DEF ChainStatus
<1>t. PICK t : t = [rst[r] EXCEPT !.chain = ch]
  OBVIOUS
<1>6. t \in RuleStatus /\ t.chain = ch /\ t.conf = rst[r].conf /\ t.latched = rst[r].latched
  BY <1>3, <1>5, <1>t DEF RuleStatus
<1>7. rst' = [rst EXCEPT ![r] = t]
  BY <1>3, <1>4, <1>r, <1>res, <1>ch, <1>t DEF Dog!OnActionChainDone
<1>8. /\ rst' \in [Rules -> RuleStatus] /\ rst'[r].chain = ch
      /\ \A q \in Rules : rst'[q].latched = rst[q].latched /\ rst'[q].conf = rst[q].conf
      /\ \A q \in Rules : q # r => rst'[q].chain = rst[q].chain
  BY <1>2, <1>3, <1>6, <1>7
<1>9. ASSUME NEW q \in Rules
      PROVE  ChainShown(q, rst[q].chain)'
  <2>1. CASE q = r
    BY <1>1, <1>4, <1>5, <1>8, <1>res, <2>1 DEF ChainShown, Tried, Dog!Actions
  <2>2. CASE q # r
    <3>1. rst'[q].chain = rst[q].chain /\ ChainShown(q, rst[q].chain)
      BY <1>8, <2>2 DEF WatchdogInv
    <3> QED
      BY <1>1, <3>1 DEF ChainShown, Tried, Dog!Actions
  <2> QED
    BY <2>1, <2>2
<1>10. worker' \in Busied /\ worker'.phase = "release" /\ worker'.rule = r /\ worker'.trip = worker.trip /\ worker'.results = worker.results
  <2>w. PICK w : w = worker
    OBVIOUS
  <2>1. w \in Busied /\ worker' = [w EXCEPT !.phase = "release"]
    BY <1>2, <2>w
  <2>2. worker' \in Busied /\ worker'.phase = "release" /\ worker'.rule = w.rule /\ worker'.trip = w.trip /\ worker'.results = w.results
    BY <2>1 DEF Busied
  <2> QED
    BY <1>r, <2>2, <2>w
<1>11. WorkerOwned'
  <2>1. r \in inflight' /\ worker'.trip = trips'[r] /\ \A i \in DOMAIN queue' : queue'[i].rule # r
    BY <1>1, <1>2, <1>4, <1>10, <1>r DEF WorkerOwned
  <2>2. rst'[r].chain.state = "completed"
    BY <1>5, <1>8
  <2> QED
    BY <1>4, <1>10, <2>1, <2>2 DEF WorkerOwned, Tried, Dog!Actions
<1>12. QueueOwned'
  BY <1>1 DEF WatchdogInv, QueueOwned
<1>13. inflight' \in SUBSET Rules /\ queue' \in Seq(Submitted)
  BY <1>1 DEF WatchdogInv, DogTyped
<1>14. (\A q \in Rules : ChainShown(q, rst[q].chain))'
  BY <1>9
<1> QED
  BY <1>1, <1>8, <1>10, <1>11, <1>12, <1>13, <1>14, WorkerLeavesRules

(* The chain raises: the status shows an error, of the worker's own trip.  *)
LEMMA RaisesStep ==
  ASSUME WatchdogConfigured, WatchdogInv, Dog!ChainRaises
  PROVE  WatchdogInv'
<1>1. UNCHANGED <<sample, was, inflight, queue, trips, clears, tripped>>
  BY DEF Dog!ChainRaises
<1>r. PICK r : r = worker.rule
  OBVIOUS
<1>2. /\ worker.phase = "call" /\ worker # Dog!IdleWorker /\ worker \in Busied /\ r \in Rules /\ WorkerOwned
      /\ worker' = [worker EXCEPT !.phase = "release"]
  BY <1>r, WorkerPhases DEF Dog!ChainRaises, WatchdogInv
<1>3. rst[r] \in RuleStatus /\ rst[r].chain \in ChainStatus /\ rst[r].chain.trip = trips[r] /\ rst \in [Rules -> RuleStatus]
  BY <1>2, RuleStreaks DEF WatchdogInv, ChainShown, DogTyped
<1>4. worker.trip = trips[r] /\ worker.results \in Seq(Result) /\ Tried(r, worker.results)
  BY <1>2, <1>r DEF WorkerOwned, Busied
<1>ch. PICK ch : ch = [rst[r].chain EXCEPT !.state = "error"]
  OBVIOUS
<1>5. ch \in ChainStatus /\ ch.state = "error" /\ ch.trip = trips[r]
  BY <1>3, <1>ch DEF ChainStatus
<1>t. PICK t : t = [rst[r] EXCEPT !.chain = ch]
  OBVIOUS
<1>6. t \in RuleStatus /\ t.chain = ch /\ t.conf = rst[r].conf /\ t.latched = rst[r].latched
  BY <1>3, <1>5, <1>t DEF RuleStatus
<1>7. rst' = [rst EXCEPT ![r] = t]
  BY <1>3, <1>4, <1>r, <1>ch, <1>t DEF Dog!ChainRaises
<1>8. /\ rst' \in [Rules -> RuleStatus] /\ rst'[r].chain = ch
      /\ \A q \in Rules : rst'[q].latched = rst[q].latched /\ rst'[q].conf = rst[q].conf
      /\ \A q \in Rules : q # r => rst'[q].chain = rst[q].chain
  BY <1>2, <1>3, <1>6, <1>7
<1>9. ASSUME NEW q \in Rules
      PROVE  ChainShown(q, rst[q].chain)'
  <2>1. CASE q = r
    BY <1>1, <1>5, <1>8, <2>1 DEF ChainShown
  <2>2. CASE q # r
    <3>1. rst'[q].chain = rst[q].chain /\ ChainShown(q, rst[q].chain)
      BY <1>8, <2>2 DEF WatchdogInv
    <3> QED
      BY <1>1, <3>1 DEF ChainShown, Tried, Dog!Actions
  <2> QED
    BY <2>1, <2>2
<1>10. worker' \in Busied /\ worker'.phase = "release" /\ worker'.rule = r /\ worker'.trip = worker.trip /\ worker'.results = worker.results
  <2>w. PICK w : w = worker
    OBVIOUS
  <2>1. w \in Busied /\ worker' = [w EXCEPT !.phase = "release"]
    BY <1>2, <2>w
  <2>2. worker' \in Busied /\ worker'.phase = "release" /\ worker'.rule = w.rule /\ worker'.trip = w.trip /\ worker'.results = w.results
    BY <2>1 DEF Busied
  <2> QED
    BY <1>r, <2>2, <2>w
<1>11. WorkerOwned'
  <2>1. r \in inflight' /\ worker'.trip = trips'[r] /\ \A i \in DOMAIN queue' : queue'[i].rule # r
    BY <1>1, <1>2, <1>4, <1>10, <1>r DEF WorkerOwned
  <2>2. rst'[r].chain.state = "error"
    BY <1>5, <1>8
  <2> QED
    BY <1>4, <1>10, <2>1, <2>2 DEF WorkerOwned, Tried, Dog!Actions
<1>12. QueueOwned'
  BY <1>1 DEF WatchdogInv, QueueOwned
<1>13. inflight' \in SUBSET Rules /\ queue' \in Seq(Submitted)
  BY <1>1 DEF WatchdogInv, DogTyped
<1>14. (\A q \in Rules : ChainShown(q, rst[q].chain))'
  BY <1>9
<1> QED
  BY <1>1, <1>8, <1>10, <1>11, <1>12, <1>13, <1>14, WorkerLeavesRules

(* The rule is let go, and its chain is shown as ended by then.            *)
LEMMA ReleaseStep ==
  ASSUME WatchdogConfigured, WatchdogInv, Dog!ReleaseRule
  PROVE  WatchdogInv'
<1>1. UNCHANGED <<sample, was, rst, queue, trips, clears, tripped>>
  BY DEF Dog!ReleaseRule
<1>r. PICK r : r = worker.rule
  OBVIOUS
<1>2. /\ worker.phase = "release" /\ worker # Dog!IdleWorker /\ r \in Rules
      /\ inflight' = inflight \ {r} /\ worker' = Dog!IdleWorker
      /\ rst[r].chain.state # "running" /\ \A i \in DOMAIN queue : queue[i].rule # r
  BY <1>r, WorkerPhases DEF Dog!ReleaseRule, WatchdogInv, WorkerOwned
<1>3. (\A q \in Rules : ChainShown(q, rst[q].chain))'
  <2>1. ASSUME NEW q \in Rules PROVE ChainShown(q, rst[q].chain)'
    <3>1. ChainShown(q, rst[q].chain)
      BY DEF WatchdogInv
    <3> QED
      BY <1>1, <1>2, <3>1 DEF ChainShown, Tried, Dog!Actions
  <2> QED
    BY <2>1
<1>4. QueueOwned'
  BY <1>1, <1>2 DEF WatchdogInv, QueueOwned
<1>5. WorkerOwned'
  BY <1>2 DEF WorkerOwned, Dog!IdleWorker
<1>6. rst' \in [Rules -> RuleStatus] /\ inflight' \in SUBSET Rules /\ queue' \in Seq(Submitted)
  BY <1>1, <1>2 DEF WatchdogInv, DogTyped
<1> QED
  BY <1>1, <1>2, <1>3, <1>4, <1>5, <1>6, WorkerLeavesRules

(* The order of submission exists.                                         *)
LEMMA OrderExists ==
  ASSUME NEW S, IsFiniteSet(S), S \subseteq Int
  PROVE  \E q \in [1..Cardinality(S) -> S] : \A i, j \in DOMAIN q : i < j => q[i] < q[j]
<1>q. PICK q : q = [i \in 1..Cardinality(S) |-> CHOOSE n \in S : Rank(S, n) = i]
  OBVIOUS
<1>0. Cardinality(S) \in Nat
  BY FS_CardinalityType
<1>1. ASSUME NEW i \in 1..Cardinality(S) PROVE q[i] \in S /\ Rank(S, q[i]) = i
  <2>1. \E n \in S : Rank(S, n) = i
    BY RankNumbers
  <2>2. q[i] = CHOOSE n \in S : Rank(S, n) = i
    BY <1>q
  <2> QED
    BY <2>1, <2>2
<1>2. q \in [1..Cardinality(S) -> S]
  BY <1>1, <1>q
<1>3. ASSUME NEW i \in 1..Cardinality(S), NEW j \in 1..Cardinality(S), i < j
      PROVE  q[i] < q[j]
  <2>1. q[i] \in S /\ q[j] \in S /\ Rank(S, q[i]) = i /\ Rank(S, q[j]) = j /\ q[i] \in Int /\ q[j] \in Int
    BY <1>1
  <2>2. q[j] < q[i] => j < i
    BY <2>1, RankGrows
  <2>3. q[i] # q[j]
    BY <1>0, <1>3, <2>1
  <2> QED
    BY <1>0, <1>3, <2>1, <2>2, <2>3
<1>4. DOMAIN q = 1..Cardinality(S)
  BY <1>q
<1> QED
  BY <1>2, <1>3, <1>4

(* What the evaluation, with the arming conditions, makes of one rule.     *)
Before(r, A, D) == IF Rule[r].arm THEN [rst[r] EXCEPT !.armed = Dog!Armed(r, rst[r], A, D)] ELSE rst[r]

EvaluatedTo(r, e) == Outcome(r, rst[r], e)

(* Arming changes nothing that the outcome of an evaluation depends on.    *)
LEMMA RuleEvaluated ==
  ASSUME WatchdogConfigured, WatchdogInv, NEW r \in Rules, NEW A, NEW D
  PROVE  EvaluatedTo(r, Dog!Evaluate(r, Before(r, A, D)))
<1>old. PICK old : old = Before(r, A, D)
  OBVIOUS
<1>1. rst[r] \in RuleStatus /\ StreaksOf(r, rst[r].conf)
  BY RuleStreaks
<1>2. old \in RuleStatus /\ old.chain = rst[r].chain /\ old.conf = rst[r].conf /\ old.latched = rst[r].latched
  <2>1. CASE old = rst[r]
    BY <1>1, <2>1
  <2>2. CASE old = [rst[r] EXCEPT !.armed = Dog!Armed(r, rst[r], A, D)]
    <3>armed. PICK armed : armed = Dog!Armed(r, rst[r], A, D)
      OBVIOUS
    <3>1. armed \in BOOLEAN
      <4>1. rst[r].armed \in BOOLEAN
        BY <1>1 DEF RuleStatus
      <4>2. armed = IF Dog!Unknown(r) THEN rst[r].armed ELSE (r \in A \/ (rst[r].armed /\ r \notin D))
        BY <3>armed DEF Dog!Armed
      <4>3. (r \in A \/ (rst[r].armed /\ r \notin D)) \in BOOLEAN
        BY Zenon
      <4> QED
        BY <4>1, <4>2, <4>3, Zenon
    <3>2. old = [rst[r] EXCEPT !.armed = armed]
      BY <2>2, <3>armed
    <3> QED
      BY <1>1, <3>1, <3>2 DEF RuleStatus
  <2> QED
    BY <1>old, <2>1, <2>2 DEF Before
<1>e. PICK e : e = Dog!Evaluate(r, old)
  OBVIOUS
<1>3. StreaksOf(r, old.conf) /\ DogTyped /\ SamplesNumbered
  BY <1>1, <1>2 DEF WatchdogInv
<1>4. Outcome(r, old, e)
  BY <1>2, <1>3, <1>e, EvaluateOutcome
<1>5. EvaluatedTo(r, e)
  BY <1>2, <1>4 DEF EvaluatedTo, Outcome
<1> QED
  BY <1>5, <1>old, <1>e

(* One evaluation of all rules: what it makes of each, which of them act,  *)
(* and in which order their chains are submitted.                          *)
Evaluation(after, acting, order) ==
    /\ \A r \in Rules : EvaluatedTo(r, after[r])
    /\ acting \in SUBSET Rules /\ IsFiniteSet(acting) /\ acting \subseteq Int /\ Cardinality(acting) \in Nat
    /\ \A r \in acting : r \notin inflight /\ after[r].triggered /\ enabled[r]
    /\ \A r \in Rules : r \notin acting /\ enabled[r] => ~after[r].triggered \/ r \in inflight
    /\ order \in [1..Cardinality(acting) -> acting]
    /\ \A i, j \in 1..Cardinality(acting) : order[i] = order[j] => i = j
    /\ rst' = [r \in Rules |->
                 IF ~enabled[r] THEN rst[r]
                 ELSE IF r \in acting THEN Dog!Tripped(Dog!Recovered(r, after[r].s), trips[r] + 1)
                 ELSE Dog!Recovered(r, after[r].s)]
    /\ trips' = [r \in Rules |-> IF r \in acting THEN trips[r] + 1 ELSE trips[r]]
    /\ inflight' = inflight \cup acting
    /\ queue' = queue \o [i \in 1..Cardinality(acting) |-> [rule |-> order[i], trip |-> trips'[order[i]]]]
    /\ tripped' = [r \in Rules |->
                     IF r \in acting
                     THEN [ev |-> EvidenceOf(r, after[r].s.conf), unknown |-> Dog!Unknown(r),
                           earlier |-> tripped[r].earlier \cup tripped[r].ev]
                     ELSE tripped[r]]
    /\ UNCHANGED <<sample, was, enabled, worker, clears>>

(* _evaluate_rules is such an evaluation.                                  *)
LEMMA IsEvaluation ==
  ASSUME WatchdogConfigured, WatchdogInv, NEW A, NEW D, Dog!EvaluateRules(A, D)
  PROVE  \E after, acting, order : Evaluation(after, acting, order)
<1> DEFINE after == [r \in Rules |-> Dog!Evaluate(r, Before(r, A, D))]
           acting == {r \in Rules : enabled[r] /\ after[r].triggered /\ r \notin inflight}
           order == CHOOSE q \in [1..Dog!Cardinality(acting) -> acting] : \A i, j \in DOMAIN q : i < j => q[i] < q[j]
<1>0. /\ rst' = [r \in Rules |->
                   IF ~enabled[r] THEN rst[r]
                   ELSE IF r \in acting THEN Dog!Tripped(Dog!Recovered(r, after[r].s), trips[r] + 1)
                   ELSE Dog!Recovered(r, after[r].s)]
      /\ trips' = [r \in Rules |-> IF r \in acting THEN trips[r] + 1 ELSE trips[r]]
      /\ inflight' = inflight \cup acting
      /\ queue' = queue \o [i \in 1..Dog!Cardinality(acting) |-> [rule |-> order[i], trip |-> trips'[order[i]]]]
      /\ tripped' = [r \in Rules |->
                       IF r \in acting
                       THEN [ev |-> UNION {{<<a, i>> : i \in after[r].s.conf[a].ev} : a \in Rule[r].aliases},
                             unknown |-> Dog!Unknown(r), earlier |-> tripped[r].earlier \cup tripped[r].ev]
                       ELSE tripped[r]]
      /\ UNCHANGED <<sample, was, enabled, worker, clears>>
  BY Zenon DEF Dog!EvaluateRules, Before
<1>1. \A r \in Rules : EvaluatedTo(r, after[r])
  BY RuleEvaluated
<1>2. /\ acting \in SUBSET Rules
      /\ \A r \in acting : r \notin inflight /\ after[r].triggered /\ enabled[r]
      /\ \A r \in Rules : r \notin acting /\ enabled[r] => ~after[r].triggered \/ r \in inflight
  OBVIOUS
<1> HIDE DEF after, acting
<1>3. IsFiniteSet(acting) /\ acting \subseteq Int /\ Cardinality(acting) \in Nat
  BY <1>2, FS_Subset, FS_CardinalityType DEF WatchdogConfigured
<1>4. /\ order \in [1..Cardinality(acting) -> acting]
      /\ \A i, j \in DOMAIN order : i < j => order[i] < order[j]
  <2>1. \E q \in [1..Dog!Cardinality(acting) -> acting] : \A i, j \in DOMAIN q : i < j => q[i] < q[j]
    BY <1>3, OrderExists, WatchdogCardinality
  <2>2. order \in [1..Dog!Cardinality(acting) -> acting] /\ \A i, j \in DOMAIN order : i < j => order[i] < order[j]
    BY <2>1, Zenon
  <2> QED
    BY <2>2, WatchdogCardinality
<1> HIDE DEF order
<1>5. ASSUME NEW i \in 1..Cardinality(acting), NEW j \in 1..Cardinality(acting), order[i] = order[j] PROVE i = j
  <2>1. order[i] \in Int /\ order[j] \in Int /\ DOMAIN order = 1..Cardinality(acting)
    BY <1>3, <1>4
  <2> QED
    BY <1>3, <1>4, <1>5, <2>1
<1>6. Dog!Cardinality(acting) = Cardinality(acting)
  BY WatchdogCardinality
<1> QED
  BY <1>0, <1>1, <1>2, <1>3, <1>4, <1>5, <1>6 DEF Evaluation, EvidenceOf

(* A rule that acts has a trip more, and a streak to begin.                *)
LEMMA ActingRule ==
  ASSUME WatchdogConfigured, WatchdogInv, NEW after, NEW acting, NEW order, Evaluation(after, acting, order), NEW r \in acting
  PROVE  /\ r \in Rules /\ rst'[r] \in RuleStatus /\ rst'[r].latched = Rule[r].latch
         /\ Rule[r].latch = TRUE => rst[r].latched = FALSE
         /\ trips'[r] = trips[r] + 1 /\ rst'[r].chain.trip = trips[r] + 1 /\ rst'[r].chain.state = "running"
         /\ rst'[r].conf = Dog!ResetConfirmation(after[r].s.conf)
         /\ StreaksOf(r, after[r].s.conf) /\ Dog!Confirmed(r, after[r].s.conf)
<1>1. r \in Rules /\ EvaluatedTo(r, after[r]) /\ after[r].triggered /\ enabled[r]
  BY DEF Evaluation
<1>s. PICK s : s = Dog!Recovered(r, after[r].s)
  OBVIOUS
<1>2. after[r].s \in RuleStatus /\ after[r].s.latched = Rule[r].latch /\ StreaksOf(r, after[r].s.conf) /\ Dog!Confirmed(r, after[r].s.conf)
      /\ (Rule[r].latch = TRUE => rst[r].latched = FALSE)
  BY <1>1 DEF EvaluatedTo, Outcome
<1>3. s \in RuleStatus /\ s.latched = Rule[r].latch /\ s.conf = after[r].s.conf
  BY <1>2, <1>s, RecoveredOutcome
<1>4. trips[r] \in Nat /\ trips[r] + 1 \in Nat
  BY <1>1 DEF WatchdogInv, DogTyped
<1>5. trips'[r] = trips[r] + 1
  BY <1>1 DEF Evaluation
<1>6. rst'[r] = Dog!Tripped(s, trips[r] + 1)
  BY <1>1, <1>s, Zenon DEF Evaluation
<1>7. StreaksOf(r, s.conf)
  BY <1>2, <1>3
<1>8. /\ rst'[r] \in RuleStatus /\ rst'[r].latched = s.latched
      /\ rst'[r].chain.trip = trips[r] + 1 /\ rst'[r].chain.state = "running"
      /\ rst'[r].conf = Dog!ResetConfirmation(s.conf)
  BY <1>1, <1>3, <1>4, <1>6, <1>7, TrippedOutcome
<1> QED
  BY <1>1, <1>2, <1>3, <1>5, <1>8

(* A rule that does not act keeps its chain and its trips.                 *)
LEMMA RestingRule ==
  ASSUME WatchdogConfigured, WatchdogInv, NEW after, NEW acting, NEW order, Evaluation(after, acting, order),
         NEW r \in Rules, r \notin acting
  PROVE  /\ rst'[r] \in RuleStatus /\ rst'[r].chain = rst[r].chain /\ StreaksOf(r, rst'[r].conf)
         /\ trips'[r] = trips[r] /\ tripped'[r] = tripped[r]
         /\ Rule[r].latch = TRUE /\ rst'[r].latched = FALSE => rst[r].latched = FALSE
<1>1. trips'[r] = trips[r] /\ tripped'[r] = tripped[r]
  BY DEF Evaluation
<1>2. CASE ~enabled[r]
  <2>1. rst'[r] = rst[r]
    BY <1>2 DEF Evaluation
  <2> QED
    BY <1>1, <2>1, RuleStreaks
<1>3. CASE enabled[r]
  <2>1. EvaluatedTo(r, after[r])
    BY DEF Evaluation
  <2>2. rst'[r] = Dog!Recovered(r, after[r].s)
    BY <1>3, Zenon DEF Evaluation
  <2>3. after[r].s \in RuleStatus
    BY <2>1 DEF EvaluatedTo, Outcome
  <2>4. /\ rst'[r] \in RuleStatus /\ rst'[r].latched = after[r].s.latched /\ rst'[r].conf = after[r].s.conf
        /\ rst'[r].chain = after[r].s.chain
    BY <2>2, <2>3, RecoveredOutcome
  <2>5. after[r].s.chain = rst[r].chain /\ StreaksOf(r, after[r].s.conf)
    BY <2>1 DEF EvaluatedTo, Outcome
  <2>6. Rule[r].latch = TRUE /\ after[r].s.latched = FALSE => rst[r].latched = FALSE
    BY <2>1 DEF EvaluatedTo, Outcome
  <2> QED
    BY <1>1, <2>4, <2>5, <2>6
<1> QED
  BY <1>2, <1>3

(* The latches, chains and types after an evaluation.                      *)
LEMMA EvaluationLatches ==
  ASSUME WatchdogConfigured, WatchdogInv, NEW after, NEW acting, NEW order, Evaluation(after, acting, order)
  PROVE  /\ rst' \in [Rules -> RuleStatus] /\ trips' \in [Rules -> Nat] /\ LatchHolds'
         /\ (\A r \in Rules : ChainShown(r, rst[r].chain))'
<1>0. /\ trips \in [Rules -> Nat] /\ clears \in [Rules -> Nat] /\ clears' = clears /\ inflight' = inflight \cup acting
      /\ acting \in SUBSET Rules
  BY DEF Evaluation, WatchdogInv, DogTyped
<1>1. rst' \in [Rules -> RuleStatus]
  <2>1. \A r \in Rules : rst'[r] \in RuleStatus
    BY ActingRule, RestingRule
  <2>2. rst' = [r \in Rules |-> rst'[r]]
    BY DEF Evaluation
  <2> QED
    BY <2>1, <2>2
<1>2. trips' \in [Rules -> Nat]
  <2>1. ASSUME NEW r \in Rules PROVE trips'[r] \in Nat
    <3>1. trips[r] \in Nat
      BY <1>0
    <3>2. trips'[r] = trips[r] \/ trips'[r] = trips[r] + 1
      BY ActingRule, RestingRule
    <3> QED
      BY <3>1, <3>2
  <2>2. trips' = [r \in Rules |-> trips'[r]]
    <3>1. trips' = [r \in Rules |-> IF r \in acting THEN trips[r] + 1 ELSE trips[r]]
      BY Zenon DEF Evaluation
    <3> QED
      BY <3>1
  <2> QED
    BY <2>1, <2>2
<1>3. ASSUME NEW r \in Rules, Rule[r].latch = TRUE
      PROVE  (rst'[r].latched = FALSE => trips'[r] <= clears[r]) /\ trips'[r] <= clears[r] + 1
  <2>1. trips[r] \in Nat /\ clears[r] \in Nat /\ trips[r] <= clears[r] + 1 /\ (rst[r].latched = FALSE => trips[r] <= clears[r])
    BY <1>0, <1>3 DEF WatchdogInv, LatchHolds
  <2>2. CASE r \in acting
    <3>1. rst'[r].latched = TRUE /\ rst[r].latched = FALSE /\ trips'[r] = trips[r] + 1
      BY <1>3, <2>2, ActingRule
    <3> QED
      BY <2>1, <3>1
  <2>3. CASE r \notin acting
    BY <1>3, <2>1, <2>3, RestingRule
  <2> QED
    BY <2>2, <2>3
<1>4. LatchHolds'
  BY <1>0, <1>3 DEF LatchHolds
<1>5. ASSUME NEW r \in Rules PROVE ChainShown(r, rst[r].chain)'
  <2>1. CASE r \in acting
    <3>1. rst'[r].chain.trip = trips'[r] /\ rst'[r].chain.state = "running" /\ r \in inflight'
      <4>1. rst'[r].chain.trip = trips[r] + 1 /\ trips'[r] = trips[r] + 1 /\ rst'[r].chain.state = "running"
        BY <2>1, ActingRule
      <4>2. r \in inflight'
        BY <1>0, <2>1
      <4> QED
        BY <4>1, <4>2
    <3> QED
      BY <3>1 DEF ChainShown
  <2>2. CASE r \notin acting
    <3>1. rst'[r].chain = rst[r].chain /\ trips'[r] = trips[r] /\ ChainShown(r, rst[r].chain)
      BY <2>2, RestingRule DEF WatchdogInv
    <3> QED
      BY <1>0, <3>1 DEF ChainShown, Tried, Dog!Actions
  <2> QED
    BY <2>1, <2>2
<1>6. (\A r \in Rules : ChainShown(r, rst[r].chain))'
  BY <1>5
<1> QED
  BY <1>1, <1>2, <1>4, <1>6

(* The chains of the rules that act are submitted behind the others.       *)
LEMMA EvaluationQueue ==
  ASSUME WatchdogConfigured, WatchdogInv, NEW after, NEW acting, NEW order, Evaluation(after, acting, order)
  PROVE  queue' \in Seq(Submitted) /\ QueueOwned' /\ WorkerOwned'
<1>n. PICK n : n = Cardinality(acting)
  OBVIOUS
<1>new. PICK new : new = [i \in 1..n |-> [rule |-> order[i], trip |-> trips'[order[i]]]]
  OBVIOUS
<1>1. /\ queue \in Seq(Submitted) /\ QueueOwned /\ WorkerOwned
  BY DEF WatchdogInv, DogTyped
<1>2. /\ n \in Nat /\ order \in [1..n -> acting] /\ \A i, j \in 1..n : order[i] = order[j] => i = j
      /\ acting \in SUBSET Rules /\ \A r \in acting : r \notin inflight
      /\ inflight' = inflight \cup acting /\ worker' = worker
      /\ queue' = queue \o new
  BY <1>n, <1>new DEF Evaluation
<1>3. \A i \in 1..n : order[i] \in acting /\ order[i] \in Rules /\ trips'[order[i]] \in Nat
  BY <1>2, EvaluationLatches
<1>4. /\ new \in Seq(Submitted) /\ Len(new) = n
      /\ \A i \in 1..n : new[i].rule = order[i] /\ new[i].trip = trips'[order[i]]
  <2>1. ASSUME NEW i \in 1..n
        PROVE  new[i] \in Submitted /\ new[i].rule = order[i] /\ new[i].trip = trips'[order[i]]
    <3>1. new[i] = [rule |-> order[i], trip |-> trips'[order[i]]]
      BY <1>new
    <3> QED
      BY <1>3, <3>1 DEF Submitted
  <2>2. new \in [1..n -> Submitted]
    BY <1>new, <2>1
  <2> QED
    BY <1>2, <2>1, <2>2
<1>l. PICK l : l = Len(queue)
  OBVIOUS
<1>5. /\ l \in Nat /\ DOMAIN queue = 1..l /\ queue' \in Seq(Submitted) /\ DOMAIN queue' = 1..(l + n)
      /\ \A i \in 1..l : queue'[i] = queue[i]
      /\ \A i \in 1..(l + n) : i > l => queue'[i] = new[i - l] /\ i - l \in 1..n
  <2>1. queue \in Seq(Submitted) /\ new \in Seq(Submitted) /\ Len(new) = n /\ Len(queue) = l /\ queue' = queue \o new
    BY <1>1, <1>2, <1>4, <1>l
  <2>2. l \in Nat /\ n \in Nat /\ DOMAIN queue = 1..l /\ queue' \in Seq(Submitted) /\ DOMAIN queue' = 1..(l + n)
    BY <2>1
  <2>3. \A i \in 1..l : queue'[i] = queue[i]
    BY <2>1
  <2>4. ASSUME NEW i \in 1..(l + n), i > l PROVE queue'[i] = new[i - l] /\ i - l \in 1..n
    <3>1. \A k \in 1..(Len(queue) + Len(new)) :
            (queue \o new)[k] = IF k <= Len(queue) THEN queue[k] ELSE new[k - Len(queue)]
      BY <2>1, ConcatProperties
    <3>2. i \in 1..(Len(queue) + Len(new)) /\ ~(i <= Len(queue)) /\ i - l \in 1..n
      BY <2>1, <2>2, <2>4
    <3> QED
      BY <2>1, <3>1, <3>2
  <2> QED
    BY <2>2, <2>3, <2>4
<1>6. ASSUME NEW i \in DOMAIN queue'
      PROVE  \/ i \in DOMAIN queue /\ queue'[i] = queue[i] /\ queue[i].rule \in inflight
             \/ /\ i > l /\ i - l \in 1..n /\ queue'[i].rule = order[i - l] /\ queue'[i].trip = trips'[order[i - l]]
                /\ order[i - l] \in acting
  <2>1. CASE i \in 1..l
    <3>1. i \in DOMAIN queue /\ queue'[i] = queue[i]
      BY <1>5, <2>1
    <3> QED
      BY <1>1, <3>1 DEF QueueOwned
  <2>2. CASE i \notin 1..l
    <3>1. i > l /\ i \in 1..(l + n)
      BY <1>2, <1>5, <2>2
    <3>2. queue'[i] = new[i - l] /\ i - l \in 1..n
      BY <1>5, <3>1
    <3> QED
      BY <1>3, <1>4, <3>1, <3>2
  <2> QED
    BY <2>1, <2>2
<1>7. ASSUME NEW r \in Rules, r \in inflight
      PROVE  r \in inflight' /\ trips'[r] = trips[r] /\ rst'[r].chain = rst[r].chain
  BY <1>2, <1>7, RestingRule
<1>8. QueueOwned'
  <2>1. ASSUME NEW i \in DOMAIN queue' PROVE queue'[i].rule \in inflight' /\ queue'[i].trip = trips'[queue'[i].rule]
    <3>1. CASE i \in DOMAIN queue /\ queue'[i] = queue[i] /\ queue[i].rule \in inflight
      <4>1. queue[i].rule \in Rules /\ queue[i].trip = trips[queue[i].rule]
        <5>1. queue[i] \in Submitted
          BY <1>1, <3>1
        <5>2. queue[i].rule \in Rules
          BY <5>1 DEF Submitted
        <5> QED
          BY <1>1, <3>1, <5>2 DEF QueueOwned
      <4> QED
        BY <1>7, <3>1, <4>1
    <3>2. CASE /\ queue'[i].rule = order[i - l] /\ queue'[i].trip = trips'[order[i - l]] /\ order[i - l] \in acting
      BY <1>2, <3>2
    <3> QED
      BY <1>6, <3>1, <3>2
  <2>2. ASSUME NEW i \in DOMAIN queue', NEW j \in DOMAIN queue', queue'[i].rule = queue'[j].rule PROVE i = j
    <3>1. CASE i \in DOMAIN queue /\ j \in DOMAIN queue
      <4>1. queue'[i] = queue[i] /\ queue'[j] = queue[j]
        BY <1>5, <3>1
      <4> QED
        BY <1>1, <2>2, <3>1, <4>1 DEF QueueOwned
    <3>2. CASE i \notin DOMAIN queue /\ j \notin DOMAIN queue
      <4>1. /\ i - l \in 1..n /\ queue'[i].rule = order[i - l]
            /\ j - l \in 1..n /\ queue'[j].rule = order[j - l]
        BY <1>6, <3>2
      <4>2. i - l = j - l
        BY <1>2, <2>2, <4>1
      <4> QED
        BY <1>5, <4>2
    <3>3. ASSUME NEW k \in DOMAIN queue', k \in DOMAIN queue, NEW m \in DOMAIN queue', m \notin DOMAIN queue
          PROVE  queue'[k].rule # queue'[m].rule
      <4>1. queue'[k] = queue[k] /\ queue[k].rule \in inflight
        BY <1>1, <1>5, <3>3 DEF QueueOwned
      <4>2. queue'[m].rule \in acting
        BY <1>6, <3>3
      <4> QED
        BY <1>2, <4>1, <4>2
    <3> QED
      BY <2>2, <3>1, <3>2, <3>3
  <2> QED
    BY <2>1, <2>2 DEF QueueOwned
<1>9. WorkerOwned'
  <2>1. SUFFICES ASSUME worker # Dog!IdleWorker
                 PROVE  WorkerOwned'
    BY <1>2 DEF WorkerOwned, Dog!IdleWorker
  <2>w. PICK w : w = worker.rule
    OBVIOUS
  <2>2. w \in Rules /\ w \in inflight /\ worker.trip = trips[w] /\ \A i \in DOMAIN queue : queue[i].rule # w
    BY <1>1, <2>1, <2>w DEF WorkerOwned, WatchdogInv, DogTyped, Busied
  <2>3. w \in inflight' /\ trips'[w] = trips[w] /\ rst'[w].chain = rst[w].chain
    BY <1>7, <2>2
  <2>4. \A i \in DOMAIN queue' : queue'[i].rule # w
    BY <1>2, <1>6, <2>2
  <2> QED
    BY <1>1, <1>2, <2>1, <2>2, <2>3, <2>4, <2>w DEF WorkerOwned, Tried, Dog!Actions, Dog!IdleWorker
<1> QED
  BY <1>5, <1>8, <1>9

(* The streaks after an evaluation: a trip leaves its samples behind it.   *)
LEMMA EvaluationStreaks ==
  ASSUME WatchdogConfigured, WatchdogInv, NEW after, NEW acting, NEW order, Evaluation(after, acting, order)
  PROVE  Streaks'
<1>0. was' = was
  BY DEF Evaluation
<1>1. ASSUME NEW r \in Rules, Rule[r].need > 0, NEW a \in Signals
      PROVE  StreakSound(r, a, rst[r].conf[a])' /\ StreakFresh(r, a, rst[r].conf[a])'
  <2>d. PICK d : d = rst'[r].conf[a]
    OBVIOUS
  <2>1. CASE r \notin acting
    <3>1. StreaksOf(r, rst'[r].conf) /\ tripped'[r] = tripped[r]
      BY <2>1, RestingRule
    <3>2. StreakSound(r, a, d) /\ StreakFresh(r, a, d)
      BY <1>1, <2>d, <3>1 DEF StreaksOf
    <3>3. StreakSound(r, a, rst[r].conf[a])'
      BY <1>0, <2>d, <3>2 DEF StreakSound
    <3>4. StreakFresh(r, a, rst[r].conf[a])'
      BY <2>d, <3>1, <3>2 DEF StreakFresh, UsedUp
    <3> QED
      BY <3>3, <3>4
  <2>2. CASE r \in acting
    <3>c. PICK c : c = after[r].s.conf
      OBVIOUS
    <3>1. rst'[r].conf = Dog!ResetConfirmation(c) /\ StreaksOf(r, c)
      BY <2>2, <3>c, ActingRule
    <3>2. /\ StreaksOf(r, Dog!ResetConfirmation(c)) /\ Dog!ResetConfirmation(c)[a].ev = {}
          /\ Dog!ResetConfirmation(c)[a].last = c[a].last
      BY <3>1, ResetStreaks
    <3>3. StreakSound(r, a, d) /\ StreakFresh(r, a, d) /\ d.ev = {} /\ d.last = c[a].last
      BY <1>1, <2>d, <3>1, <3>2 DEF StreaksOf
    <3>4. StreakSound(r, a, rst[r].conf[a])'
      BY <1>0, <2>d, <3>3 DEF StreakSound
    <3>5. tripped'[r].ev = EvidenceOf(r, c) /\ tripped'[r].earlier = tripped[r].earlier \cup tripped[r].ev
      <4>1. tripped'[r] = [ev |-> EvidenceOf(r, c), unknown |-> Dog!Unknown(r), earlier |-> tripped[r].earlier \cup tripped[r].ev]
        BY <2>2, <3>c DEF Evaluation
      <4> QED
        BY <4>1
    <3>6. ASSUME NEW i \in Nat, <<a, i>> \in tripped'[r].ev \cup tripped'[r].earlier
          PROVE  i <= d.last
      <4>1. CASE <<a, i>> \in EvidenceOf(r, c)
        <5>1. i \in c[a].ev
          BY <4>1 DEF EvidenceOf
        <5>2. StreakSound(r, a, c[a])
          BY <1>1, <3>1 DEF StreaksOf
        <5> QED
          BY <3>3, <5>1, <5>2 DEF StreakSound
      <4>2. CASE <<a, i>> \in UsedUp(r)
        BY <3>3, <4>2 DEF StreakFresh
      <4> QED
        BY <3>5, <3>6, <4>1, <4>2 DEF UsedUp
    <3>7. StreakFresh(r, a, rst[r].conf[a])'
      BY <2>d, <3>3, <3>6 DEF StreakFresh, UsedUp
    <3> QED
      BY <3>4, <3>7
  <2> QED
    BY <2>1, <2>2
<1> QED
  BY <1>1 DEF Streaks

(* Every trip rests on samples that no earlier one has used.               *)
LEMMA EvaluationEvidence ==
  ASSUME WatchdogConfigured, WatchdogInv, NEW after, NEW acting, NEW order, Evaluation(after, acting, order)
  PROVE  TripsRest'
<1>0. was' = was
  BY DEF Evaluation
<1>1. ASSUME NEW r \in Rules, Rule[r].need > 0, ~tripped'[r].unknown
      PROVE  \E a \in Rule[r].aliases : TripRests(r, a)'
  <2>1. CASE r \notin acting
    <3>1. tripped'[r] = tripped[r]
      BY <2>1, RestingRule
    <3>2. PICK a \in Rule[r].aliases : TripRests(r, a)
      BY <1>1, <3>1 DEF WatchdogInv, TripsRest
    <3>3. Evidence(r, a)' = Evidence(r, a)
      BY <3>1 DEF Evidence
    <3> QED
      BY <1>0, <3>1, <3>2, <3>3 DEF TripRests
  <2>2. CASE r \in acting
    <3>c. PICK c : c = after[r].s.conf
      OBVIOUS
    <3>1. StreaksOf(r, c) /\ Dog!Confirmed(r, c)
      BY <2>2, <3>c, ActingRule
    <3>2. /\ tripped'[r].ev = EvidenceOf(r, c) /\ tripped'[r].earlier = UsedUp(r)
          /\ ~Dog!Unknown(r)
      <4>1. tripped'[r] = [ev |-> EvidenceOf(r, c), unknown |-> Dog!Unknown(r), earlier |-> tripped[r].earlier \cup tripped[r].ev]
        BY <2>2, <3>c DEF Evaluation
      <4>2. /\ tripped'[r].ev = EvidenceOf(r, c) /\ tripped'[r].earlier = UsedUp(r)
        BY <4>1 DEF UsedUp
      <4>3. tripped'[r].unknown = Dog!Unknown(r)
        BY <4>1
      <4> QED
        BY <1>1, <4>2, <4>3, Zenon
    <3>3. PICK a \in Rule[r].aliases :
             LET mine == {p \in EvidenceOf(r, c) : p[1] = a}
             IN  /\ Cardinality(mine) = Rule[r].need
                 /\ \A p \in mine : p[2] \in 1..Len(was[a]) /\ was[a][p[2]] = "high"
                 /\ mine \cap UsedUp(r) = {}
      BY <1>1, <3>1, <3>2, EvidenceRests
    <3>4. Evidence(r, a)' = {p \in EvidenceOf(r, c) : p[1] = a}
      BY <3>2 DEF Evidence
    <3> QED
      BY <1>0, <3>2, <3>3, <3>4 DEF TripRests
  <2> QED
    BY <2>1, <2>2
<1> QED
  BY <1>1 DEF TripsRest

(* The main loop evaluates the rules.                                      *)
LEMMA EvaluateStep ==
  ASSUME WatchdogConfigured, WatchdogInv, NEW A, NEW D, Dog!EvaluateRules(A, D)
  PROVE  WatchdogInv'
<1>1. PICK after, acting, order : Evaluation(after, acting, order)
  BY IsEvaluation
<1>2. UNCHANGED <<sample, was, worker, clears>> /\ inflight' = inflight \cup acting /\ acting \in SUBSET Rules
  BY <1>1 DEF Evaluation
<1>3. /\ rst' \in [Rules -> RuleStatus] /\ trips' \in [Rules -> Nat] /\ LatchHolds'
      /\ (\A r \in Rules : ChainShown(r, rst[r].chain))'
  BY <1>1, EvaluationLatches
<1>4. queue' \in Seq(Submitted) /\ QueueOwned' /\ WorkerOwned'
  BY <1>1, EvaluationQueue
<1>5. DogTyped'
  <2>1. DogTyped
    BY DEF WatchdogInv
  <2>2. Dog!IdleWorker' = Dog!IdleWorker
    BY DEF Dog!IdleWorker
  <2> QED
    BY <1>2, <1>3, <1>4, <2>1, <2>2 DEF DogTyped
<1>6. SamplesNumbered'
  BY <1>2 DEF WatchdogInv, SamplesNumbered
<1>7. Streaks' /\ TripsRest'
  BY <1>1, EvaluationStreaks, EvaluationEvidence
<1> QED
  BY <1>3, <1>4, <1>5, <1>6, <1>7 DEF WatchdogInv

(* A watchdog that has just started.                                       *)
LEMMA WatchdogStarts ==
  ASSUME WatchdogConfigured, Dog!Init
  PROVE  WatchdogInv
<1>1. /\ sample = [a \in Signals |-> [id |-> 0, ok |-> FALSE]] /\ was = [a \in Signals |-> <<>>]
      /\ rst = [r \in Rules |-> Dog!FreshRule] /\ inflight = {} /\ queue = <<>> /\ worker = Dog!IdleWorker
      /\ trips = [r \in Rules |-> 0] /\ clears = [r \in Rules |-> 0]
      /\ tripped = [r \in Rules |-> [ev |-> {}, earlier |-> {}, unknown |-> TRUE]]
  BY DEF Dog!Init
<1>c. PICK c : c = Dog!FreshConfirmation
  OBVIOUS
<1>2. c \in [Signals -> Streak] /\ \A a \in Signals : c[a].n = 0 /\ c[a].last = 0 /\ c[a].ev = {}
  BY <1>c DEF Dog!FreshConfirmation, Streak
<1>n. PICK n : n = Dog!NoChain
  OBVIOUS
<1>3. n \in ChainStatus /\ n.trip = 0 /\ n.state = "none"
  BY <1>n DEF Dog!NoChain, ChainStatus
<1>4. /\ Dog!FreshRule \in RuleStatus /\ Dog!FreshRule.chain = n /\ Dog!FreshRule.conf = c
      /\ Dog!FreshRule.latched = FALSE
  <2>1. Dog!FreshRule = [latched |-> FALSE, armed |-> FALSE, since |-> "none", cooling |-> FALSE, trip |-> 0,
                         recovered |-> FALSE, conf |-> c, chain |-> n]
    BY <1>c, <1>n DEF Dog!FreshRule
  <2> QED
    BY <1>2, <1>3, <2>1 DEF RuleStatus
<1>5. DogTyped
  <2>1. /\ sample \in [Signals -> [id : Nat, ok : BOOLEAN]] /\ was \in [Signals -> Seq(Reading)]
        /\ rst \in [Rules -> RuleStatus] /\ trips \in [Rules -> Nat] /\ clears \in [Rules -> Nat]
    BY <1>1, <1>4
  <2> QED
    BY <1>1, <2>1 DEF DogTyped
<1>6. LatchHolds
  BY <1>1 DEF LatchHolds
<1>7. \A r \in Rules : ChainShown(r, rst[r].chain)
  BY <1>1, <1>3, <1>4 DEF ChainShown
<1>8. QueueOwned /\ WorkerOwned
  BY <1>1 DEF QueueOwned, WorkerOwned
<1>9. SamplesNumbered
  BY <1>1 DEF SamplesNumbered
<1>10. Streaks
  <2>1. ASSUME NEW r \in Rules, Rule[r].need > 0, NEW a \in Signals
        PROVE  StreakSound(r, a, rst[r].conf[a]) /\ StreakFresh(r, a, rst[r].conf[a])
    <3>d. PICK d : d = rst[r].conf[a]
      OBVIOUS
    <3>1. d.n = 0 /\ d.last = 0 /\ d.ev = {} /\ Len(was[a]) = 0 /\ Rule[r].need \in Nat
      BY <1>1, <1>2, <1>4, <3>d, RuleSays
    <3>2. StreakSound(r, a, d)
      BY <3>1, FS_EmptySet DEF StreakSound
    <3>3. tripped[r].ev = {} /\ tripped[r].earlier = {}
      BY <1>1
    <3>4. StreakFresh(r, a, d)
      BY <3>3 DEF StreakFresh, UsedUp
    <3> QED
      BY <3>2, <3>4, <3>d
  <2> QED
    BY <2>1 DEF Streaks
<1>11. TripsRest
  BY <1>1 DEF TripsRest
<1> QED
  BY <1>5, <1>6, <1>7, <1>8, <1>9, <1>10, <1>11 DEF WatchdogInv

(* What the invariant says of trips, latches and chains.                   *)
LEMMA WatchdogShows ==
  ASSUME WatchdogConfigured, WatchdogInv
  PROVE  Dog!TripConfirmed /\ Dog!OneTripPerClear /\ Dog!ChainAccounted
<1>1. Dog!TripConfirmed
  <2>1. ASSUME NEW r \in Rules, Rule[r].need > 0, ~tripped[r].unknown
        PROVE  \E a \in Rule[r].aliases :
                 /\ Dog!Cardinality(Evidence(r, a)) = Rule[r].need
                 /\ \A p \in Evidence(r, a) : was[a][p[2]] = "high"
                 /\ Evidence(r, a) \cap tripped[r].earlier = {}
    BY <2>1, WatchdogCardinality DEF WatchdogInv, TripsRest, TripRests
  <2> QED
    BY <2>1 DEF Dog!TripConfirmed, Evidence
<1>2. Dog!OneTripPerClear
  BY RuleSays DEF WatchdogInv, LatchHolds, Dog!OneTripPerClear
<1>3. Dog!ChainAccounted
  BY DEF WatchdogInv, ChainShown, Tried, Dog!ChainAccounted
<1> QED
  BY <1>1, <1>2, <1>3

(* The watchdog, for any number of rules, signals and samples: a trip that *)
(* needs confirmation rests on `need' distinct samples of one source above *)
(* the threshold that no earlier trip has used                             *)
(* (_watchdog_confirmation_gate, and the reset at a trip in                *)
(* _evaluate_rules), a latching rule trips once per manual clear, and      *)
(* the chain status of a rule is that of its latest trip: running only     *)
(* while the worker owns it, completed only when every action was tried    *)
(* (_on_action_chain_done).                                                *)
THEOREM WatchdogIsSound ==
  ASSUME WatchdogConfigured
  PROVE  Dog!Spec => [](Dog!TripConfirmed /\ Dog!OneTripPerClear /\ Dog!ChainAccounted)
<1>1. Dog!Init => WatchdogInv
  BY WatchdogStarts
<1>2. WatchdogInv /\ [Dog!Next]_Dog!watchdogVars => WatchdogInv'
  <2> SUFFICES ASSUME WatchdogInv, [Dog!Next]_Dog!watchdogVars
               PROVE  WatchdogInv'
    OBVIOUS
  <2>1. CASE \/ \E a \in Signals, v \in {"low", "high", "odd", "bad"} : Dog!TelemetryArrives(a, v)
             \/ \E a \in Signals : Dog!SampleAges(a)
    BY <2>1, SampleStep
  <2>2. CASE \E r \in Rules : Dog!StableElapses(r) \/ Dog!CooldownElapses(r)
    BY <2>2, ElapseStep
  <2>3. CASE \E A \in SUBSET Dog!Armable : \E D \in SUBSET Dog!Armable : Dog!EvaluateRules(A, D)
    BY <2>3, EvaluateStep
  <2>4. CASE \E S \in (SUBSET Rules) \ {{}} : Dog!ClearRuleState(S)
    BY <2>4, ClearStep
  <2>5. CASE \E S \in (SUBSET Rules) \ {{}}, b \in BOOLEAN : Dog!EnableDisable(S, b)
    BY <2>5, EnableStep
  <2>6. CASE Dog!WorkerTakes
    BY <2>6, TakesStep
  <2>7. CASE \E ok \in BOOLEAN : Dog!ExecuteAction(ok)
    BY <2>7, ExecuteStep
  <2>8. CASE Dog!OnActionChainDone
    BY <2>8, RecordStep
  <2>9. CASE Dog!ReleaseRule
    BY <2>9, ReleaseStep
  <2>10. CASE UNCHANGED Dog!watchdogVars
    <3>1. UNCHANGED <<sample, was, rst, inflight, queue, worker, trips, clears, tripped>>
      BY <2>10 DEF Dog!watchdogVars
    <3>2. rst' \in [Rules -> RuleStatus] /\ clears' \in [Rules -> Nat] /\ LatchHolds'
      BY <3>1 DEF WatchdogInv, DogTyped, LatchHolds
    <3>3. \A r \in Rules : rst'[r].chain = rst[r].chain /\ StreaksOf(r, rst'[r].conf)
      BY <3>1, RuleStreaks
    <3> QED
      BY <3>1, <3>2, <3>3, RuleStatesStep
  <2>11. CASE Dog!ChainRaises
    BY <2>11, RaisesStep
  <2> QED
    BY <2>1, <2>2, <2>3, <2>4, <2>5, <2>6, <2>7, <2>8, <2>9, <2>10, <2>11 DEF Dog!Next, Dog!WorkerNext
<1>3. WatchdogInv => Dog!TripConfirmed /\ Dog!OneTripPerClear /\ Dog!ChainAccounted
  BY WatchdogShows
<1> QED
  BY <1>1, <1>2, <1>3, PTL DEF Dog!Spec

-----------------------------------------------------------------------------
(* The sequence that is loaded, and the text recorded for a run *)

Text == Ids \X Nat
StoreTyped ==
    /\ disk \in [Ids -> Nat]
    /\ library = None \/ library \in [Ids -> Text]
    /\ loaded \in [text : Text \cup {None}, kind : {"path", "library", "autoload_path", None}, active : Ids \cup {None}, run : Nat \cup {None}]
    /\ engine \in [spec : Text \cup {None}, state : {"IDLE", "RUNNING", "PAUSED", "STOPPED", "ERROR"}, run : Nat]
    /\ nextRun \in Nat /\ life \in Nat
    /\ started \in Seq([life : Nat, run : Nat, text : Text])
    /\ events \in Seq([life : Nat, run : Nat])

(* A run of this life that was started with this text. *)
WasStarted(l, r, t) == \E n \in DOMAIN started : started[n] = [life |-> l, run |-> r, text |-> t]

(* The run id kept with the loaded text is that of a start of this text in *)
(* this process; a reload, a restart or a failed start never leaves it     *)
(* beside another text.                                                    *)
LoadedWasStarted == loaded.run # None => WasStarted(life, loaded.run, loaded.text)

(* What a library in use has passed. *)
Usable(lib) ==
    \A i, j \in Ids : lib[i] \notin Broken /\ ~(j \in Uses[lib[i]] /\ i \in Uses[lib[j]])

StoreInv ==
    /\ StoreTyped
    /\ engine.spec = loaded.text
    /\ LoadedWasStarted
    /\ library # None => Usable(library)
    /\ Store!SnapshotMatchesRun

(* The closure of the use steps leads back from each of two sequences that *)
(* use each other, so the library that has them is refused.                *)
LEMMA LoadableIsUsable ==
  ASSUME NEW entries, DOMAIN entries = Ids, Store!LoadEntries(entries)
  PROVE  Usable(entries)
<1> SUFFICES ASSUME NEW i \in Ids, NEW j \in Ids, j \in Uses[entries[i]], i \in Uses[entries[j]]
             PROVE  FALSE
  BY DEF Usable, Store!LoadEntries
<1> DEFINE Names == DOMAIN entries \cup UNION {Uses[entries[k]] : k \in DOMAIN entries}
           Closed(S) == \A k \in S \cap DOMAIN entries : Uses[entries[k]] \subseteq S
<1>1. ASSUME NEW S \in SUBSET Names, Uses[entries[i]] \subseteq S, Closed(S)
      PROVE  i \in S
  <2>1. j \in S \cap DOMAIN entries
    BY <1>1
  <2>2. Uses[entries[j]] \subseteq S
    BY <1>1, <2>1
  <2> QED
    BY <2>2
<1>2. i \in Names
  OBVIOUS
<1>3. i \in {m \in Names : \A S \in SUBSET Names : Uses[entries[i]] \subseteq S /\ Closed(S) => m \in S}
  BY <1>1, <1>2
<1>4. i \in Store!Reach(entries, i)
  BY <1>3 DEF Store!Reach
<1> QED
  BY <1>4 DEF Store!LoadEntries, Store!ValidateUseGraph

(* What is on disk is a library.                                          *)
LEMMA DiskLibrary ==
  ASSUME StoreTyped
  PROVE  Store!OnDisk \in [Ids -> Text] /\ (Store!LoadEntries(Store!OnDisk) => Usable(Store!OnDisk))
<1>1. Store!OnDisk \in [Ids -> Text]
  BY DEF StoreTyped, Store!OnDisk, Text
<1> QED
  BY <1>1, LoadableIsUsable

(* What was started and what was recorded stays so when starts are added. *)
LEMMA StartedGrows ==
  ASSUME StoreInv, NEW e \in [life : Nat, run : Nat, text : Text], started' = Append(started, e), rows' = rows
  PROVE  /\ started' \in Seq([life : Nat, run : Nat, text : Text])
         /\ WasStarted(e.life, e.run, e.text)'
         /\ Store!SnapshotMatchesRun'
<1>1. started \in Seq([life : Nat, run : Nat, text : Text])
  BY DEF StoreInv, StoreTyped
<1>2. /\ started' \in Seq([life : Nat, run : Nat, text : Text]) /\ Len(started') = Len(started) + 1
      /\ \A n \in 1..Len(started) : started'[n] = started[n]
      /\ started'[Len(started) + 1] = e /\ Len(started) \in Nat
  BY <1>1
<1>3. DOMAIN started = 1..Len(started) /\ DOMAIN started' = 1..(Len(started) + 1)
  BY <1>1, <1>2
<1>4. \A n \in DOMAIN started : n \in DOMAIN started' /\ started'[n] = started[n]
  BY <1>2, <1>3
<1>5. Len(started) + 1 \in DOMAIN started' /\ e = [life |-> e.life, run |-> e.run, text |-> e.text]
  BY <1>2, <1>3
<1>6. Store!SnapshotMatchesRun
  BY DEF StoreInv
<1>7. Store!SnapshotMatchesRun'
  <2>1. \A r \in rows : r.takenIn = r.life =>
          \E n \in DOMAIN started' : started'[n] = [life |-> r.life, run |-> r.run, text |-> r.text]
    BY <1>4, <1>6 DEF Store!SnapshotMatchesRun
  <2> QED
    BY <2>1 DEF Store!SnapshotMatchesRun
<1> QED
  BY <1>2, <1>5, <1>7 DEF WasStarted

(* A step that starts nothing, writes no row and stays in the same life of *)
(* the process.                                                            *)
LEMMA NothingStarted ==
  ASSUME StoreInv, StoreTyped', engine'.spec = loaded'.text, UNCHANGED <<started, rows>>,
         loaded'.run = None \/ (UNCHANGED life /\ loaded'.run = loaded.run /\ loaded'.text = loaded.text),
         library' # None => Usable(library')
  PROVE  StoreInv'
<1>1. LoadedWasStarted'
  BY DEF StoreInv, LoadedWasStarted, WasStarted
<1>2. Store!SnapshotMatchesRun'
  BY DEF StoreInv, Store!SnapshotMatchesRun
<1>3. (library # None => Usable(library))'
  BY DEF Usable
<1> QED
  BY <1>1, <1>2, <1>3 DEF StoreInv

(* Edits of files and a reload of the library.                            *)
LEMMA FileStep ==
  ASSUME StoreInv, (\E i \in Ids : Store!EditFile(i)) \/ Store!LibraryReload \/ UNCHANGED Store!storeVars
  PROVE  StoreInv'
<1>1. CASE \E i \in Ids : Store!EditFile(i)
  <2>1. PICK i \in Ids : Store!EditFile(i)
    BY <1>1
  <2>2. disk' = [disk EXCEPT ![i] = @ + 1] /\ UNCHANGED <<library, loaded, engine, nextRun, life, started, events, rows>>
    BY <2>1 DEF Store!EditFile
  <2>3. StoreTyped'
    BY <2>2 DEF StoreInv, StoreTyped
  <2> QED
    BY <2>2, <2>3, NothingStarted DEF StoreInv
<1>2. CASE Store!LibraryReload
  <2>1. library' \in {library, Store!OnDisk} /\ UNCHANGED <<disk, loaded, engine, nextRun, life, started, events, rows>>
    BY <1>2 DEF Store!LibraryReload
  <2>2. library' = library \/ (library' = Store!OnDisk /\ Store!LoadEntries(Store!OnDisk))
    BY <1>2 DEF Store!LibraryReload
  <2>3. StoreTyped' /\ (library' # None => Usable(library'))
    BY <2>1, <2>2, DiskLibrary DEF StoreInv, StoreTyped
  <2> QED
    BY <2>1, <2>3, NothingStarted DEF StoreInv
<1>3. CASE UNCHANGED Store!storeVars
  <2>1. UNCHANGED <<disk, library, loaded, engine, nextRun, life, started, events, rows>>
    BY <1>3 DEF Store!storeVars
  <2>2. StoreTyped'
    BY <2>1 DEF StoreInv, StoreTyped
  <2> QED
    BY <2>1, <2>2, NothingStarted DEF StoreInv
<1> QED
  BY <1>1, <1>2, <1>3

(* load and load by id.                                                   *)
LEMMA LoadStep ==
  ASSUME StoreInv, NEW i \in Ids, Store!Load(i) \/ Store!LibraryLoad(i)
  PROVE  StoreInv'
<1>1. PICK t, k, a : /\ t \in Text /\ k \in {"path", "library"} /\ a \in Ids \cup {None}
                     /\ Store!SetLoadedSequence(t, k, a)
                     /\ UNCHANGED <<disk, library, nextRun, life, started, events, rows>>
  <2>1. CASE Store!Load(i)
    <3>1. Store!OnDisk[i] \in Text
      BY DiskLibrary DEF StoreInv
    <3> QED
      BY <2>1, <3>1 DEF Store!Load
  <2>2. CASE Store!LibraryLoad(i)
    <3>1. library[i] \in Text
      BY <2>2 DEF Store!LibraryLoad, StoreInv, StoreTyped
    <3> QED
      BY <2>2, <3>1 DEF Store!LibraryLoad
  <2> QED
    BY <2>1, <2>2
<1>2. loaded' = [text |-> t, kind |-> k, active |-> a, run |-> None] /\ engine' = [spec |-> t, state |-> "IDLE", run |-> 0]
  BY <1>1 DEF Store!SetLoadedSequence, Store!Loaded, Store!Idle
<1>3. StoreTyped'
  BY <1>1, <1>2 DEF StoreInv, StoreTyped
<1> QED
  BY <1>1, <1>2, <1>3, NothingStarted DEF StoreInv

(* start and start by id begin a run.                                     *)
LEMMA BeginStep ==
  ASSUME StoreInv, None \notin Text, Store!Start \/ \E i \in Ids : Store!StartById(i)
  PROVE  StoreInv'
<1>1. PICK from, t : /\ Store!Begin(from, t) /\ t \in Text /\ from.text = t
                    /\ from \in [text : Text \cup {None}, kind : {"path", "library", "autoload_path", None}, active : Ids \cup {None}, run : Nat \cup {None}]
  <2>1. CASE Store!Start
    BY <2>1 DEF Store!Start, StoreInv, StoreTyped
  <2>2. CASE \E i \in Ids : Store!StartById(i)
    <3>1. PICK i \in Ids : Store!StartById(i)
      BY <2>2
    <3>2. library[i] \in Text
      BY <3>1 DEF Store!StartById, StoreInv, StoreTyped
    <3>3. Store!Begin([text |-> library[i], kind |-> "library", active |-> i, run |-> None], library[i])
      BY <3>1 DEF Store!StartById, Store!Loaded
    <3> QED
      BY <3>2, <3>3
  <2> QED
    BY <2>1, <2>2
<1> DEFINE e == [life |-> life, run |-> nextRun, text |-> t]
<1>2. /\ engine' = [spec |-> t, state |-> "RUNNING", run |-> nextRun]
      /\ nextRun' = nextRun + 1
      /\ loaded' = [from EXCEPT !.run = nextRun]
      /\ started' = Append(started, e)
      /\ events' = Append(events, [life |-> life, run |-> nextRun])
      /\ UNCHANGED <<disk, library, life, rows>>
  BY <1>1 DEF Store!Begin
<1>3. e \in [life : Nat, run : Nat, text : Text] /\ nextRun \in Nat /\ life \in Nat
  BY <1>1 DEF StoreInv, StoreTyped
<1>4. /\ started' \in Seq([life : Nat, run : Nat, text : Text])
      /\ \E n \in DOMAIN started' : started'[n] = e
      /\ Store!SnapshotMatchesRun'
  <2>1. /\ started' \in Seq([life : Nat, run : Nat, text : Text])
        /\ \E n \in DOMAIN started' : started'[n] = [life |-> e.life, run |-> e.run, text |-> e.text]
        /\ Store!SnapshotMatchesRun'
    BY <1>2, <1>3, StartedGrows DEF WasStarted
  <2> QED
    BY <2>1
<1>5. loaded' \in [text : Text \cup {None}, kind : {"path", "library", "autoload_path", None}, active : Ids \cup {None}, run : Nat \cup {None}]
      /\ loaded'.run = nextRun /\ loaded'.text = t
  BY <1>1, <1>2, <1>3
<1>6. events' \in Seq([life : Nat, run : Nat])
  <2>1. [life |-> life, run |-> nextRun] \in [life : Nat, run : Nat] /\ events \in Seq([life : Nat, run : Nat])
    BY <1>3 DEF StoreInv, StoreTyped
  <2> QED
    BY <1>2, <2>1
<1>7. StoreTyped'
  <2>1. engine' \in [spec : Text \cup {None}, state : {"IDLE", "RUNNING", "PAUSED", "STOPPED", "ERROR"}, run : Nat]
    BY <1>1, <1>2, <1>3
  <2>2. nextRun' \in Nat /\ life' \in Nat
    BY <1>2, <1>3
  <2>3. disk' \in [Ids -> Nat] /\ (library' = None \/ library' \in [Ids -> Text])
    BY <1>2 DEF StoreInv, StoreTyped
  <2> QED
    BY <1>4, <1>5, <1>6, <2>1, <2>2, <2>3 DEF StoreTyped
<1>8. LoadedWasStarted'
  BY <1>2, <1>4, <1>5 DEF LoadedWasStarted, WasStarted
<1>9. (engine.spec = loaded.text /\ (library # None => Usable(library)))'
  BY <1>2, <1>5 DEF StoreInv, Usable
<1> QED
  BY <1>4, <1>7, <1>8, <1>9 DEF StoreInv

(* A start that fails.                                                    *)
LEMMA FailedStartStep ==
  ASSUME StoreInv, Store!StartFails \/ \E i \in Ids : Store!StartByIdFails(i)
  PROVE  StoreInv'
<1>1. CASE Store!StartFails
  <2>1. /\ engine' = [engine EXCEPT !.state = "ERROR", !.run = nextRun] /\ nextRun' = nextRun + 1
        /\ UNCHANGED <<disk, library, loaded, life, started, events, rows>>
    BY <1>1 DEF Store!StartFails
  <2>0. engine \in [spec : Text \cup {None}, state : {"IDLE", "RUNNING", "PAUSED", "STOPPED", "ERROR"}, run : Nat]
        /\ nextRun \in Nat
    BY DEF StoreInv, StoreTyped
  <2>a. engine' = [spec |-> engine.spec, state |-> "ERROR", run |-> nextRun]
    BY <2>0, <2>1
  <2>2. /\ engine'.spec = engine.spec /\ nextRun' \in Nat
        /\ engine' \in [spec : Text \cup {None}, state : {"IDLE", "RUNNING", "PAUSED", "STOPPED", "ERROR"}, run : Nat]
    BY <2>0, <2>1, <2>a
  <2>3. StoreTyped'
    BY <2>1, <2>2 DEF StoreInv, StoreTyped
  <2> QED
    BY <2>1, <2>2, <2>3, NothingStarted DEF StoreInv
<1>2. CASE \E i \in Ids : Store!StartByIdFails(i)
  <2>1. PICK i \in Ids : Store!StartByIdFails(i)
    BY <1>2
  <2>2. library[i] \in Text /\ nextRun \in Nat
    BY <2>1 DEF Store!StartByIdFails, StoreInv, StoreTyped
  <2>3. nextRun' = nextRun + 1 /\ UNCHANGED <<disk, library, life, started, events, rows>>
    BY <2>1 DEF Store!StartByIdFails
  <2>4. CASE loaded.text # None
    <3>1. loaded' = loaded /\ engine' = [spec |-> loaded.text, state |-> "IDLE", run |-> 0]
      BY <2>1, <2>4 DEF Store!StartByIdFails, Store!RestoreLoadedSequence, Store!Idle
    <3>2. StoreTyped'
      BY <2>2, <2>3, <3>1 DEF StoreInv, StoreTyped
    <3> QED
      BY <2>3, <3>1, <3>2, NothingStarted DEF StoreInv
  <2>5. CASE loaded.text = None
    <3>1. /\ loaded' = [text |-> library[i], kind |-> "library", active |-> i, run |-> None]
          /\ engine' = [spec |-> library[i], state |-> "ERROR", run |-> nextRun]
      BY <2>1, <2>5 DEF Store!StartByIdFails, Store!RestoreLoadedSequence, Store!Loaded
    <3>2. StoreTyped'
      BY <2>2, <2>3, <3>1 DEF StoreInv, StoreTyped
    <3> QED
      BY <2>3, <3>1, <3>2, NothingStarted DEF StoreInv
  <2> QED
    BY <2>4, <2>5
<1> QED
  BY <1>1, <1>2

(* A new process has an autoloaded text, or none, that was not started.   *)
LEMMA FreshProcess ==
  ASSUME Store!OnDisk \in [Ids -> Text], NEW lib, lib # None => lib \in [Ids -> Text],
         NEW x \in Store!Autoloaded(lib)
  PROVE  /\ x \in [text : Text \cup {None}, kind : {"path", "library", "autoload_path", None}, active : Ids \cup {None}, run : Nat \cup {None}]
         /\ x.run = None
<1>1. \E t \in Text \cup {None}, k \in {"library", "autoload_path", None}, a \in Ids \cup {None} :
         x = Store!NotStarted(t, k, a)
  <2>1. CASE x = Store!NotStarted(None, None, None)
    BY <2>1
  <2>2. CASE \E i \in Ids : lib # None /\ x = Store!NotStarted(lib[i], "library", i)
    BY <2>2
  <2>3. CASE \E i \in Ids : x = Store!NotStarted(Store!OnDisk[i], "autoload_path", None)
    BY <2>3
  <2> QED
    BY <2>1, <2>2, <2>3 DEF Store!Autoloaded, Store!NothingLoaded
<1> QED
  BY <1>1 DEF Store!NotStarted

(* The run moves on; the process restarts.                                *)
LEMMA ProcessStep ==
  ASSUME StoreInv, Store!RunMoves \/ Store!Restart
  PROVE  StoreInv'
<1>1. CASE Store!RunMoves
  <2>1. /\ \E s \in {"RUNNING", "PAUSED", "STOPPED"} : engine' = [engine EXCEPT !.state = s]
        /\ UNCHANGED <<disk, library, loaded, nextRun, life, started, events, rows>>
    BY <1>1 DEF Store!RunMoves
  <2>2. StoreTyped' /\ engine'.spec = engine.spec
    BY <2>1 DEF StoreInv, StoreTyped
  <2> QED
    BY <2>1, <2>2, NothingStarted DEF StoreInv
<1>2. CASE Store!Restart
  <2>1. /\ life' = life + 1 /\ nextRun' = 1 /\ UNCHANGED <<disk, started, events, rows>>
        /\ loaded' \in Store!Autoloaded(library')
        /\ engine' = [spec |-> loaded'.text, state |-> "IDLE", run |-> 0]
    BY <1>2 DEF Store!Restart, Store!Idle
  <2>2. library' = None \/ (library' = Store!OnDisk /\ Store!LoadEntries(Store!OnDisk))
    BY <1>2 DEF Store!Restart
  <2>3. library' # None => library' \in [Ids -> Text] /\ Usable(library')
    BY <2>2, DiskLibrary DEF StoreInv
  <2>4. /\ loaded' \in [text : Text \cup {None}, kind : {"path", "library", "autoload_path", None}, active : Ids \cup {None}, run : Nat \cup {None}]
        /\ loaded'.run = None
    BY <2>1, <2>3, DiskLibrary, FreshProcess DEF StoreInv
  <2>5. engine' \in [spec : Text \cup {None}, state : {"IDLE", "RUNNING", "PAUSED", "STOPPED", "ERROR"}, run : Nat]
    BY <2>1, <2>4
  <2>6. StoreTyped'
    BY <2>1, <2>3, <2>4, <2>5 DEF StoreInv, StoreTyped
  <2> QED
    BY <2>1, <2>3, <2>4, <2>6, NothingStarted
<1> QED
  BY <1>1, <1>2

(* The text is recorded only for the run id that is kept with it; in the   *)
(* process that ran it, that id was given to a start of this very text.    *)
LEMMA CaptureStep ==
  ASSUME StoreInv, None \notin Nat, Store!CaptureSnapshot
  PROVE  StoreInv'
<1> DEFINE e == Head(events)
<1>1. /\ events # <<>> /\ events' = Tail(events)
      /\ UNCHANGED <<disk, library, loaded, engine, nextRun, life, started>>
      /\ rows' = rows \/ (loaded.run = e.run /\
            rows' = rows \cup {[life |-> e.life, run |-> e.run, text |-> loaded.text, takenIn |-> life]})
  BY DEF Store!CaptureSnapshot, Store!RunIdMatches
<1>2. e \in [life : Nat, run : Nat] /\ events' \in Seq([life : Nat, run : Nat])
  <2>1. events \in Seq([life : Nat, run : Nat])
    BY DEF StoreInv, StoreTyped
  <2> QED
    BY <1>1, <2>1, HeadTailProperties
<1>3. StoreTyped'
  BY <1>1, <1>2 DEF StoreInv, StoreTyped
<1>4. (engine.spec = loaded.text)' /\ LoadedWasStarted' /\ (library # None => Usable(library))'
  BY <1>1 DEF StoreInv, LoadedWasStarted, WasStarted, Usable
<1>5. loaded.run = e.run => WasStarted(life, e.run, loaded.text)
  BY <1>2 DEF StoreInv, LoadedWasStarted
<1>6. ASSUME NEW r \in rows', r.takenIn = r.life
      PROVE  \E n \in DOMAIN started : started[n] = [life |-> r.life, run |-> r.run, text |-> r.text]
  <2>1. CASE r \in rows
    BY <1>6, <2>1 DEF StoreInv, Store!SnapshotMatchesRun
  <2>2. CASE r \notin rows
    <3>1. loaded.run = e.run /\ r = [life |-> e.life, run |-> e.run, text |-> loaded.text, takenIn |-> life]
      BY <1>1, <2>2
    <3> QED
      BY <1>5, <1>6, <3>1 DEF WasStarted
  <2> QED
    BY <2>1, <2>2
<1>7. Store!SnapshotMatchesRun'
  BY <1>1, <1>6 DEF Store!SnapshotMatchesRun
<1> QED
  BY <1>3, <1>4, <1>7 DEF StoreInv

(* The sequence library and the loaded sequence, for any number of         *)
(* sequences, edits, runs and restarts: a text recorded for a run of the   *)
(* process that answered is the one this run was started with              *)
(* (_loaded_yaml_run_id_mismatch); and the text the process says is loaded *)
(* is the one the runtime holds, from a library with no broken sequence    *)
(* and no two that use each other, after failed starts and failed reloads  *)
(* too (_restore_loaded_sequence, _load_sequence_library).  None is no run *)
(* id and no text.                                                         *)
THEOREM StoreIsSound ==
  ASSUME None \notin Nat, None \notin Text
  PROVE  Store!Spec => [](Store!SnapshotMatchesRun /\ Store!LoadedIsWhatRuns)
<1>1. Store!Init => StoreInv
  <2> SUFFICES ASSUME Store!Init PROVE StoreInv
    OBVIOUS
  <2>1. /\ disk = [i \in Ids |-> 1] /\ nextRun = 1 /\ life = 0 /\ started = <<>> /\ events = <<>> /\ rows = {}
        /\ loaded \in Store!Autoloaded(library)
        /\ engine = [spec |-> loaded.text, state |-> "IDLE", run |-> 0]
    BY DEF Store!Init, Store!Idle
  <2>2. library = None \/ (library = Store!OnDisk /\ Store!LoadEntries(Store!OnDisk))
    BY DEF Store!Init
  <2>3. Store!OnDisk \in [Ids -> Text] /\ DOMAIN Store!OnDisk = Ids
    BY <2>1 DEF Store!OnDisk, Text
  <2>4. library = None \/ (library \in [Ids -> Text] /\ Usable(library))
    BY <2>2, <2>3, LoadableIsUsable
  <2>5. /\ loaded \in [text : Text \cup {None}, kind : {"path", "library", "autoload_path", None}, active : Ids \cup {None}, run : Nat \cup {None}]
        /\ loaded.run = None
    BY <2>1, <2>3, <2>4, FreshProcess
  <2>6. StoreTyped
    BY <2>1, <2>4, <2>5 DEF StoreTyped
  <2> QED
    BY <2>1, <2>4, <2>5, <2>6 DEF StoreInv, LoadedWasStarted, Store!SnapshotMatchesRun
<1>2. StoreInv /\ [Store!Next]_Store!storeVars => StoreInv'
  BY FileStep, LoadStep, BeginStep, FailedStartStep, ProcessStep, CaptureStep DEF Store!Next
<1>3. StoreInv => Store!SnapshotMatchesRun /\ Store!LoadedIsWhatRuns
  BY DEF StoreInv, Usable, Store!LoadedIsWhatRuns
<1> QED
  BY <1>1, <1>2, <1>3, PTL DEF Store!Spec

-----------------------------------------------------------------------------
(* Least and greatest elements *)

(* Every non-empty set of natural numbers has a least element. *)
LEMMA LeastNat ==
  ASSUME NEW T \in SUBSET Nat, T # {}
  PROVE  \E x \in T : \A y \in T : x <= y
<1> DEFINE R == OpToRel(<, Nat)
<1>1. IsWellFoundedOn(R, Nat)
  BY NatLessThanWellFounded
<1>2. \E x \in T : \A y \in T : ~ (<<y, x>> \in R)
  <2> HIDE DEF R
  <2> QED
    BY <1>1, WFMin
<1>3. \A x, y \in Nat : <<y, x>> \in R <=> y < x
  BY DEF OpToRel
<1> HIDE DEF R
<1>4. PICK x \in T : \A y \in T : ~ (<<y, x>> \in R)
  BY <1>2
<1>5. \A y \in T : y \in Nat /\ x \in Nat /\ ~(y < x)
  BY <1>3, <1>4
<1>6. \A y \in T : x <= y
  BY <1>5
<1> QED
  BY <1>6

(* Among finitely many positions there is a last one. *)
LEMMA LastPosition ==
  ASSUME NEW n \in Nat, NEW T \in SUBSET (1..n), T # {}
  PROVE  \E x \in T : \A y \in T : y <= x
<1> DEFINE U == {n - x : x \in T}
<1>1. U \in SUBSET Nat /\ U # {}
  <2>1. \A x \in T : n - x \in Nat
    OBVIOUS
  <2> QED
    BY <2>1
<1>2. PICK u \in U : \A v \in U : u <= v
  BY <1>1, LeastNat
<1>3. PICK x \in T : u = n - x
  BY <1>2
<1>4. \A y \in T : n - x <= n - y
  BY <1>2, <1>3
<1>5. \A y \in T : x \in Int /\ y \in Int /\ n \in Int
  OBVIOUS
<1>6. \A y \in T : y <= x
  BY <1>4, <1>5
<1> QED
  BY <1>6

-----------------------------------------------------------------------------
(* The federation hub *)

Socket == [open : BOOLEAN, inbox : Seq(Nat), due : Seq(Nat)]
Forwarder == [queue : Seq(Nat), req : Nat, sock : Socket, running : BOOLEAN]
Request == [mirror : Hub!Mirrors, action : Hub!Actions]

(* The answers a request may get, once. *)
OneAnswer(r) == {<<>>, << <<"reply", r>> >>, <<Hub!PeerUnavailable>>, <<Hub!Denied>>, <<Hub!Busy>>, <<Hub!NoWorker>>}

ForwardTyped ==
    /\ fwd \in [Hub!Mirrors -> Forwarder]
    /\ requests \in Seq(Request)
    /\ answers \in Seq(UNION {OneAnswer(r) : r \in Nat}) /\ Len(answers) = Len(requests)

(* The requests a worker has are of its mirror and are not answered. *)
Unanswered(rq, an, m, r) == r \in 1..Len(rq) /\ rq[r].mirror = m /\ an[r] = <<>>

Rising(q) == \A i, j \in 1..Len(q) : i < j => q[i] < q[j]

(* A rising queue with one more id.                                       *)
LEMMA RisingAppend ==
  ASSUME NEW q \in Seq(Nat), NEW n \in Nat, Rising(q), \A i \in 1..Len(q) : q[i] < n
  PROVE  /\ Append(q, n) \in Seq(Nat) /\ Rising(Append(q, n))
         /\ \A i \in 1..Len(Append(q, n)) : Append(q, n)[i] = n \/ \E k \in 1..Len(q) : Append(q, n)[i] = q[k]
<1> DEFINE p == Append(q, n)
<1>1. /\ p \in Seq(Nat) /\ Len(p) = Len(q) + 1 /\ p[Len(q) + 1] = n /\ Len(q) \in Nat
      /\ \A i \in 1..Len(q) : p[i] = q[i] /\ q[i] \in Nat
  OBVIOUS
<1> HIDE DEF p
<1>2. \A i \in 1..Len(p) : (i \in 1..Len(q) /\ p[i] = q[i]) \/ (i = Len(q) + 1 /\ p[i] = n)
  BY <1>1
<1>3. Rising(p)
  <2> SUFFICES ASSUME NEW i \in 1..Len(p), NEW j \in 1..Len(p), i < j PROVE p[i] < p[j]
    BY DEF Rising
  <2>1. i \in 1..Len(q) /\ p[i] = q[i] /\ p[i] \in Nat
    BY <1>1, <1>2
  <2> QED
    BY <1>1, <1>2, <2>1 DEF Rising
<1> QED
  BY <1>1, <1>2, <1>3 DEF p

(* A rising queue without its head.                                       *)
LEMMA RisingTail ==
  ASSUME NEW q \in Seq(Nat), q # <<>>, Rising(q)
  PROVE  /\ Tail(q) \in Seq(Nat) /\ Rising(Tail(q)) /\ Head(q) \in Nat /\ Head(q) = q[1] /\ 1 \in 1..Len(q)
         /\ \A i \in 1..Len(Tail(q)) : Tail(q)[i] # Head(q) /\ \E k \in 1..Len(q) : Tail(q)[i] = q[k]
<1> DEFINE p == Tail(q)
<1>1. /\ p \in Seq(Nat) /\ Len(p) = Len(q) - 1 /\ Head(q) = q[1] /\ Len(q) \in Nat /\ Len(q) >= 1
      /\ \A i \in 1..Len(p) : p[i] = q[i + 1]
      /\ \A i \in 1..Len(q) : q[i] \in Nat
  BY HeadTailProperties
<1> HIDE DEF p
<1>2. Rising(p)
  <2> SUFFICES ASSUME NEW i \in 1..Len(p), NEW j \in 1..Len(p), i < j PROVE p[i] < p[j]
    BY DEF Rising
  <2>1. i + 1 \in 1..Len(q) /\ j + 1 \in 1..Len(q) /\ i + 1 < j + 1
    BY <1>1
  <2>2. q[i + 1] < q[j + 1]
    BY <2>1 DEF Rising
  <2> QED
    BY <1>1, <2>2
<1>3. \A i \in 1..Len(p) : i + 1 \in 1..Len(q) /\ 1 \in 1..Len(q) /\ 1 < i + 1
  BY <1>1
<1>4. \A i \in 1..Len(p) : p[i] # q[1]
  <2> TAKE i \in 1..Len(p)
  <2>1. q[1] < q[i + 1] /\ q[1] \in Nat /\ q[i + 1] \in Nat
    BY <1>1, <1>3 DEF Rising
  <2> QED
    BY <1>1, <2>1
<1> QED
  BY <1>1, <1>2, <1>3, <1>4 DEF p

WorkerRight(rq, an, m, w) ==
    /\ \A i \in 1..Len(w.queue) : Unanswered(rq, an, m, w.queue[i])
    /\ Rising(w.queue)
    /\ w.req # 0 => Unanswered(rq, an, m, w.req) /\ \A i \in 1..Len(w.queue) : w.queue[i] # w.req

(* What is on a worker's socket is of the request it waits for: there is   *)
(* nothing when it waits for none.                                         *)
SocketRight(w) ==
    \/ w.sock.inbox = <<>> /\ w.sock.due = <<>>
    \/ w.req # 0 /\ w.sock.inbox = <<w.req>> /\ w.sock.due = <<>>
    \/ w.req # 0 /\ w.sock.inbox = <<>> /\ w.sock.due = <<w.req>>

ForwardInv ==
    /\ ForwardTyped
    /\ \A m \in Hub!Mirrors : WorkerRight(requests, answers, m, fwd[m]) /\ SocketRight(fwd[m])
    /\ Hub!ForwardAnswersOwn

(* A step of one worker that answers nothing. *)
LEMMA WorkerMoves ==
  ASSUME ForwardInv, NEW m \in Hub!Mirrors, NEW w \in Forwarder, fwd' = [fwd EXCEPT ![m] = w],
         WorkerRight(requests, answers, m, w), SocketRight(w), UNCHANGED <<requests, answers>>
  PROVE  ForwardInv'
<1>1. ForwardTyped'
  BY DEF ForwardInv, ForwardTyped
<1>2. \A n \in Hub!Mirrors : fwd'[n] = IF n = m THEN w ELSE fwd[n]
  BY DEF ForwardInv, ForwardTyped
<1>3. \A n \in Hub!Mirrors : WorkerRight(requests, answers, n, fwd'[n]) /\ SocketRight(fwd'[n])
  BY <1>2 DEF ForwardInv
<1>4. (\A n \in Hub!Mirrors : WorkerRight(requests, answers, n, fwd[n]) /\ SocketRight(fwd[n]))'
  BY <1>3 DEF WorkerRight, SocketRight, Unanswered
<1>5. Hub!ForwardAnswersOwn'
  BY DEF ForwardInv, Hub!ForwardAnswersOwn, Hub!PeerUnavailable, Hub!Denied, Hub!Busy, Hub!NoWorker
<1> QED
  BY <1>1, <1>4, <1>5 DEF ForwardInv

(* The request a worker waits for is answered. *)
LEMMA WorkerAnswers ==
  ASSUME ForwardInv, NEW m \in Hub!Mirrors, NEW w \in Forwarder, fwd' = [fwd EXCEPT ![m] = w],
         fwd[m].req # 0, w.req = 0, w.queue = fwd[m].queue, w.sock.inbox = <<>>, w.sock.due = <<>>,
         NEW what \in {Hub!PeerUnavailable, <<"reply", fwd[m].req>>},
         Hub!Answer(fwd[m].req, what), UNCHANGED requests
  PROVE  ForwardInv'
<1> DEFINE r == fwd[m].req
<1>1. r \in 1..Len(requests) /\ requests[r].mirror = m /\ answers[r] = <<>>
  BY DEF ForwardInv, WorkerRight, Unanswered
<1>2. answers' = [answers EXCEPT ![r] = Append(@, what)]
  BY DEF Hub!Answer
<1>3. DOMAIN answers = 1..Len(answers) /\ Len(answers) = Len(requests) /\ Len(requests) \in Nat
  BY DEF ForwardInv, ForwardTyped
<1>4. <<what>> \in OneAnswer(r)
  BY DEF OneAnswer
<1>5. Append(answers[r], what) = <<what>> /\ <<what>> \in UNION {OneAnswer(q) : q \in Nat}
  <2>1. r \in Nat
    BY DEF ForwardInv, ForwardTyped, Forwarder
  <2> QED
    BY <1>1, <1>4, <2>1
<1>6. /\ answers' \in Seq(UNION {OneAnswer(q) : q \in Nat}) /\ Len(answers') = Len(answers)
      /\ answers'[r] = <<what>> /\ \A q \in 1..Len(requests) : q # r => answers'[q] = answers[q]
  <2>1. answers \in Seq(UNION {OneAnswer(q) : q \in Nat})
    BY DEF ForwardInv, ForwardTyped
  <2> QED
    BY <1>1, <1>2, <1>3, <1>5, <2>1
<1>7. ForwardTyped'
  BY <1>6 DEF ForwardInv, ForwardTyped
<1>8. \A n \in Hub!Mirrors : fwd'[n] = IF n = m THEN w ELSE fwd[n]
  BY DEF ForwardInv, ForwardTyped
<1>9. ASSUME NEW n \in Hub!Mirrors, NEW q, Unanswered(requests, answers, n, q), q # r
      PROVE  Unanswered(requests', answers', n, q)
  BY <1>6, <1>9 DEF Unanswered
<1>10. ASSUME NEW n \in Hub!Mirrors PROVE WorkerRight(requests', answers', n, fwd'[n]) /\ SocketRight(fwd'[n])
  <2> DEFINE v == fwd[n]
  <2>1. WorkerRight(requests, answers, n, v) /\ SocketRight(v) /\ WorkerRight(requests, answers, m, fwd[m])
    BY DEF ForwardInv
  <2>2. CASE n = m
    <3>1. fwd'[n] = w
      BY <1>8, <2>2
    <3>2. \A i \in 1..Len(w.queue) : Unanswered(requests, answers, n, w.queue[i]) /\ w.queue[i] # r
      BY <2>1, <2>2 DEF WorkerRight
    <3>3. \A i \in 1..Len(w.queue) : Unanswered(requests', answers', n, w.queue[i])
      BY <1>9, <3>1, <3>2 DEF Unanswered
    <3>4. Rising(w.queue)
      BY <2>1 DEF WorkerRight
    <3>5. WorkerRight(requests', answers', n, fwd'[n])
      BY <3>1, <3>3, <3>4 DEF WorkerRight, Unanswered
    <3>6. SocketRight(fwd'[n])
      BY <3>1 DEF SocketRight
    <3> QED
      BY <3>5, <3>6
  <2>3. CASE n # m
    <3>1. fwd'[n] = v
      BY <1>8, <2>3
    <3>2. \A q : Unanswered(requests, answers, n, q) => q # r
      BY <1>1, <2>3 DEF Unanswered
    <3>3. \A q : Unanswered(requests, answers, n, q) => Unanswered(requests', answers', n, q)
      BY <1>9, <3>2
    <3>4. WorkerRight(requests', answers', n, fwd'[n])
      BY <2>1, <3>1, <3>3 DEF WorkerRight, Unanswered
    <3>5. SocketRight(fwd'[n])
      BY <2>1, <3>1 DEF SocketRight
    <3> QED
      BY <3>4, <3>5
  <2> QED
    BY <2>2, <2>3
<1>11. Hub!ForwardAnswersOwn'
  <2>1. \A q \in DOMAIN requests : answers[q] \in OneAnswer(q)
    BY DEF ForwardInv, Hub!ForwardAnswersOwn, OneAnswer
  <2>2. DOMAIN requests = 1..Len(requests)
    BY DEF ForwardInv, ForwardTyped
  <2>4. \A q \in DOMAIN requests : answers'[q] \in OneAnswer(q)
    BY <1>4, <1>6, <2>1, <2>2
  <2> QED
    BY <2>4 DEF Hub!ForwardAnswersOwn, OneAnswer, Hub!PeerUnavailable, Hub!Denied, Hub!Busy, Hub!NoWorker
<1> QED
  BY <1>7, <1>10, <1>11 DEF ForwardInv

(* A step that leaves the forwards alone.                                 *)
LEMMA ForwardKept ==
  ASSUME ForwardInv, UNCHANGED <<fwd, requests, answers>>
  PROVE  ForwardInv'
<1>1. ForwardTyped'
  BY DEF ForwardInv, ForwardTyped
<1>2. (\A m \in Hub!Mirrors : WorkerRight(requests, answers, m, fwd[m]) /\ SocketRight(fwd[m]))'
  BY DEF ForwardInv, WorkerRight, SocketRight, Unanswered
<1>3. Hub!ForwardAnswersOwn'
  BY DEF ForwardInv, Hub!ForwardAnswersOwn, Hub!PeerUnavailable, Hub!Denied, Hub!Busy, Hub!NoWorker
<1> QED
  BY <1>1, <1>2, <1>3 DEF ForwardInv

(* A new request is refused with its one answer, or is the newest of its   *)
(* worker's queue.                                                         *)
LEMMA DispatchForward ==
  ASSUME ForwardInv, NEW m \in Hub!Mirrors, NEW a \in Hub!Actions, Hub!Dispatch(m, a)
  PROVE  ForwardInv'
<1> DEFINE n == Len(requests) + 1
           req == [mirror |-> m, action |-> a]
           queued == [fwd[m] EXCEPT !.queue = Append(@, n)]
<1>1. PICK verdict \in {<<Hub!Denied>>, <<Hub!NoWorker>>, <<Hub!Busy>>, <<>>} :
        /\ requests' = Append(requests, req) /\ answers' = Append(answers, verdict)
        /\ fwd' = IF verdict = <<>> THEN [fwd EXCEPT ![m].queue = Append(@, Len(requests'))] ELSE fwd
  BY DEF Hub!Dispatch
<1>2. /\ requests \in Seq(Request) /\ Len(requests) \in Nat /\ Len(answers) = Len(requests)
      /\ answers \in Seq(UNION {OneAnswer(q) : q \in Nat}) /\ fwd \in [Hub!Mirrors -> Forwarder]
  BY DEF ForwardInv, ForwardTyped
<1>3. /\ requests' \in Seq(Request) /\ Len(requests') = n /\ requests'[n] = req
      /\ \A q \in 1..Len(requests) : requests'[q] = requests[q]
  <2>1. req \in Request
    BY DEF Request
  <2> QED
    BY <1>1, <1>2, <2>1
<1>4. verdict \in OneAnswer(n) /\ verdict \in UNION {OneAnswer(q) : q \in Nat}
  <2>1. verdict \in OneAnswer(n)
    BY DEF OneAnswer
  <2>2. n \in Nat
    BY <1>2
  <2> QED
    BY <2>1, <2>2
<1>5. /\ answers' \in Seq(UNION {OneAnswer(q) : q \in Nat}) /\ Len(answers') = n /\ answers'[n] = verdict
      /\ \A q \in 1..Len(requests) : answers'[q] = answers[q]
  BY <1>1, <1>2, <1>4
<1>6. \A q : \A w \in Hub!Mirrors : Unanswered(requests, answers, w, q) => Unanswered(requests', answers', w, q) /\ q \in Nat /\ q < n
  BY <1>2, <1>3, <1>5 DEF Unanswered
<1>0. \A i \in 1..Len(fwd[m].queue) : fwd[m].queue[i] < n
  BY <1>6 DEF ForwardInv, WorkerRight
<1>q. /\ fwd[m] \in Forwarder /\ fwd[m].queue \in Seq(Nat) /\ n \in Nat /\ Rising(fwd[m].queue)
  BY <1>2 DEF Forwarder, ForwardInv, WorkerRight
<1>7. /\ fwd' \in [Hub!Mirrors -> Forwarder] /\ \A w \in Hub!Mirrors : w # m => fwd'[w] = fwd[w]
      /\ verdict = <<>> => fwd'[m] = queued
  <2>1. queued \in Forwarder
    <3>1. Append(fwd[m].queue, n) \in Seq(Nat)
      BY <1>q
    <3> QED
      BY <1>q, <3>1 DEF Forwarder
  <2>2. verdict = <<>> => fwd' = [fwd EXCEPT ![m] = queued]
    BY <1>1, <1>3
  <2> QED
    BY <1>1, <1>2, <2>1, <2>2
<1>8. ForwardTyped'
  BY <1>3, <1>5, <1>7 DEF ForwardTyped
<1>9. ASSUME NEW w \in Hub!Mirrors, fwd'[w] = fwd[w]
      PROVE  WorkerRight(requests', answers', w, fwd'[w]) /\ SocketRight(fwd'[w])
  <2>1. WorkerRight(requests, answers, w, fwd[w]) /\ SocketRight(fwd[w])
    BY DEF ForwardInv
  <2>2. \A q : Unanswered(requests, answers, w, q) => Unanswered(requests', answers', w, q)
    BY <1>6
  <2>3. WorkerRight(requests', answers', w, fwd'[w])
    BY <1>9, <2>1, <2>2 DEF WorkerRight, Unanswered
  <2>4. SocketRight(fwd'[w])
    BY <1>9, <2>1 DEF SocketRight
  <2> QED
    BY <2>3, <2>4
<1>10. ASSUME verdict = <<>>
       PROVE  WorkerRight(requests', answers', m, fwd'[m]) /\ SocketRight(fwd'[m])
  <2>v. PICK v : v = fwd'[m]
    OBVIOUS
  <2>u. PICK u : u = fwd[m]
    OBVIOUS
  <2>1. v.queue = Append(u.queue, n) /\ v.req = u.req /\ v.sock = u.sock
    BY <1>7, <1>q, <1>10, <2>v, <2>u DEF Forwarder
  <2>2. WorkerRight(requests, answers, m, u) /\ SocketRight(u)
    BY <2>u DEF ForwardInv
  <2>3. /\ Rising(v.queue)
        /\ \A i \in 1..Len(v.queue) : v.queue[i] = n \/ \E k \in 1..Len(u.queue) : v.queue[i] = u.queue[k]
    <3>1. u.queue \in Seq(Nat) /\ n \in Nat /\ Rising(u.queue) /\ \A i \in 1..Len(u.queue) : u.queue[i] < n
      BY <1>0, <1>q, <2>u
    <3> HIDE DEF n
    <3> QED
      BY <2>1, <3>1, RisingAppend
  <2>4. Unanswered(requests', answers', m, n)
    BY <1>2, <1>3, <1>5, <1>10 DEF Unanswered
  <2>5. \A i \in 1..Len(v.queue) : Unanswered(requests', answers', m, v.queue[i])
    BY <1>6, <2>2, <2>3, <2>4 DEF WorkerRight
  <2>6. ASSUME v.req # 0
        PROVE  Unanswered(requests', answers', m, v.req) /\ \A i \in 1..Len(v.queue) : v.queue[i] # v.req
    <3>1. Unanswered(requests, answers, m, v.req) /\ \A i \in 1..Len(u.queue) : u.queue[i] # v.req
      BY <2>1, <2>2, <2>6 DEF WorkerRight
    <3>2. Unanswered(requests', answers', m, v.req) /\ v.req # n
      BY <1>6, <1>q, <3>1
    <3> QED
      BY <2>3, <3>1, <3>2
  <2>7. WorkerRight(requests', answers', m, v)
    BY <2>3, <2>5, <2>6 DEF WorkerRight
  <2>8. SocketRight(v)
    BY <2>1, <2>2 DEF SocketRight
  <2> QED
    BY <2>7, <2>8, <2>v
<1>11. (\A w \in Hub!Mirrors : WorkerRight(requests, answers, w, fwd[w]) /\ SocketRight(fwd[w]))'
  <2>1. \A w \in Hub!Mirrors : WorkerRight(requests', answers', w, fwd'[w]) /\ SocketRight(fwd'[w])
    <3>1. verdict # <<>> => fwd' = fwd
      BY <1>1
    <3> QED
      BY <1>7, <1>9, <1>10, <3>1
  <2> QED
    BY <2>1
<1>12. Hub!ForwardAnswersOwn'
  <2>1. \A q \in DOMAIN requests : answers[q] \in OneAnswer(q)
    BY DEF ForwardInv, Hub!ForwardAnswersOwn, OneAnswer
  <2>2. DOMAIN requests = 1..Len(requests) /\ DOMAIN requests' = 1..n
    BY <1>2, <1>3
  <2>3. \A q \in DOMAIN requests' : answers'[q] \in OneAnswer(q)
    <3>1. \A q \in 1..n : q \in 1..Len(requests) \/ q = n
      BY <1>2
    <3> QED
      BY <1>4, <1>5, <2>1, <2>2, <3>1
  <2> QED
    BY <2>3 DEF Hub!ForwardAnswersOwn, OneAnswer, Hub!PeerUnavailable, Hub!Denied, Hub!Busy, Hub!NoWorker
<1> QED
  BY <1>8, <1>11, <1>12 DEF ForwardInv

(* The worker takes the oldest request of its queue; its socket, if it has *)
(* one, is empty.                                                          *)
LEMMA SendsForward ==
  ASSUME ForwardInv, NEW m \in Hub!Mirrors, Hub!WorkerSends(m)
  PROVE  ForwardInv'
<1>u. PICK u : u = fwd[m]
  OBVIOUS
<1>1. u \in Forwarder /\ u.queue \in Seq(Nat) /\ u.sock \in Socket /\ WorkerRight(requests, answers, m, u) /\ SocketRight(u)
  BY <1>u DEF ForwardInv, ForwardTyped, Forwarder
<1>2. u.req = 0 /\ u.queue # <<>> /\ UNCHANGED <<requests, answers>>
  BY <1>u DEF Hub!WorkerSends
<1> DEFINE r == Head(u.queue)
<1>3. PICK sock : /\ sock = IF u.sock.open THEN u.sock ELSE Hub!NewSocket
                  /\ fwd' = [fwd EXCEPT ![m] = [u EXCEPT !.queue = Tail(@), !.req = r, !.sock = [sock EXCEPT !.due = Append(@, r)]]]
  BY <1>u DEF Hub!WorkerSends
<1>4. /\ Tail(u.queue) \in Seq(Nat) /\ Rising(Tail(u.queue)) /\ r \in Nat /\ r = u.queue[1] /\ 1 \in 1..Len(u.queue)
      /\ \A i \in 1..Len(Tail(u.queue)) : Tail(u.queue)[i] # r /\ \E k \in 1..Len(u.queue) : Tail(u.queue)[i] = u.queue[k]
  BY <1>1, <1>2, RisingTail DEF WorkerRight
<1>5. sock \in Socket /\ sock.inbox = <<>> /\ sock.due = <<>>
  BY <1>1, <1>2, <1>3 DEF SocketRight, Socket, Hub!NewSocket
<1> DEFINE s == [sock EXCEPT !.due = Append(@, r)]
<1>6. s \in Socket /\ s.inbox = <<>> /\ s.due = <<r>>
  <2>1. Append(sock.due, r) = <<r>> /\ <<r>> \in Seq(Nat)
    BY <1>4, <1>5
  <2> QED
    BY <1>5, <2>1 DEF Socket
<1> DEFINE w == [u EXCEPT !.queue = Tail(@), !.req = r, !.sock = s]
<1>7. w \in Forwarder /\ w.queue = Tail(u.queue) /\ w.req = r /\ w.sock = s
  BY <1>1, <1>4, <1>6 DEF Forwarder
<1>8. fwd' = [fwd EXCEPT ![m] = w]
  BY <1>3, <1>u
<1>9. Unanswered(requests, answers, m, r)
  BY <1>1, <1>4 DEF WorkerRight
<1> HIDE DEF w, s, r
<1>10. WorkerRight(requests, answers, m, w)
  BY <1>1, <1>4, <1>7, <1>9 DEF WorkerRight
<1>11. SocketRight(w)
  <2>1. r # 0
    BY <1>4, <1>9 DEF Unanswered
  <2> QED
    BY <1>6, <1>7, <2>1 DEF SocketRight
<1> QED
  BY <1>2, <1>7, <1>8, <1>10, <1>11, WorkerMoves

(* A sequence of one element.                                             *)
LEMMA OneElement == \A x : Head(<<x>>) = x /\ Tail(<<x>>) = <<>>
<1> TAKE x
<1>1. <<x>> \in Seq({x}) /\ Len(<<x>>) = 1
  OBVIOUS
<1>2. Tail(<<x>>) \in Seq({x}) /\ Len(Tail(<<x>>)) = 0
  BY <1>1, HeadTailProperties
<1> QED
  BY <1>2, EmptySeq

(* The peer answers a forward.                                            *)
LEMMA PeerForward ==
  ASSUME ForwardInv, NEW m \in Hub!Mirrors, Hub!PeerReplies(m)
  PROVE  ForwardInv'
<1>u. PICK u : u = fwd[m]
  OBVIOUS
<1>1. u \in Forwarder /\ u.sock \in Socket /\ WorkerRight(requests, answers, m, u) /\ SocketRight(u) /\ u.req \in Nat
  BY <1>u DEF ForwardInv, ForwardTyped, Forwarder
<1>2. u.sock.due # <<>> /\ UNCHANGED <<requests, answers>>
  BY <1>u DEF Hub!PeerReplies
<1>3. u.req # 0 /\ u.sock.inbox = <<>> /\ u.sock.due = <<u.req>> /\ Tail(u.sock.due) = <<>> /\ Head(u.sock.due) = u.req
  <2>1. u.req # 0 /\ u.sock.inbox = <<>> /\ u.sock.due = <<u.req>>
    BY <1>1, <1>2 DEF SocketRight
  <2> QED
    BY <2>1, OneElement
<1>4. PICK keep \in BOOLEAN :
        fwd' = [fwd EXCEPT ![m] = [u EXCEPT !.sock = [u.sock EXCEPT !.due = Tail(@), !.inbox = IF keep THEN Append(@, Head(u.sock.due)) ELSE @]]]
  BY <1>u DEF Hub!PeerReplies
<1> DEFINE s == [u.sock EXCEPT !.due = Tail(@), !.inbox = IF keep THEN Append(@, Head(u.sock.due)) ELSE @]
<1>5. s \in Socket /\ s.due = <<>> /\ s.inbox \in {<<>>, <<u.req>>}
  <2>1. (IF keep THEN Append(u.sock.inbox, Head(u.sock.due)) ELSE u.sock.inbox) \in {<<>>, <<u.req>>}
    BY <1>3
  <2>2. <<u.req>> \in Seq(Nat) /\ <<>> \in Seq(Nat)
    BY <1>1
  <2> QED
    BY <1>1, <1>3, <2>1, <2>2 DEF Socket
<1> HIDE DEF s
<1> DEFINE w == [u EXCEPT !.sock = s]
<1>6. w \in Forwarder /\ w.queue = u.queue /\ w.req = u.req /\ w.sock = s
  BY <1>1, <1>5 DEF Forwarder
<1>7. fwd' = [fwd EXCEPT ![m] = w]
  BY <1>4, <1>u DEF s
<1> HIDE DEF w
<1>8. WorkerRight(requests, answers, m, w) /\ SocketRight(w)
  BY <1>1, <1>3, <1>5, <1>6 DEF WorkerRight, SocketRight
<1> QED
  BY <1>2, <1>6, <1>7, <1>8, WorkerMoves

(* A reply on the socket is the one to the request the worker waits for. *)
LEMMA ReceivesForward ==
  ASSUME ForwardInv, NEW m \in Hub!Mirrors, Hub!WorkerReceives(m)
  PROVE  ForwardInv' /\ Head(fwd[m].sock.inbox) = fwd[m].req /\ requests[fwd[m].req].mirror = m
<1>u. PICK u : u = fwd[m]
  OBVIOUS
<1>1. u \in Forwarder /\ u.sock \in Socket /\ WorkerRight(requests, answers, m, u) /\ SocketRight(u) /\ u.req \in Nat
  BY <1>u DEF ForwardInv, ForwardTyped, Forwarder
<1>2. /\ u.req # 0 /\ u.sock.inbox # <<>> /\ Hub!Answer(u.req, <<"reply", Head(u.sock.inbox)>>) /\ UNCHANGED requests
      /\ fwd' = [fwd EXCEPT ![m] = [u EXCEPT !.req = 0, !.sock.inbox = Tail(@)]]
  BY <1>u DEF Hub!WorkerReceives
<1>3. u.sock.inbox = <<u.req>> /\ u.sock.due = <<>> /\ Head(u.sock.inbox) = u.req /\ Tail(u.sock.inbox) = <<>>
  <2>1. u.sock.inbox = <<u.req>> /\ u.sock.due = <<>>
    BY <1>1, <1>2 DEF SocketRight
  <2> QED
    BY <2>1, OneElement
<1> DEFINE w == [u EXCEPT !.req = 0, !.sock.inbox = Tail(@)]
<1>4. w \in Forwarder /\ w.queue = u.queue /\ w.req = 0 /\ w.sock.inbox = <<>> /\ w.sock.due = <<>>
  BY <1>1, <1>3 DEF Forwarder, Socket
<1>5. fwd' = [fwd EXCEPT ![m] = w]
  BY <1>2, <1>u
<1> HIDE DEF w
<1>6. requests[u.req].mirror = m
  BY <1>1, <1>2 DEF WorkerRight, Unanswered
<1> QED
  BY <1>2, <1>3, <1>4, <1>5, <1>6, <1>u, WorkerAnswers

(* A forward fails or times out.                                          *)
LEMMA FailsForward ==
  ASSUME ForwardInv, NEW m \in Hub!Mirrors, Hub!ForwardFails(m)
  PROVE  ForwardInv'
<1>1. fwd[m] \in Forwarder /\ Hub!NoSocket \in Socket /\ Hub!NoSocket.inbox = <<>> /\ Hub!NoSocket.due = <<>>
  BY DEF ForwardInv, ForwardTyped, Socket, Hub!NoSocket
<1> DEFINE w == [fwd[m] EXCEPT !.req = 0, !.sock = Hub!NoSocket]
<1>2. /\ fwd[m].req # 0 /\ fwd' = [fwd EXCEPT ![m] = w] /\ UNCHANGED requests
      /\ Hub!Answer(fwd[m].req, Hub!PeerUnavailable)
  BY DEF Hub!ForwardFails
<1>3. w \in Forwarder /\ w.queue = fwd[m].queue /\ w.req = 0 /\ w.sock = Hub!NoSocket
  BY <1>1 DEF Forwarder
<1> HIDE DEF w
<1> QED
  BY <1>1, <1>2, <1>3, WorkerAnswers

(* A forward worker ends.                                                 *)
LEMMA EndsForward ==
  ASSUME ForwardInv, NEW m \in Hub!Mirrors, Hub!WorkerEnds(m)
  PROVE  ForwardInv'
<1>1. fwd[m] \in Forwarder /\ Hub!NoSocket \in Socket /\ Hub!NoSocket.inbox = <<>> /\ Hub!NoSocket.due = <<>>
  BY DEF ForwardInv, ForwardTyped, Socket, Hub!NoSocket
<1> DEFINE w == [fwd[m] EXCEPT !.running = FALSE, !.sock = Hub!NoSocket]
<1>2. fwd' = [fwd EXCEPT ![m] = w] /\ UNCHANGED <<requests, answers>>
  BY DEF Hub!WorkerEnds
<1>3. w \in Forwarder /\ w.queue = fwd[m].queue /\ w.req = fwd[m].req /\ w.sock = Hub!NoSocket
  BY <1>1 DEF Forwarder
<1> HIDE DEF w
<1>4. WorkerRight(requests, answers, m, w) /\ SocketRight(w)
  BY <1>1, <1>3 DEF ForwardInv, WorkerRight, SocketRight
<1> QED
  BY <1>2, <1>3, <1>4, WorkerMoves

(* Every step of the hub keeps ForwardInv.                                *)
LEMMA ForwardStep ==
  ASSUME ForwardInv, [Hub!Next]_Hub!hubVars
  PROVE  ForwardInv'
<1>1. CASE Hub!Forwarding
  BY <1>1, DispatchForward, SendsForward, PeerForward, ReceivesForward, FailsForward, EndsForward, ForwardKept
     DEF Hub!Forwarding, Hub!Close
<1>2. CASE Hub!Warming \/ Hub!CheckTimeouts \/ Hub!Relaying \/ Hub!Owner \/ UNCHANGED Hub!hubVars
           \/ \E d \in Devices : Hub!UpdateCapabilities(d)
  <2>1. UNCHANGED <<fwd, requests, answers>>
    BY <1>2 DEF Hub!UpdateCapabilities, Hub!Warming, Hub!StartFetch, Hub!FetchReceives, Hub!FetchTimesOut, Hub!FetchAgain, Hub!FetchNext,
       Hub!CheckTimeouts, Hub!Relaying, Hub!DrainPeerEvent, Hub!HeartbeatAges, Hub!HardTimeoutPasses, Hub!Owner,
       Hub!OwnerHeartbeat, Hub!OwnerLiveness, Hub!OwnerExits, Hub!OwnerRestarts, Hub!Send, Hub!forwardVars, Hub!hubVars
  <2> QED
    BY <2>1, ForwardKept
<1> QED
  BY <1>1, <1>2 DEF Hub!Next

-----------------------------------------------------------------------------
(* The metadata of the mirrors *)

Named == {"none", "config", "schema", "process_schema"} \cup Devices

(* A fetch that asked everything: what it got is what it asked for, in     *)
(* order, if no call of it timed out.                                      *)
InTime(got) == \A k \in 1..Len(got) : got[k] = Hub!FetchCalls[k]
Fetched == {r \in [got : Seq(Named), late : BOOLEAN] :
              Len(r.got) = Len(Hub!FetchCalls) /\ (r.late = FALSE => InTime(r.got))}

WarmTyped ==
    /\ warm \in [fetch : [step : Nat, due : Seq(Named), got : Seq(Named), late : BOOLEAN], fetches : Nat, waiting : BOOLEAN]
    /\ warmResults \in Seq({<<>>} \cup {<<r>> : r \in Fetched})

(* While no call of the fetch under way has timed out, the only answer on  *)
(* its socket is the one to the call it has made.                          *)
Asking(f) ==
    f.step # 0 =>
        /\ f.step \in 1..Len(Hub!FetchCalls) /\ Len(f.got) = f.step - 1
        /\ f.late = FALSE => f.due = <<Hub!FetchCalls[f.step]>> /\ InTime(f.got)

WarmInv == WarmTyped /\ Asking(warm.fetch)

(* The calls of a fetch name the lists and every device.                  *)
LEMMA CallsNamed ==
  ASSUME IsFiniteSet(Devices)
  PROVE  /\ Hub!FetchCalls \in Seq(Named) /\ Len(Hub!FetchCalls) \in Nat /\ Len(Hub!FetchCalls) >= 3
         /\ DOMAIN Hub!FetchCalls = 1..Len(Hub!FetchCalls)
         /\ \A d \in Devices : \E k \in DOMAIN Hub!FetchCalls : Hub!FetchCalls[k] = d
<1> DEFINE N == Cardinality(Devices)
<1>0. N = Hub!Cardinality(Devices)
  BY DEF Cardinality, Hub!Cardinality, IsFiniteSet, Hub!IsFiniteSet
<1>1. N \in Nat /\ ExistsBijection(1..N, Devices)
  BY FS_CardinalityType
<1>2. PICK f \in Bijection(1..N, Devices) : TRUE
  BY <1>1 DEF ExistsBijection
<1>3. f \in [1..N -> Devices] /\ \A d \in Devices : \E i \in DOMAIN f : f[i] = d
  BY <1>2 DEF Bijection, Injection, Surjection, IsInjective
<1>4. /\ Hub!DeviceCalls \in [1..N -> Devices]
      /\ \A d \in Devices : \E i \in DOMAIN Hub!DeviceCalls : Hub!DeviceCalls[i] = d
  BY <1>0, <1>3 DEF Hub!DeviceCalls
<1>c. PICK c : c = Hub!DeviceCalls
  OBVIOUS
<1>5. c \in Seq(Named) /\ Len(c) = N /\ DOMAIN c = 1..N
  BY <1>1, <1>4, <1>c DEF Named
<1>6. Hub!Calls \in Seq(Named) /\ Len(Hub!Calls) = 3
  BY DEF Hub!Calls, Named
<1>a. PICK a : a = Hub!Calls
  OBVIOUS
<1>7. Hub!FetchCalls = a \o c
  BY <1>a, <1>c DEF Hub!FetchCalls
<1>8. /\ a \o c \in Seq(Named) /\ Len(a \o c) = 3 + N
      /\ \A i \in 1..N : (a \o c)[i + 3] = c[i]
  <2>1. a \in Seq(Named) /\ Len(a) = 3
    BY <1>6, <1>a
  <2>2. /\ a \o c \in Seq(Named) /\ Len(a \o c) = Len(a) + Len(c)
        /\ \A i \in 1..(Len(a) + Len(c)) : (a \o c)[i] = IF i <= Len(a) THEN a[i] ELSE c[i - Len(a)]
    BY <1>5, <2>1, ConcatProperties
  <2>3. \A i \in 1..N : i + 3 \in 1..(3 + N) /\ ~(i + 3 <= 3) /\ i + 3 - 3 = i
    BY <1>1
  <2> QED
    BY <1>5, <2>1, <2>2, <2>3
<1>9. DOMAIN (a \o c) = 1..(3 + N)
  BY <1>8
<1>10. ASSUME NEW d \in Devices PROVE \E k \in DOMAIN (a \o c) : (a \o c)[k] = d
  <2>1. PICK i \in 1..N : c[i] = d
    BY <1>4, <1>5, <1>c
  <2>2. i + 3 \in 1..(3 + N)
    BY <1>1
  <2> QED
    BY <1>8, <1>9, <2>1, <2>2
<1> QED
  BY <1>1, <1>7, <1>8, <1>9, <1>10

(* The next call of the fetch is made with an empty socket, unless one has *)
(* timed out; or the fetch ends with an answer to each of its calls.       *)
LEMMA FetchGoesOn ==
  ASSUME IsFiniteSet(Devices), WarmInv, warm.fetch.step # 0,
         NEW got \in Seq(Named), Len(got) = warm.fetch.step, NEW due \in Seq(Named), NEW slow \in BOOLEAN,
         slow = FALSE => InTime(got) /\ due = <<>>,
         Hub!FetchNext(got, due, slow)
  PROVE  WarmInv'
<1> DEFINE N == Len(Hub!FetchCalls)
           n == warm.fetch.step + 1
<1>1. warm.fetch.step \in 1..N /\ N \in Nat /\ n \in Nat /\ Hub!FetchCalls \in Seq(Named)
  BY CallsNamed DEF WarmInv, Asking
<1>2. PICK failed, ends :
        /\ ends = (failed \/ n > N)
        /\ warm' = [warm EXCEPT
                      !.waiting = ends,
                      !.fetch = [step |-> IF ends THEN 0 ELSE n, got |-> IF ends THEN <<>> ELSE got, late |-> slow /\ ~ends,
                                 due |-> IF ends THEN due ELSE Append(due, Hub!FetchCalls[n])]]
        /\ warmResults' = IF ends THEN Append(warmResults, IF failed THEN <<>> ELSE <<[got |-> got, late |-> slow]>>)
                          ELSE warmResults
        /\ failed \in BOOLEAN /\ ends \in BOOLEAN
  BY DEF Hub!FetchNext
<1> DEFINE f == [step |-> IF ends THEN 0 ELSE n, got |-> IF ends THEN <<>> ELSE got, late |-> slow /\ ~ends,
                 due |-> IF ends THEN due ELSE Append(due, Hub!FetchCalls[n])]
<1>3. ~ends => n \in 1..N /\ Append(due, Hub!FetchCalls[n]) \in Seq(Named)
  <2>0. ~ends => ~(n > N)
    BY <1>2
  <2>1. ~ends => n \in 1..N
    BY <1>1, <2>0
  <2> QED
    BY <1>1, <2>1
<1>4. f \in [step : Nat, due : Seq(Named), got : Seq(Named), late : BOOLEAN]
  BY <1>1, <1>2, <1>3
<1>5. /\ warm' \in [fetch : [step : Nat, due : Seq(Named), got : Seq(Named), late : BOOLEAN], fetches : Nat, waiting : BOOLEAN]
      /\ warm'.fetch = f
  <2>1. warm \in [fetch : [step : Nat, due : Seq(Named), got : Seq(Named), late : BOOLEAN], fetches : Nat, waiting : BOOLEAN]
    BY DEF WarmInv, WarmTyped
  <2> HIDE DEF f
  <2>2. warm' = [warm EXCEPT !.waiting = ends, !.fetch = f]
    BY <1>2 DEF f
  <2> QED
    BY <1>2, <1>4, <2>1, <2>2
<1>6. Asking(f)
  <2> SUFFICES ASSUME ~ends PROVE Asking(f)
    BY DEF Asking
  <2>1. f.step = n /\ f.got = got /\ f.late = slow /\ f.due = Append(due, Hub!FetchCalls[n])
    OBVIOUS
  <2>2. due = <<>> => Append(due, Hub!FetchCalls[n]) = <<Hub!FetchCalls[n]>>
    OBVIOUS
  <2>3. Len(f.got) = f.step - 1
    BY <1>1, <2>1
  <2> QED
    BY <1>3, <2>1, <2>2, <2>3 DEF Asking
<1>7. warmResults' \in Seq({<<>>} \cup {<<r>> : r \in Fetched})
  <2>1. warmResults \in Seq({<<>>} \cup {<<r>> : r \in Fetched})
    BY DEF WarmInv, WarmTyped
  <2>2. ends /\ ~failed => [got |-> got, late |-> slow] \in Fetched
    <3>1. ends /\ ~failed => Len(got) = N
      BY <1>1, <1>2
    <3> QED
      BY <3>1 DEF Fetched
  <2> QED
    BY <1>2, <2>1, <2>2
<1> QED
  BY <1>5, <1>6, <1>7 DEF WarmInv, WarmTyped

(* Steps of the warm-up fetch.                                            *)
LEMMA FetchSteps ==
  ASSUME IsFiniteSet(Devices), WarmInv, Hub!Warming
  PROVE  WarmInv'
<1> DEFINE F == [step : Nat, due : Seq(Named), got : Seq(Named), late : BOOLEAN]
<1>1. /\ warm \in [fetch : F, fetches : Nat, waiting : BOOLEAN] /\ warm.fetch \in F
      /\ warmResults \in Seq({<<>>} \cup {<<r>> : r \in Fetched})
  BY DEF WarmInv, WarmTyped
<1>2. CASE Hub!StartFetch
  <2>1. 1 \in 1..Len(Hub!FetchCalls) /\ Hub!FetchCalls[1] \in Named
    BY CallsNamed
  <2> DEFINE f == [step |-> 1, due |-> <<Hub!FetchCalls[1]>>, got |-> <<>>, late |-> FALSE]
  <2>3. f \in F
    BY <2>1
  <2>4. Asking(f)
    BY <2>1 DEF Asking, InTime
  <2> HIDE DEF f
  <2>5. warm' = [warm EXCEPT !.fetches = @ + 1, !.fetch = f] /\ UNCHANGED warmResults
    BY <1>2 DEF Hub!StartFetch, f
  <2>6. warm' \in [fetch : F, fetches : Nat, waiting : BOOLEAN] /\ warm'.fetch = f
    <3>1. PICK k \in Nat : k = warm.fetches + 1
      BY <1>1
    <3>2. warm' = [warm EXCEPT !.fetches = k, !.fetch = f]
      BY <2>5, <3>1
    <3> HIDE DEF F
    <3> QED
      BY <1>1, <2>3, <3>2
  <2> QED
    BY <1>1, <2>4, <2>5, <2>6 DEF WarmInv, WarmTyped
<1>g. ASSUME NEW x \in Named, warm.fetch.step # 0
      PROVE  /\ Append(warm.fetch.got, x) \in Seq(Named) /\ Len(Append(warm.fetch.got, x)) = warm.fetch.step
             /\ warm.fetch.late = FALSE /\ x = Hub!FetchCalls[warm.fetch.step] => InTime(Append(warm.fetch.got, x))
  <2>1. Len(warm.fetch.got) = warm.fetch.step - 1 /\ warm.fetch.step \in Nat /\ warm.fetch.got \in Seq(Named)
    BY <1>1, <1>g DEF WarmInv, Asking
  <2>2. /\ Append(warm.fetch.got, x) \in Seq(Named) /\ Len(Append(warm.fetch.got, x)) = warm.fetch.step
        /\ \A k \in 1..(warm.fetch.step - 1) : Append(warm.fetch.got, x)[k] = warm.fetch.got[k]
        /\ Append(warm.fetch.got, x)[warm.fetch.step] = x
    BY <2>1
  <2>3. warm.fetch.late = FALSE => InTime(warm.fetch.got)
    BY <1>g DEF WarmInv, Asking
  <2>4. \A k \in 1..warm.fetch.step : k \in 1..(warm.fetch.step - 1) \/ k = warm.fetch.step
    BY <2>1
  <2> QED
    BY <2>1, <2>2, <2>3, <2>4 DEF InTime
<1>3. CASE Hub!FetchReceives
  <2>1. /\ warm.fetch.step # 0 /\ warm.fetch.due # <<>>
        /\ Hub!FetchNext(Append(warm.fetch.got, Head(warm.fetch.due)), Tail(warm.fetch.due), warm.fetch.late)
    BY <1>3 DEF Hub!FetchReceives
  <2>2. Head(warm.fetch.due) \in Named /\ Tail(warm.fetch.due) \in Seq(Named)
    BY <1>1, <2>1, HeadTailProperties
  <2>3. warm.fetch.late = FALSE => Head(warm.fetch.due) = Hub!FetchCalls[warm.fetch.step] /\ Tail(warm.fetch.due) = <<>>
    BY <2>1, OneElement DEF WarmInv, Asking
  <2>4. warm.fetch.late \in BOOLEAN
    BY <1>1
  <2> QED
    BY <1>g, <2>1, <2>2, <2>3, <2>4, FetchGoesOn
<1>4. CASE Hub!FetchTimesOut
  <2>1. PICK due \in {warm.fetch.due, <<>>} : Hub!FetchNext(Append(warm.fetch.got, "none"), due, TRUE)
    BY <1>4 DEF Hub!FetchTimesOut
  <2>2. warm.fetch.step # 0 /\ due \in Seq(Named) /\ "none" \in Named
    <3>1. warm.fetch.due \in Seq(Named) /\ <<>> \in Seq(Named)
      BY <1>1
    <3> QED
      BY <1>4, <3>1 DEF Hub!FetchTimesOut, Named
  <2> QED
    BY <1>g, <2>1, <2>2, FetchGoesOn
<1>5. CASE Hub!FetchAgain
  <2>1. warm' = [warm EXCEPT !.waiting = FALSE] /\ UNCHANGED warmResults
    BY <1>5 DEF Hub!FetchAgain
  <2>2. warm' \in [fetch : F, fetches : Nat, waiting : BOOLEAN] /\ warm'.fetch = warm.fetch
    BY <1>1, <2>1
  <2> QED
    BY <1>1, <2>1, <2>2 DEF WarmInv, WarmTyped
<1> QED
  BY <1>2, <1>3, <1>4, <1>5 DEF Hub!Warming

(* The rest of the hub takes the results, all of them, or leaves them. *)
LEMMA WarmKept ==
  ASSUME WarmInv, UNCHANGED warm, warmResults' \in {warmResults, <<>>}
  PROVE  WarmInv'
<1>1. warmResults' \in Seq({<<>>} \cup {<<r>> : r \in Fetched})
  <2> DEFINE R == {<<>>} \cup {<<r>> : r \in Fetched}
  <2>1. warmResults \in Seq(R)
    BY DEF WarmInv, WarmTyped
  <2> HIDE DEF R
  <2>2. <<>> \in Seq(R)
    OBVIOUS
  <2>3. warmResults' \in Seq(R)
    BY <2>1, <2>2
  <2> QED
    BY <2>3 DEF R
<1>2. WarmTyped'
  BY <1>1 DEF WarmInv, WarmTyped
<1> QED
  BY <1>2 DEF WarmInv, Asking

(* Every step of the hub keeps WarmInv.                                   *)
LEMMA WarmStep ==
  ASSUME IsFiniteSet(Devices), WarmInv, [Hub!Next]_Hub!hubVars
  PROVE  WarmInv'
<1>1. CASE Hub!Warming
  BY <1>1, FetchSteps
<1>2. CASE Hub!Forwarding \/ Hub!CheckTimeouts \/ Hub!Relaying \/ Hub!Owner \/ UNCHANGED Hub!hubVars
           \/ \E d \in Devices : Hub!UpdateCapabilities(d)
  <2>1. UNCHANGED warm /\ warmResults' \in {warmResults, <<>>}
    BY <1>2 DEF Hub!UpdateCapabilities, Hub!Forwarding, Hub!Dispatch, Hub!WorkerSends, Hub!PeerReplies, Hub!WorkerReceives, Hub!ForwardFails,
       Hub!WorkerEnds, Hub!Close,
       Hub!CheckTimeouts, Hub!Relaying, Hub!DrainPeerEvent, Hub!HeartbeatAges, Hub!HardTimeoutPasses, Hub!Owner,
       Hub!OwnerHeartbeat, Hub!OwnerLiveness, Hub!OwnerExits, Hub!OwnerRestarts, Hub!Send, Hub!warmVars, Hub!hubVars
  <2> QED
    BY <2>1, WarmKept
<1> QED
  BY <1>1, <1>2 DEF Hub!Next

-----------------------------------------------------------------------------
(* What is shown of a mirror *)

Words == {"none", "ONLINE", "DISCONNECTED", "STALE", "OFFLINE"}
Topics == {"heartbeat", "liveness"}
Shown == [hb : Words, hbPid : Nat, hbFresh : BOOLEAN, hbNewer : BOOLEAN, said : Words, saidPid : Nat, hardOver : BOOLEAN,
          config : BOOLEAN, caps : Named, capsLate : BOOLEAN]
Event == [device : Devices, topic : Topics, says : Words, pid : Nat]
Driving == [pid : Nat, up : BOOLEAN, hbPid : Nat, says : Words]

ShownTyped ==
    /\ mirror \in [Devices -> Shown]
    /\ cached \in [Devices -> Words] /\ published \in [Devices -> Words]
    /\ wire \in Seq(Event) /\ owner \in [Devices -> Driving]

(* Processes of a driver are numbered upwards; what a mirror has heard of  *)
(* them, and what is on the wire before a heartbeat, is not later than     *)
(* that heartbeat.                                                         *)
InOrderOfPid ==
    /\ \A d \in Devices : owner[d].hbPid <= owner[d].pid
    /\ \A d \in Devices : mirror[d].hbPid <= owner[d].pid /\ mirror[d].saidPid <= owner[d].pid
    /\ \A i \in 1..Len(wire) :
          /\ wire[i].pid <= owner[wire[i].device].pid
          /\ wire[i].topic = "heartbeat" =>
                /\ mirror[wire[i].device].hbPid <= wire[i].pid /\ mirror[wire[i].device].saidPid <= wire[i].pid
                /\ \A k \in 1..(i - 1) : wire[k].device = wire[i].device => wire[k].pid <= wire[i].pid
    /\ \A d \in Devices : mirror[d].hbNewer => mirror[d].saidPid <= mirror[d].hbPid

RelayInv == ShownTyped /\ InOrderOfPid /\ Hub!NoResurrection /\ Hub!CapabilitiesOwnIfInTime

(* The metadata of a mirror aside. *)
SameSigns(m, n) ==
    /\ n.hbPid = m.hbPid /\ n.hbNewer = m.hbNewer /\ n.said = m.said /\ n.saidPid = m.saidPid

(* Events on the wire are typed.                                          *)
LEMMA EventsTyped ==
  ASSUME RelayInv
  PROVE  /\ wire \in Seq(Event) /\ Len(wire) \in Nat
         /\ \A i \in 1..Len(wire) : wire[i].device \in Devices /\ wire[i].pid \in Nat /\ wire[i] \in Event
  <1>1. wire \in Seq(Event)
    BY DEF RelayInv, ShownTyped
  <1>2. \A i \in 1..Len(wire) : wire[i] \in Event
    BY <1>1, ElementOfSeq
  <1> QED
    BY <1>1, <1>2 DEF Event

(* Events on the wire stay in the order of their process ids.             *)
LEMMA OrderKept ==
  ASSUME RelayInv, UNCHANGED <<wire, owner>>, \A d \in Devices : SameSigns(mirror[d], mirror'[d])
  PROVE  InOrderOfPid'
<1>1. \A d \in Devices : /\ mirror'[d].hbPid = mirror[d].hbPid /\ mirror'[d].saidPid = mirror[d].saidPid
                         /\ mirror'[d].hbNewer = mirror[d].hbNewer
  BY DEF SameSigns
<1>2. \A i \in 1..Len(wire) : wire[i].device \in Devices
  BY EventsTyped
<1> QED
  BY <1>1, <1>2 DEF RelayInv, InOrderOfPid

(* Capabilities of a result that had no time-out are those of the device.  *)
LEMMA AppliedOwn ==
  ASSUME IsFiniteSet(Devices), WarmInv, NEW d \in Devices, NEW m \in Shown, m.caps \in {"none", d} \/ m.capsLate
  PROVE  /\ Hub!Applied(d, m, warmResults) \in Shown /\ SameSigns(m, Hub!Applied(d, m, warmResults))
         /\ Hub!Applied(d, m, warmResults).caps \in {"none", d} \/ Hub!Applied(d, m, warmResults).capsLate
<1> DEFINE known == {n \in DOMAIN warmResults : Hub!HasCaps(warmResults[n], d)}
           last == CHOOSE n \in known : \A k \in known : k <= n
           res == warmResults[last][1]
           c == IF known = {} THEN m.caps ELSE res.got[Hub!CallOf(d)]
           l == IF known = {} THEN m.capsLate ELSE res.late
           cf == m.config \/ \E n \in DOMAIN warmResults : warmResults[n] # <<>> /\ warmResults[n][1].got[1] = "config"
<1>1. Hub!Applied(d, m, warmResults) = [m EXCEPT !.config = cf, !.caps = c, !.capsLate = l]
  BY DEF Hub!Applied
<1>2. warmResults \in Seq({<<>>} \cup {<<r>> : r \in Fetched})
  BY DEF WarmInv, WarmTyped
<1>3. Hub!CallOf(d) \in 1..Len(Hub!FetchCalls) /\ Hub!FetchCalls[Hub!CallOf(d)] = d
  BY CallsNamed DEF Hub!CallOf
<1>4. ASSUME known # {} PROVE c \in Named /\ l \in BOOLEAN /\ (l = FALSE => c = d)
  <2>1. known \in SUBSET (1..Len(warmResults)) /\ Len(warmResults) \in Nat
    BY <1>2
  <2>2. \E x \in known : \A y \in known : y <= x
    BY <1>4, <2>1, LastPosition
  <2>3. last \in known
    BY <2>2
  <2>4. PICK r \in Fetched : warmResults[last] = <<r>>
    <3>1. last \in 1..Len(warmResults) /\ warmResults[last] # <<>>
      BY <2>1, <2>3 DEF Hub!HasCaps
    <3>2. warmResults[last] \in {<<>>} \cup {<<r>> : r \in Fetched}
      <4> HIDE DEF last
      <4> QED
        BY <1>2, <3>1, ElementOfSeq
    <3> QED
      BY <3>1, <3>2
  <2>5. c = r.got[Hub!CallOf(d)] /\ l = r.late
    BY <1>4, <2>4
  <2>6. /\ r.got \in Seq(Named) /\ r.late \in BOOLEAN /\ Len(r.got) = Len(Hub!FetchCalls)
        /\ r.late = FALSE => InTime(r.got)
    BY DEF Fetched
  <2> QED
    BY <1>3, <2>5, <2>6 DEF InTime
<1>5. c \in Named /\ l \in BOOLEAN /\ (c \in {"none", d} \/ l)
  BY <1>4 DEF Shown
<1>6. cf \in BOOLEAN
  BY DEF Shown
<1> HIDE DEF c, l, cf
<1> QED
  BY <1>1, <1>5, <1>6 DEF Shown, SameSigns

CapsRight(d, m) == m.caps \in {"none", d} \/ m.capsLate

(* A step that leaves the signs of life alone. *)
LEMMA SignsKept ==
  ASSUME RelayInv, UNCHANGED <<wire, owner, cached, published>>, mirror' \in [Devices -> Shown],
         \A d \in Devices : SameSigns(mirror[d], mirror'[d]) /\ CapsRight(d, mirror'[d])
  PROVE  RelayInv'
<1>1. InOrderOfPid'
  BY OrderKept
<1>2. Hub!NoResurrection'
  BY DEF RelayInv, SameSigns, Hub!NoResurrection
<1>3. Hub!CapabilitiesOwnIfInTime'
  BY DEF CapsRight, Hub!CapabilitiesOwnIfInTime
<1>4. ShownTyped'
  BY DEF RelayInv, ShownTyped
<1> QED
  BY <1>1, <1>2, <1>3, <1>4 DEF RelayInv

(* A dead mirror is derived alive only from a heartbeat of another process *)
(* that is newer than the owner's word, and so of a later one.             *)
LEMMA DerivedAlive ==
  ASSUME NEW m \in Shown
  PROVE  /\ Hub!Derived(m) \in Words
         /\ (m.hbNewer => m.saidPid <= m.hbPid) /\ m.said = "OFFLINE" /\ Hub!Derived(m) \in {"ONLINE", "DISCONNECTED"}
              => m.hbPid > m.saidPid
<1>1. m.hb \in Words /\ m.said \in Words /\ m.hbPid \in Nat /\ m.saidPid \in Nat
  BY DEF Shown
<1>2. Hub!Derived(m) \in {m.hb, "OFFLINE", "STALE", m.said}
  BY DEF Hub!Derived
<1>3. m.said = "OFFLINE" =>
        Hub!Derived(m) = "OFFLINE" \/ (m.hbNewer /\ m.hbPid # m.saidPid)
  BY DEF Hub!Derived, Hub!ProvesRecovery
<1>4. (m.hbNewer => m.saidPid <= m.hbPid) /\ m.said = "OFFLINE" /\ Hub!Derived(m) \in {"ONLINE", "DISCONNECTED"}
         => m.saidPid <= m.hbPid /\ m.hbPid # m.saidPid
  BY <1>3
<1>5. m.saidPid <= m.hbPid /\ m.hbPid # m.saidPid => m.hbPid > m.saidPid
  BY <1>1
<1>6. Hub!Derived(m) \in Words
  BY <1>1, <1>2 DEF Words
<1> QED
  BY <1>4, <1>5, <1>6

(* _check_timeouts and what is relayed.                                   *)
LEMMA CheckRelay ==
  ASSUME IsFiniteSet(Devices), RelayInv, WarmInv, Hub!CheckTimeouts
  PROVE  RelayInv'
<1> DEFINE m1 == [d \in Devices |-> Hub!Applied(d, mirror[d], warmResults)]
<1>1. /\ mirror' = m1
      /\ cached' = [d \in Devices |-> Hub!Derived(m1[d])]
      /\ published' = [d \in Devices |-> IF cached[d] # Hub!Derived(m1[d]) THEN Hub!Derived(m1[d]) ELSE published[d]]
      /\ UNCHANGED <<wire, owner>>
  BY DEF Hub!CheckTimeouts
<1>2. ASSUME NEW d \in Devices PROVE m1[d] \in Shown /\ SameSigns(mirror[d], m1[d]) /\ CapsRight(d, m1[d])
  <2>1. mirror[d] \in Shown /\ CapsRight(d, mirror[d])
    BY DEF RelayInv, ShownTyped, Hub!CapabilitiesOwnIfInTime, CapsRight
  <2>2. m1[d] = Hub!Applied(d, mirror[d], warmResults)
    OBVIOUS
  <2> QED
    BY <2>1, <2>2, AppliedOwn DEF CapsRight
<1>d. DOMAIN m1 = Devices /\ m1 = [d \in Devices |-> m1[d]]
  OBVIOUS
<1> HIDE DEF m1
<1>3. m1 \in [Devices -> Shown] /\ \A d \in Devices : Hub!Derived(m1[d]) \in Words
  BY <1>2, <1>d, DerivedAlive
<1>4. ShownTyped'
  <2>1. published \in [Devices -> Words]
    BY DEF RelayInv, ShownTyped
  <2>2. cached' \in [Devices -> Words] /\ published' \in [Devices -> Words]
    BY <1>1, <1>3, <2>1
  <2> QED
    BY <1>1, <1>3, <2>2 DEF RelayInv, ShownTyped
<1>5. InOrderOfPid'
  BY <1>1, <1>2, OrderKept
<1>6. Hub!NoResurrection'
  <2> SUFFICES ASSUME NEW d \in Devices, m1[d].said = "OFFLINE", published'[d] \in {"ONLINE", "DISCONNECTED"}
               PROVE  m1[d].hbPid > m1[d].saidPid
    BY <1>1 DEF Hub!NoResurrection
  <2>1. published'[d] \in {published[d], Hub!Derived(m1[d])}
    BY <1>1
  <2>2. m1[d].hbNewer => m1[d].saidPid <= m1[d].hbPid
    BY <1>1, <1>5 DEF InOrderOfPid
  <2>3. CASE published'[d] = published[d]
    BY <1>2, <2>3 DEF RelayInv, Hub!NoResurrection, SameSigns
  <2>4. CASE published'[d] = Hub!Derived(m1[d])
    <3>1. m1[d] \in Shown
      BY <1>2
    <3> QED
      BY <2>2, <2>4, <3>1, DerivedAlive
  <2> QED
    BY <2>1, <2>3, <2>4
<1>7. Hub!CapabilitiesOwnIfInTime'
  BY <1>1, <1>2 DEF CapsRight, Hub!CapabilitiesOwnIfInTime
<1> QED
  BY <1>4, <1>5, <1>6, <1>7 DEF RelayInv

(* One mirror changes, and the capabilities shown for it stay right. *)
LEMMA AgesRelay ==
  ASSUME RelayInv, NEW d \in Devices, Hub!HeartbeatAges(d) \/ Hub!HardTimeoutPasses(d)
  PROVE  RelayInv'
<1>1. mirror \in [Devices -> Shown] /\ \A e \in Devices : CapsRight(e, mirror[e])
  BY DEF RelayInv, ShownTyped, Hub!CapabilitiesOwnIfInTime, CapsRight
<1>2. /\ mirror' = [mirror EXCEPT ![d] = [mirror[d] EXCEPT !.hbFresh = FALSE]] \/ mirror' = [mirror EXCEPT ![d] = [mirror[d] EXCEPT !.hardOver = TRUE]]
      /\ UNCHANGED <<wire, owner, cached, published>>
  BY DEF Hub!HeartbeatAges, Hub!HardTimeoutPasses, Hub!relayVars
<1>3. PICK m : /\ m = [mirror[d] EXCEPT !.hbFresh = FALSE] \/ m = [mirror[d] EXCEPT !.hardOver = TRUE]
               /\ mirror' = [mirror EXCEPT ![d] = m]
  BY <1>2
<1>4. m \in Shown /\ SameSigns(mirror[d], m) /\ CapsRight(d, m)
  <2>1. mirror[d] \in Shown /\ CapsRight(d, mirror[d])
    BY <1>1
  <2> QED
    BY <1>3, <2>1 DEF Shown, SameSigns, CapsRight
<1>5. mirror' \in [Devices -> Shown] /\ \A e \in Devices : mirror'[e] = IF e = d THEN m ELSE mirror[e]
  BY <1>1, <1>3, <1>4
<1>6. \A e \in Devices : SameSigns(mirror[e], mirror'[e]) /\ CapsRight(e, mirror'[e])
  BY <1>1, <1>4, <1>5 DEF SameSigns
<1> QED
  BY <1>2, <1>5, <1>6, SignsKept

(* Capabilities that are the device's own may be shown at any time.        *)
LEMMA CapsShown ==
  ASSUME RelayInv, NEW m \in Devices, UNCHANGED <<wire, owner, cached, published>>,
         mirror' = Hub!ShowCapabilities(m, m)
  PROVE  RelayInv'
<1>1. mirror \in [Devices -> Shown] /\ \A e \in Devices : CapsRight(e, mirror[e])
  BY DEF RelayInv, ShownTyped, Hub!CapabilitiesOwnIfInTime, CapsRight
<1>2. PICK n : n = [mirror[m] EXCEPT !.caps = m, !.capsLate = FALSE] /\ mirror' = [mirror EXCEPT ![m] = n]
  BY <1>1 DEF Hub!ShowCapabilities
<1>3. n \in Shown /\ SameSigns(mirror[m], n) /\ CapsRight(m, n)
  <2>1. mirror[m] \in Shown /\ m \in Named
    BY <1>1 DEF Named
  <2> QED
    BY <1>2, <2>1 DEF Shown, SameSigns, CapsRight
<1>4. mirror' \in [Devices -> Shown] /\ \A e \in Devices : mirror'[e] = IF e = m THEN n ELSE mirror[e]
  BY <1>1, <1>2, <1>3
<1>5. \A e \in Devices : SameSigns(mirror[e], mirror'[e]) /\ CapsRight(e, mirror'[e])
  BY <1>1, <1>3, <1>4 DEF SameSigns
<1> QED
  BY <1>4, <1>5, SignsKept

(* The reply to a request for capabilities is of the mirror's own device.  *)
LEMMA ReceivesRelay ==
  ASSUME ForwardInv, RelayInv, NEW m \in Hub!Mirrors, Hub!WorkerReceives(m)
  PROVE  RelayInv'
<1>1. mirror \in [Devices -> Shown] /\ \A e \in Devices : CapsRight(e, mirror[e])
  BY DEF RelayInv, ShownTyped, Hub!CapabilitiesOwnIfInTime, CapsRight
<1>2. requests[Head(fwd[m].sock.inbox)].mirror = m
  BY ReceivesForward
<1>3. /\ UNCHANGED <<wire, owner, cached, published>>
      /\ mirror' = mirror \/ (m \in Devices /\ mirror' = Hub!ShowCapabilities(m, m))
  BY <1>2 DEF Hub!WorkerReceives, Hub!relayVars
<1>4. CASE mirror' = mirror
  BY <1>1, <1>3, <1>4, SignsKept DEF SameSigns
<1>5. CASE m \in Devices /\ mirror' = Hub!ShowCapabilities(m, m)
  BY <1>3, <1>5, CapsShown
<1> QED
  BY <1>3, <1>4, <1>5

(* What comes off the wire first was sent first. *)
LEMMA DrainRelay ==
  ASSUME RelayInv, Hub!DrainPeerEvent
  PROVE  RelayInv'
<1>e. PICK e : e = Head(wire)
  OBVIOUS
<1>d. PICK d : d = e.device
  OBVIOUS
<1>1. /\ wire # <<>> /\ wire' = Tail(wire) /\ UNCHANGED owner
      /\ \/ e.topic = "heartbeat" /\ Hub!RelayHeartbeat(d, e)
         \/ e.topic = "liveness" /\ Hub!RelayLiveness(d, e)
         \/ UNCHANGED <<mirror, cached, published>>
  BY <1>e, <1>d DEF Hub!DrainPeerEvent
<1>2. /\ mirror \in [Devices -> Shown] /\ cached \in [Devices -> Words] /\ published \in [Devices -> Words]
      /\ wire \in Seq(Event) /\ owner \in [Devices -> Driving] /\ \A x \in Devices : CapsRight(x, mirror[x])
  BY DEF RelayInv, ShownTyped, Hub!CapabilitiesOwnIfInTime, CapsRight
<1>3. /\ e \in Event /\ e = wire[1] /\ 1 \in 1..Len(wire) /\ wire' \in Seq(Event) /\ Len(wire') = Len(wire) - 1
      /\ \A i \in 1..Len(wire') : wire'[i] = wire[i + 1] /\ i + 1 \in 1..Len(wire)
  <2>1. Len(wire) \in Nat /\ Len(wire) >= 1
    BY <1>1, <1>2, EmptySeq
  <2>2. /\ e \in Event /\ wire' \in Seq(Event) /\ Len(wire') = Len(wire) - 1
        /\ \A i \in 1..Len(wire') : wire'[i] = wire[i + 1]
    BY <1>1, <1>2, <1>e, HeadTailProperties
  <2> QED
    BY <1>e, <2>1, <2>2
<1>4. d \in Devices /\ e.pid \in Nat /\ e.says \in Words /\ e.topic \in Topics
  BY <1>3, <1>d DEF Event
(* What the mirror of the device becomes. *)
<1>5. PICK m \in Shown :
        /\ mirror' = [mirror EXCEPT ![d] = m] /\ CapsRight(d, m)
        /\ \/ /\ SameSigns(mirror[d], m) /\ UNCHANGED <<cached, published>>
           \/ /\ e.topic = "heartbeat" /\ m.hbPid = e.pid /\ m.saidPid = mirror[d].saidPid /\ m.said = mirror[d].said
              /\ UNCHANGED <<cached, published>>
           \/ /\ m.hbPid = mirror[d].hbPid /\ m.saidPid = e.pid /\ m.said = e.says /\ m.hbNewer = FALSE
              /\ published' = [published EXCEPT ![d] = e.says] /\ cached' = [cached EXCEPT ![d] = e.says]
  <2>0. mirror[d] \in Shown /\ CapsRight(d, mirror[d]) /\ mirror = [mirror EXCEPT ![d] = mirror[d]]
    BY <1>2, <1>4
  <2>1. CASE e.topic = "heartbeat" /\ Hub!RelayHeartbeat(d, e)
    <3> DEFINE m == [mirror[d] EXCEPT !.hb = e.says, !.hbPid = e.pid, !.hbFresh = TRUE, !.hbNewer = TRUE]
    <3>1. mirror' = [mirror EXCEPT ![d] = m] /\ UNCHANGED <<cached, published>>
      BY <2>1 DEF Hub!RelayHeartbeat
    <3>2. m \in Shown /\ CapsRight(d, m) /\ m.hbPid = e.pid /\ m.saidPid = mirror[d].saidPid /\ m.said = mirror[d].said
      BY <1>4, <2>0 DEF Shown, CapsRight
    <3> HIDE DEF m
    <3> QED
      BY <2>1, <3>1, <3>2
  <2>2. CASE e.topic = "liveness" /\ Hub!RelayLiveness(d, e)
    <3> DEFINE m == [mirror[d] EXCEPT !.said = e.says, !.saidPid = e.pid, !.hbNewer = FALSE, !.hardOver = FALSE]
    <3>1. /\ mirror' = [mirror EXCEPT ![d] = m]
          /\ published' = [published EXCEPT ![d] = e.says] /\ cached' = [cached EXCEPT ![d] = e.says]
      BY <2>2 DEF Hub!RelayLiveness
    <3>2. m \in Shown /\ CapsRight(d, m) /\ m.hbPid = mirror[d].hbPid /\ m.saidPid = e.pid /\ m.said = e.says /\ m.hbNewer = FALSE
      BY <1>4, <2>0 DEF Shown, CapsRight
    <3> HIDE DEF m
    <3> QED
      BY <3>1, <3>2
  <2>3. CASE UNCHANGED <<mirror, cached, published>>
    BY <2>0, <2>3 DEF SameSigns
  <2> QED
    BY <1>1, <2>1, <2>2, <2>3
<1>6. mirror' \in [Devices -> Shown] /\ \A x \in Devices : mirror'[x] = IF x = d THEN m ELSE mirror[x]
  BY <1>2, <1>4, <1>5
<1>7. ShownTyped'
  <2>1. cached' \in [Devices -> Words] /\ published' \in [Devices -> Words]
    BY <1>2, <1>4, <1>5
  <2> QED
    BY <1>1, <1>2, <1>3, <1>6, <2>1 DEF ShownTyped
<1>8. /\ \A x \in Devices : owner[x].hbPid <= owner[x].pid /\ owner[x].pid \in Nat
      /\ \A x \in Devices : mirror[x].hbPid <= owner[x].pid /\ mirror[x].saidPid <= owner[x].pid
      /\ \A i \in 1..Len(wire) :
          /\ wire[i].pid <= owner[wire[i].device].pid
          /\ wire[i].topic = "heartbeat" =>
                /\ mirror[wire[i].device].hbPid <= wire[i].pid /\ mirror[wire[i].device].saidPid <= wire[i].pid
                /\ \A k \in 1..(i - 1) : wire[k].device = wire[i].device => wire[k].pid <= wire[i].pid
      /\ \A x \in Devices : mirror[x].hbNewer => mirror[x].saidPid <= mirror[x].hbPid
  BY <1>2 DEF RelayInv, InOrderOfPid, Driving
<1>9. /\ e.pid <= owner[d].pid
      /\ e.topic = "heartbeat" => mirror[d].hbPid <= e.pid /\ mirror[d].saidPid <= e.pid
  BY <1>3, <1>8, <1>d
<1>10. /\ m.hbPid <= owner[d].pid /\ m.saidPid <= owner[d].pid
       /\ m.hbNewer => m.saidPid <= m.hbPid
  BY <1>4, <1>5, <1>8, <1>9 DEF SameSigns
<1>11. ASSUME NEW i \in 1..Len(wire')
       PROVE  /\ wire'[i].pid <= owner[wire'[i].device].pid
              /\ wire'[i].topic = "heartbeat" =>
                    /\ mirror'[wire'[i].device].hbPid <= wire'[i].pid /\ mirror'[wire'[i].device].saidPid <= wire'[i].pid
                    /\ \A k \in 1..(i - 1) : wire'[k].device = wire'[i].device => wire'[k].pid <= wire'[i].pid
  <2>1. wire'[i] = wire[i + 1] /\ i + 1 \in 1..Len(wire)
    BY <1>3
  <2>2. wire'[i].device \in Devices
    BY <2>1, EventsTyped
  <2>3. 1 \in 1..((i + 1) - 1) /\ \A k \in 1..(i - 1) : k \in 1..Len(wire') /\ k + 1 \in 1..((i + 1) - 1)
    BY <1>3
  <2>4. ASSUME wire'[i].topic = "heartbeat"
        PROVE  mirror'[wire'[i].device].hbPid <= wire'[i].pid /\ mirror'[wire'[i].device].saidPid <= wire'[i].pid
    <3>1. mirror[wire'[i].device].hbPid <= wire'[i].pid /\ mirror[wire'[i].device].saidPid <= wire'[i].pid
      BY <1>8, <2>1, <2>4
    <3>2. wire'[i].device = d => e.pid <= wire'[i].pid
      BY <1>3, <1>8, <1>d, <2>1, <2>3, <2>4
    <3>3. CASE wire'[i].device = d
      <4>1. mirror'[wire'[i].device] = m
        BY <1>4, <1>6, <3>3
      <4>2. m.hbPid \in {mirror[d].hbPid, e.pid} /\ m.saidPid \in {mirror[d].saidPid, e.pid}
        BY <1>5 DEF SameSigns
      <4> QED
        BY <3>1, <3>2, <3>3, <4>1, <4>2
    <3>4. CASE wire'[i].device # d
      BY <1>6, <2>2, <3>1, <3>4
    <3> QED
      BY <3>3, <3>4
  <2>5. ASSUME wire'[i].topic = "heartbeat", NEW k \in 1..(i - 1), wire'[k].device = wire'[i].device
        PROVE  wire'[k].pid <= wire'[i].pid
    BY <1>3, <1>8, <2>1, <2>3, <2>5
  <2> QED
    BY <1>8, <2>1, <2>4, <2>5
<1>12. InOrderOfPid'
  <2>1. \A x \in Devices : mirror'[x].hbPid <= owner[x].pid /\ mirror'[x].saidPid <= owner[x].pid
    BY <1>6, <1>8, <1>10
  <2>2. \A x \in Devices : mirror'[x].hbNewer => mirror'[x].saidPid <= mirror'[x].hbPid
    BY <1>6, <1>8, <1>10
  <2> QED
    BY <1>1, <1>8, <1>11, <2>1, <2>2 DEF InOrderOfPid
<1>13. Hub!NoResurrection'
  <2> SUFFICES ASSUME NEW x \in Devices, mirror'[x].said = "OFFLINE", published'[x] \in {"ONLINE", "DISCONNECTED"}
               PROVE  mirror'[x].hbPid > mirror'[x].saidPid
    BY DEF Hub!NoResurrection
  <2>1. CASE x # d
    <3>1. mirror'[x] = mirror[x] /\ published'[x] = published[x]
      BY <1>2, <1>5, <1>6, <2>1
    <3> QED
      BY <3>1 DEF RelayInv, Hub!NoResurrection
  <2>2. CASE x = d
    <3>1. mirror'[x] = m
      BY <1>6, <2>2
    <3>2. published'[d] = published[d] /\ m.said = mirror[d].said /\ m.saidPid = mirror[d].saidPid
          /\ (m.hbPid = mirror[d].hbPid \/ (m.hbPid = e.pid /\ mirror[d].hbPid <= e.pid))
      <4>1. ~(m.said = e.says /\ published' = [published EXCEPT ![d] = e.says])
        BY <1>2, <1>4, <2>2, <3>1
      <4> QED
        BY <1>5, <1>9, <4>1 DEF SameSigns
    <3>3. mirror[d].hbPid > mirror[d].saidPid
      BY <2>2, <3>1, <3>2 DEF RelayInv, Hub!NoResurrection
    <3>4. mirror[d].hbPid \in Nat /\ mirror[d].saidPid \in Nat
      BY <1>2, <1>4 DEF Shown
    <3> QED
      BY <1>4, <2>2, <3>1, <3>2, <3>3, <3>4
  <2> QED
    BY <2>1, <2>2
<1>14. Hub!CapabilitiesOwnIfInTime'
  BY <1>2, <1>5, <1>6 DEF CapsRight, Hub!CapabilitiesOwnIfInTime
<1> QED
  BY <1>7, <1>12, <1>13, <1>14 DEF RelayInv

(* What the peer sends is of its present driver or an earlier one; a       *)
(* heartbeat is of the present one.                                        *)
SentBy(e, d, w) == e.device = d /\ e.pid <= w.pid /\ (e.topic = "heartbeat" => e.pid = w.pid)

(* The owner moves and may send.                                          *)
LEMMA OwnerMoves ==
  ASSUME RelayInv, NEW d \in Devices, NEW w \in Driving,
         UNCHANGED <<mirror, cached, published>>, owner' = [owner EXCEPT ![d] = w],
         owner[d].pid <= w.pid, w.hbPid <= w.pid,
         UNCHANGED wire \/ \E e \in Event : wire' = Append(wire, e) /\ SentBy(e, d, w)
  PROVE  RelayInv'
<1>2. /\ mirror \in [Devices -> Shown] /\ wire \in Seq(Event) /\ owner \in [Devices -> Driving]
  BY DEF RelayInv, ShownTyped
<1>3. owner' \in [Devices -> Driving] /\ \A x \in Devices : owner'[x] = IF x = d THEN w ELSE owner[x]
  BY <1>2
<1>4. \A x \in Devices : owner[x].pid \in Nat /\ owner'[x].pid \in Nat /\ owner[x].pid <= owner'[x].pid /\ owner'[x].hbPid <= owner'[x].pid
  BY <1>2, <1>3 DEF RelayInv, InOrderOfPid, Driving
<1>5. /\ wire' \in Seq(Event)
      /\ \A i \in 1..Len(wire') : \/ i \in 1..Len(wire) /\ wire'[i] = wire[i] /\ \A k \in 1..(i - 1) : wire'[k] = wire[k]
                                  \/ /\ i = Len(wire) + 1 /\ wire'[i] \in Event /\ wire'[i].device = d /\ wire'[i].pid <= w.pid
                                     /\ wire'[i].topic = "heartbeat" => wire'[i].pid = w.pid
                                     /\ \A k \in 1..(i - 1) : k \in 1..Len(wire) /\ wire'[k] = wire[k]
  <2>1. CASE UNCHANGED wire
    BY <1>2, <2>1
  <2>2. CASE ~UNCHANGED wire
    <3>1. PICK e \in Event : wire' = Append(wire, e) /\ e.device = d /\ e.pid <= w.pid /\ (e.topic = "heartbeat" => e.pid = w.pid)
      BY <2>2 DEF SentBy
    <3>2. /\ wire' \in Seq(Event) /\ Len(wire') = Len(wire) + 1 /\ wire'[Len(wire) + 1] = e /\ Len(wire) \in Nat
          /\ \A i \in 1..Len(wire) : wire'[i] = wire[i]
      BY <1>2, <3>1
    <3>3. \A i \in 1..Len(wire') : /\ i \in 1..Len(wire) \/ i = Len(wire) + 1
                                   /\ \A k \in 1..(i - 1) : k \in 1..Len(wire)
      BY <3>2
    <3> QED
      BY <3>1, <3>2, <3>3
  <2> QED
    BY <2>1, <2>2
<1>6. ASSUME NEW i \in 1..Len(wire')
      PROVE  /\ wire'[i].pid <= owner'[wire'[i].device].pid
             /\ wire'[i].topic = "heartbeat" =>
                    /\ mirror[wire'[i].device].hbPid <= wire'[i].pid /\ mirror[wire'[i].device].saidPid <= wire'[i].pid
                    /\ \A k \in 1..(i - 1) : wire'[k].device = wire'[i].device => wire'[k].pid <= wire'[i].pid
  <2>1. CASE i \in 1..Len(wire) /\ wire'[i] = wire[i] /\ \A k \in 1..(i - 1) : wire'[k] = wire[k]
    <3>1. wire[i].device \in Devices /\ wire[i].pid \in Nat
      BY <2>1, EventsTyped
    <3>2. /\ wire[i].pid <= owner[wire[i].device].pid
          /\ wire[i].topic = "heartbeat" =>
                    /\ mirror[wire[i].device].hbPid <= wire[i].pid /\ mirror[wire[i].device].saidPid <= wire[i].pid
                    /\ \A k \in 1..(i - 1) : wire[k].device = wire[i].device => wire[k].pid <= wire[i].pid
      BY <2>1 DEF RelayInv, InOrderOfPid
    <3>3. wire[i].pid <= owner'[wire[i].device].pid
      BY <1>4, <3>1, <3>2
    <3> QED
      BY <2>1, <3>2, <3>3
  <2>2. CASE ~(i \in 1..Len(wire) /\ wire'[i] = wire[i] /\ \A k \in 1..(i - 1) : wire'[k] = wire[k])
    <3>1. /\ wire'[i].device = d /\ wire'[i].pid <= w.pid
          /\ wire'[i].topic = "heartbeat" => wire'[i].pid = w.pid
          /\ \A k \in 1..(i - 1) : k \in 1..Len(wire) /\ wire'[k] = wire[k]
      BY <1>5, <2>2
    <3>2. owner'[d] = w /\ owner[d].pid <= w.pid /\ w.pid \in Nat /\ owner[d].pid \in Nat
      BY <1>3, <1>4
    <3>3. mirror[d].hbPid <= w.pid /\ mirror[d].saidPid <= w.pid
      <4>1. mirror[d].hbPid <= owner[d].pid /\ mirror[d].saidPid <= owner[d].pid
        BY DEF RelayInv, InOrderOfPid
      <4>2. mirror[d].hbPid \in Nat /\ mirror[d].saidPid \in Nat
        BY <1>2 DEF Shown
      <4> QED
        BY <3>2, <4>1, <4>2
    <3>4. \A k \in 1..(i - 1) : wire[k].device = d => wire[k].pid <= w.pid
      <4> TAKE k \in 1..(i - 1)
      <4>1. k \in 1..Len(wire)
        BY <3>1
      <4>2. wire[k].pid <= owner[wire[k].device].pid /\ wire[k].pid \in Nat
        BY <4>1, EventsTyped DEF RelayInv, InOrderOfPid
      <4> QED
        BY <3>2, <4>2
    <3> QED
      BY <3>1, <3>2, <3>3, <3>4
  <2> QED
    BY <2>1, <2>2
<1>7. InOrderOfPid'
  <2>1. \A x \in Devices : mirror[x].hbPid <= owner'[x].pid /\ mirror[x].saidPid <= owner'[x].pid
    <3> TAKE x \in Devices
    <3>1. mirror[x].hbPid <= owner[x].pid /\ mirror[x].saidPid <= owner[x].pid
      BY DEF RelayInv, InOrderOfPid
    <3>2. mirror[x].hbPid \in Nat /\ mirror[x].saidPid \in Nat
      BY <1>2 DEF Shown
    <3> QED
      BY <1>4, <3>1, <3>2
  <2>2. \A x \in Devices : mirror[x].hbNewer => mirror[x].saidPid <= mirror[x].hbPid
    BY DEF RelayInv, InOrderOfPid
  <2> QED
    BY <1>4, <1>6, <2>1, <2>2 DEF InOrderOfPid
<1>8. ShownTyped' /\ Hub!NoResurrection' /\ Hub!CapabilitiesOwnIfInTime'
  BY <1>3, <1>5 DEF RelayInv, ShownTyped, Hub!NoResurrection, Hub!CapabilitiesOwnIfInTime
<1> QED
  BY <1>7, <1>8 DEF RelayInv

(* Steps of the owner.                                                    *)
LEMMA OwnerRelay ==
  ASSUME RelayInv, Hub!Owner
  PROVE  RelayInv'
<1>1. PICK d \in Devices :
        \/ \E says \in {"ONLINE", "DISCONNECTED"} : Hub!OwnerHeartbeat(d, says)
        \/ \E says \in {"ONLINE", "DISCONNECTED", "STALE", "OFFLINE"} : Hub!OwnerLiveness(d, says)
        \/ Hub!OwnerExits(d) \/ Hub!OwnerRestarts(d)
  BY DEF Hub!Owner
<1>2. owner[d] \in Driving /\ owner[d].pid \in Nat /\ owner[d].hbPid \in Nat /\ owner[d].hbPid <= owner[d].pid
  BY DEF RelayInv, ShownTyped, InOrderOfPid, Driving
<1>3. CASE \E says \in {"ONLINE", "DISCONNECTED"} : Hub!OwnerHeartbeat(d, says)
  <2>1. PICK says \in {"ONLINE", "DISCONNECTED"} : Hub!OwnerHeartbeat(d, says)
    BY <1>3
  <2> DEFINE w == [owner[d] EXCEPT !.hbPid = owner[d].pid]
             e == [device |-> d, topic |-> "heartbeat", says |-> says, pid |-> owner[d].pid]
  <2>2. owner' = [owner EXCEPT ![d] = w] /\ wire' = Append(wire, e) /\ UNCHANGED <<mirror, cached, published>>
    BY <2>1 DEF Hub!OwnerHeartbeat, Hub!Send
  <2>3. w \in Driving /\ w.pid = owner[d].pid /\ w.hbPid = owner[d].pid
    BY <1>2 DEF Driving, Words
  <2>4. e \in Event /\ e.device = d /\ e.pid = owner[d].pid
    BY <1>2 DEF Event, Topics, Words
  <2> HIDE DEF w, e
  <2>5. owner[d].pid <= w.pid /\ w.hbPid <= w.pid
    BY <1>2, <2>3
  <2>6. SentBy(e, d, w)
    BY <1>2, <2>3, <2>4 DEF SentBy
  <2>7. \E x \in Event : wire' = Append(wire, x) /\ SentBy(x, d, w)
    BY <2>2, <2>4, <2>6
  <2> QED
    BY <2>2, <2>3, <2>5, <2>7, OwnerMoves, Zenon
<1>4. CASE \E says \in {"ONLINE", "DISCONNECTED", "STALE", "OFFLINE"} : Hub!OwnerLiveness(d, says)
  <2>1. PICK says \in {"ONLINE", "DISCONNECTED", "STALE", "OFFLINE"} : Hub!OwnerLiveness(d, says)
    BY <1>4
  <2> DEFINE w == [owner[d] EXCEPT !.says = says]
             e == [device |-> d, topic |-> "liveness", says |-> says, pid |-> owner[d].hbPid]
  <2>2. owner' = [owner EXCEPT ![d] = w] /\ wire' = Append(wire, e) /\ UNCHANGED <<mirror, cached, published>>
    BY <2>1 DEF Hub!OwnerLiveness, Hub!Send
  <2>3. w \in Driving /\ w.pid = owner[d].pid /\ w.hbPid = owner[d].hbPid
    BY <1>2 DEF Driving, Words
  <2>4. e \in Event /\ e.device = d /\ e.pid = owner[d].hbPid /\ e.topic = "liveness"
    BY <1>2 DEF Event, Topics, Words
  <2> HIDE DEF w, e
  <2>5. owner[d].pid <= w.pid /\ w.hbPid <= w.pid
    BY <1>2, <2>3
  <2>6. SentBy(e, d, w)
    BY <1>2, <2>3, <2>4 DEF SentBy
  <2>7. \E x \in Event : wire' = Append(wire, x) /\ SentBy(x, d, w)
    BY <2>2, <2>4, <2>6
  <2> QED
    BY <2>2, <2>3, <2>5, <2>7, OwnerMoves, Zenon
<1>5. CASE Hub!OwnerExits(d)
  <2> DEFINE w == [owner[d] EXCEPT !.up = FALSE]
  <2>2. owner' = [owner EXCEPT ![d] = w] /\ UNCHANGED <<wire, mirror, cached, published>>
    BY <1>5 DEF Hub!OwnerExits
  <2>3. w \in Driving /\ w.pid = owner[d].pid /\ w.hbPid = owner[d].hbPid
    BY <1>2 DEF Driving, Words
  <2> HIDE DEF w
  <2>4. owner[d].pid <= w.pid /\ w.hbPid <= w.pid
    BY <1>2, <2>3
  <2>5. UNCHANGED wire
    BY <2>2
  <2> QED
    BY <2>2, <2>3, <2>4, <2>5, OwnerMoves, Zenon
<1>6. CASE Hub!OwnerRestarts(d)
  <2>1. PICK p \in Nat : p = owner[d].pid + 1
    BY <1>2
  <2> DEFINE w == [owner[d] EXCEPT !.up = TRUE, !.pid = p, !.hbPid = 0]
  <2>2. owner' = [owner EXCEPT ![d] = w] /\ UNCHANGED <<wire, mirror, cached, published>>
    BY <1>6, <2>1 DEF Hub!OwnerRestarts, RelayInv, ShownTyped
  <2>3. w \in Driving /\ w.pid = p /\ w.hbPid = 0
    BY <1>2 DEF Driving, Words
  <2> HIDE DEF w
  <2>4. owner[d].pid <= w.pid /\ w.hbPid <= w.pid
    BY <1>2, <2>1, <2>3
  <2>5. UNCHANGED wire
    BY <2>2
  <2> QED
    BY <2>2, <2>3, <2>4, <2>5, OwnerMoves, Zenon
<1> QED
  BY <1>1, <1>3, <1>4, <1>5, <1>6

(* Every step of the hub keeps RelayInv.                                  *)
LEMMA RelayStep ==
  ASSUME IsFiniteSet(Devices), ForwardInv, WarmInv, RelayInv, [Hub!Next]_Hub!hubVars
  PROVE  RelayInv'
<1>1. CASE \E m \in Hub!Mirrors : Hub!WorkerReceives(m)
  BY <1>1, ReceivesRelay
<1>2. CASE Hub!CheckTimeouts
  BY <1>2, CheckRelay
<1>3. CASE Hub!Relaying
  BY <1>3, DrainRelay, AgesRelay DEF Hub!Relaying
<1>4. CASE Hub!Owner
  BY <1>4, OwnerRelay
<1>5. CASE UNCHANGED <<mirror, wire, owner, cached, published>>
  <2>1. mirror \in [Devices -> Shown] /\ \A e \in Devices : SameSigns(mirror[e], mirror[e]) /\ CapsRight(e, mirror[e])
    BY DEF RelayInv, ShownTyped, Hub!CapabilitiesOwnIfInTime, CapsRight, SameSigns
  <2> QED
    BY <1>5, <2>1, SignsKept
<1>6. CASE Hub!Warming \/ UNCHANGED Hub!hubVars
  <2>1. UNCHANGED <<mirror, wire, owner, cached, published>>
    BY <1>6 DEF Hub!Warming, Hub!StartFetch, Hub!FetchReceives, Hub!FetchTimesOut, Hub!FetchAgain, Hub!FetchNext,
       Hub!relayVars, Hub!hubVars
  <2> QED
    BY <1>5, <2>1
<1>7. CASE Hub!Forwarding /\ ~\E m \in Hub!Mirrors : Hub!WorkerReceives(m)
  <2>1. UNCHANGED <<mirror, wire, owner, cached, published>>
    BY <1>7 DEF Hub!Forwarding, Hub!Dispatch, Hub!WorkerSends, Hub!PeerReplies, Hub!ForwardFails, Hub!WorkerEnds,
       Hub!Close, Hub!relayVars
  <2> QED
    BY <1>5, <2>1
<1>8. CASE \E d \in Devices : Hub!UpdateCapabilities(d)
  BY <1>8, CapsShown DEF Hub!UpdateCapabilities, Hub!relayVars
<1> QED
  BY <1>1, <1>2, <1>3, <1>4, <1>6, <1>7, <1>8 DEF Hub!Next

(* The hub starts with nothing sent, nothing on the wire and mirrors of    *)
(* which nothing is known.                                                 *)
LEMMA HubStarts ==
  ASSUME Hub!Init
  PROVE  ForwardInv /\ WarmInv /\ RelayInv
<1>1. /\ fwd = [m \in Hub!Mirrors |-> Hub!FreshWorker] /\ requests = <<>> /\ answers = <<>>
      /\ warm = [fetch |-> Hub!NoFetch, fetches |-> 0, waiting |-> FALSE] /\ warmResults = <<>>
      /\ mirror = [d \in Devices |-> Hub!FreshMirror]
      /\ cached = [d \in Devices |-> "none"] /\ published = [d \in Devices |-> "none"]
      /\ wire = <<>> /\ owner = [d \in Devices |-> Hub!FreshOwner]
  BY DEF Hub!Init
<1>2. ForwardInv
  <2>1. /\ Hub!FreshWorker \in Forwarder /\ Hub!FreshWorker.queue = <<>> /\ Hub!FreshWorker.req = 0
        /\ Hub!FreshWorker.sock.inbox = <<>> /\ Hub!FreshWorker.sock.due = <<>>
    BY DEF Hub!FreshWorker, Hub!NoSocket, Forwarder, Socket
  <2>2. ForwardTyped
    BY <1>1, <2>1 DEF ForwardTyped
  <2>3. WorkerRight(requests, answers, 0, Hub!FreshWorker) /\ \A m \in Hub!Mirrors : fwd[m] = Hub!FreshWorker
    BY <1>1, <2>1 DEF WorkerRight, Rising
  <2>4. \A m \in Hub!Mirrors : WorkerRight(requests, answers, m, fwd[m]) /\ SocketRight(fwd[m])
    BY <2>1, <2>3 DEF WorkerRight, SocketRight, Rising
  <2>5. Hub!ForwardAnswersOwn
    BY <1>1 DEF Hub!ForwardAnswersOwn
  <2> QED
    BY <2>2, <2>4, <2>5 DEF ForwardInv
<1>3. WarmInv
  <2>1. Hub!NoFetch \in [step : Nat, due : Seq(Named), got : Seq(Named), late : BOOLEAN] /\ Hub!NoFetch.step = 0
    BY DEF Hub!NoFetch
  <2>2. WarmTyped
    BY <1>1, <2>1 DEF WarmTyped
  <2>3. Asking(warm.fetch)
    BY <1>1, <2>1 DEF Asking
  <2> QED
    BY <2>2, <2>3 DEF WarmInv
<1>4. RelayInv
  <2>1. Hub!FreshMirror \in Shown /\ Hub!FreshMirror.hbPid = 0 /\ Hub!FreshMirror.saidPid = 0 /\ Hub!FreshMirror.caps = "none"
    BY DEF Hub!FreshMirror, Shown, Named, Words
  <2>2. Hub!FreshOwner \in Driving /\ Hub!FreshOwner.pid = 1 /\ Hub!FreshOwner.hbPid = 0
    BY DEF Hub!FreshOwner, Driving, Words
  <2>3. ShownTyped
    BY <1>1, <2>1, <2>2 DEF ShownTyped, Words
  <2>4. InOrderOfPid
    BY <1>1, <2>1, <2>2 DEF InOrderOfPid
  <2>5. Hub!NoResurrection /\ Hub!CapabilitiesOwnIfInTime
    BY <1>1, <2>1 DEF Hub!NoResurrection, Hub!CapabilitiesOwnIfInTime
  <2> QED
    BY <2>3, <2>4, <2>5 DEF RelayInv
<1> QED
  BY <1>2, <1>3, <1>4

(* The federation hub, for any number of mirrors, requests, fetches,       *)
(* events and incarnations of the peer's drivers: a forwarded request is   *)
(* answered at most once and with its own reply, although replies carry    *)
(* no correlation id and come late (_forward closes the socket after a     *)
(* time-out); a mirror its owner declared dead is shown alive again only   *)
(* after a heartbeat of a later process or the owner's word                *)
(* (_mirrored_device_liveness); and the capabilities shown are the         *)
(* device's own unless a call of the fetch they come from timed out        *)
(* (_fetch_peer_metadata).                                                 *)
THEOREM HubIsSound ==
  ASSUME IsFiniteSet(Devices)
  PROVE  Hub!Spec => [](Hub!ForwardAnswersOwn /\ Hub!NoResurrection /\ Hub!CapabilitiesOwnIfInTime)
<1> DEFINE I == ForwardInv /\ WarmInv /\ RelayInv
<1>1. Hub!Init => I
  BY HubStarts
<1>2. I /\ [Hub!Next]_Hub!hubVars => I'
  BY ForwardStep, WarmStep, RelayStep
<1>3. I => Hub!ForwardAnswersOwn /\ Hub!NoResurrection /\ Hub!CapabilitiesOwnIfInTime
  BY DEF ForwardInv, RelayInv
<1> QED
  BY <1>1, <1>2, <1>3, PTL DEF Hub!Spec

=============================================================================
