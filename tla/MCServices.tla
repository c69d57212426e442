----------------------------- MODULE MCServices -----------------------------
(* The components around the core, each in the instance that makes its hard    *)
(* cases happen, checked in one run.  A behaviour is one of one `part'.  The   *)
(* stack has its own variables, which stay as they begin in the other parts;   *)
(* those of the other parts have names that they share, and the ones a part    *)
(* has no use for stay 0.                                                      *)
EXTENDS Integers, Sequences, FiniteSets, StackLifecycle

CONSTANT None

VARIABLES part, x1, x2, x3, x4, x5, x6, x7, x8, x9, x10, x11, x12, x13, x14, x15

-----------------------------------------------------------------------------
(* Steps of a sequence: every kind, with targets that exist, that do not, and  *)
(* that a template hides, and the ways in which a variable comes and goes.     *)

Src(k, d, a, n) == [kind |-> k, dev |-> d, act |-> a, name |-> n]
Step(k) == [kind |-> k, off |-> FALSE, dev |-> "", act |-> "", name |-> "", uses |-> {}, binds |-> {}, src |-> Src("none", "", "", ""), fit |-> "good", body |-> <<>>, alt |-> <<>>]
Call(d, a, n) == [Step("call") EXCEPT !.dev = d, !.act = a, !.name = n]
Set(d, n) == [Step("set") EXCEPT !.dev = d, !.name = n]
Go == Call("d", "go", "")
BadGo == Call("d", "nogo", "")
Saves == [Go EXCEPT !.binds = {"a"}]
SavesP == [Call("process", "go", "") EXCEPT !.binds = {"a"}]
UsesA == [Set("d", "rw") EXCEPT !.uses = {"a"}]
AssignA == [Step("assign") EXCEPT !.binds = {"a"}, !.uses = {"a"}]
AssignB == [Step("assign") EXCEPT !.binds = {"b"}, !.uses = {"v"}, !.src = Src("telemetry", "d", "", "t")]
ReadGhost == [Step("assign") EXCEPT !.binds = {"a"}, !.src = Src("telemetry", "d", "", "ghost")]
AssignV == [Step("assign") EXCEPT !.binds = {"v"}, !.src = Src("telemetry", "process", "", "t")]
ReadCall == [Step("assign") EXCEPT !.binds = {"a"}, !.src = Src("call", "d", "get", "ro")]
ReadWo == [Step("assign") EXCEPT !.binds = {"a"}, !.src = Src("call", "d", "get", "wo")]
Body(k, b) == [Step(k) EXCEPT !.body = b]
Times(u, f) == [Body("repeat", <<Go>>) EXCEPT !.uses = u, !.fit = f]
Hidden == [Call("${}", "go", "") EXCEPT !.uses = {"a"}]
Steps == {Go, BadGo, [BadGo EXCEPT !.off = TRUE], Call("ghost", "go", ""), Call("d", "set", "ro"), Call("d", "stream.context.set", "s"),
  Call("${}", "go", ""), Call("e", "go", ""), Saves, UsesA, AssignA, AssignB, ReadGhost, ReadCall, ReadWo, Set("d", "rw"), Set("d", "ro"), Set("d", "none"),
  [Step("wait_until") EXCEPT !.uses = {"sample"}], [Step("set_context") EXCEPT !.dev = "d", !.name = "s"],
  [Step("set_context") EXCEPT !.dev = "d", !.name = "x"],
  [Body("for", <<Saves, UsesA>>) EXCEPT !.binds = {"i"}], Body("repeat", <<AssignB, Go>>), [Body("if", <<Saves>>) EXCEPT !.alt = <<UsesA>>],
  [Body("while", <<UsesA>>) EXCEPT !.uses = {"v"}], Body("atomic", <<Saves, BadGo>>), Body("atomic", <<Body("parallel", <<Go>>)>>),
  Body("parallel", <<Saves, SavesP>>), Body("parallel", <<Saves, Body("atomic", <<Call("e", "go", "")>>)>>),
  Body("parallel", <<Go, Body("if", <<Go>>)>>), Body("parallel", <<Go, Set("d", "rw")>>),
  [Body("try", <<Saves, Go>>) EXCEPT !.alt = <<UsesA>>], [Step("use") EXCEPT !.name = "lib"],
  [Step("use") EXCEPT !.name = "loop"], [Step("use") EXCEPT !.name = "nolib", !.binds = {"w"}], 
  [Body("try", <<Go>>) EXCEPT !.alt = <<Call("e", "go", "")>>],
  [Body("adaptive", <<UsesA>>) EXCEPT !.binds = {"a"}, !.src = Src("call", "e", "go", "")],
  [Body("adaptive", <<Go>>) EXCEPT !.fit = "bad"], [Body("for", <<Go>>) EXCEPT !.uses = {"a"}, !.fit = "value"],
  [Body("for", <<Go>>) EXCEPT !.fit = "bad"], Times({"a"}, "value"), Times({"v"}, "value"), Times({}, "bad"),
  Body("parallel", <<Times({"a"}, "value")>>), Body("parallel", <<Times({"v"}, "value")>>), Body("parallel", <<Times({}, "zero")>>),
  Body("parallel", <<Hidden, [Hidden EXCEPT !.act = "rw"]>>), Body("atomic", <<[Step("use") EXCEPT !.name = "par"]>>),
  AssignV, Body("for", <<AssignV>>), [Times({}, "zero") EXCEPT !.body = <<BadGo>>],
  [Step("if") EXCEPT !.uses = {"a"}, !.src = Src("call", "e", "go", "")]}
UsedSequences == [lib |-> [vars |-> {"w"}, steps |-> <<[Set("d", "rw") EXCEPT !.uses = {"v", "w"}], Saves>>],
              loop |-> [vars |-> {}, steps |-> <<[Step("use") EXCEPT !.name = "loop"]>>],
              par |-> [vars |-> {}, steps |-> <<Body("parallel", <<Go>>)>>]]

(* What the two files of a sequence library use. *)
UsesOf == [t \in {"a", "b"} \X (1..2) |->
              CASE t = <<"a", 1>> -> {"b"} [] t = <<"b", 2>> -> {"a"} [] OTHER -> {}]

(* Two watchdog rules. *)
WatchdogRule ==
    << [aliases |-> {1}, need |-> 2, branches |-> TRUE, required |-> FALSE, unknownTrips |-> FALSE,
        latch |-> TRUE, arm |-> FALSE, disarms |-> FALSE, stable |-> FALSE, retries |-> <<0, 1>>],
       [aliases |-> {1}, need |-> 0, branches |-> FALSE, required |-> TRUE, unknownTrips |-> TRUE,
        latch |-> FALSE, arm |-> TRUE, disarms |-> TRUE, stable |-> TRUE, retries |-> <<0>>] >>

-----------------------------------------------------------------------------
(* The parts *)

\* Every program of two steps out of the pool.
Preflight == INSTANCE SequencePreflight WITH
    Dyn <- "${}", Pool <- Steps, Library <- UsedSequences, SpecVars <- {"v"},
    Devices <- {"d", "e"}, Members <- [d |-> {"go", "ro", "rw", "wo"}, e |-> {"go"}],
    Readable <- [d |-> {"ro", "rw"}, e |-> {}], Settable <- [d |-> {"rw", "wo"}, e |-> {}],
    Signals <- [d |-> {"t"}, e |-> {}], Streams <- [d |-> {"s"}, e |-> {}], MaxSteps <- 2,
    prog <- x1, seen <- x2, checked <- x3, diags <- x4, online <- x5, ran <- x6

\* Two files of two versions that use each other, two runs around a restart.
Store == INSTANCE SequenceStore WITH
    Ids <- {"a", "b"}, Broken <- {<<"a", 2>>}, Uses <- UsesOf, None <- None,
    MaxVersion <- 2, MaxRuns <- 2, MaxRestarts <- 1,
    disk <- x1, library <- x2, loaded <- x3, engine <- x4, nextRun <- x5, life <- x6,
    started <- x7, events <- x8, rows <- x9

\* Two set_context steps over two streams and two pool threads.
SetContexts == INSTANCE SetContextDispatch WITH
    Streams <- {"s", "t"}, Workers <- 2, MaxContext <- 2,
    step <- x1, waiting <- x2, job <- x3, queue <- x4, expected <- x5, context <- x6, acked
    <- x7, succeeded <- x8, gone <- x9, late <- x10

\* A latching rule that needs two samples and has a branch and a retry.
Confirming == INSTANCE Watchdog WITH
    Rules <- {1}, Signals <- {1}, Rule <- WatchdogRule, MaxSamples <- 4, MaxTrips <- 2, MaxClears <- 1,
    sample <- x1, was <- x2, enabled <- x3, rst <- x4, inflight <- x5, queue <- x6, worker
    <- x7, trips <- x8, clears <- x9, tripped <- x10

\* A rule that is armed by a condition and trips on an unknown value.
Arming == INSTANCE Watchdog WITH
    Rules <- {2}, Signals <- {1}, Rule <- WatchdogRule, MaxSamples <- 3, MaxTrips <- 2, MaxClears <- 1,
    sample <- x1, was <- x2, enabled <- x3, rst <- x4, inflight <- x5, queue <- x6, worker
    <- x7, trips <- x8, clears <- x9, tripped <- x10

\* Three requests for two mirrors.
Forwarding == INSTANCE FederationHub WITH
    Devices <- {"d"}, Processes <- {"p"}, Allowed <- {"capabilities", "set"}, ForwardQueueMax <- 1,
    MaxRequests <- 3, MaxFetches <- 0, MaxPid <- 1, MaxEvents <- 0,
    fwd <- x1, requests <- x2, answers <- x3, closed <- x4, warm <- x5, warmResults <- x6,
    mirror <- x7, cached <- x8, published <- x9, wire <- x10, owner <- x11, sent <- x12

\* Two metadata fetches of two devices.
Warming == INSTANCE FederationHub WITH
    Devices <- {"d", "e"}, Processes <- {}, Allowed <- {"capabilities", "set"}, ForwardQueueMax <- 1,
    MaxRequests <- 0, MaxFetches <- 2, MaxPid <- 1, MaxEvents <- 0,
    fwd <- x1, requests <- x2, answers <- x3, closed <- x4, warm <- x5, warmResults <- x6,
    mirror <- x7, cached <- x8, published <- x9, wire <- x10, owner <- x11, sent <- x12

\* Three events of a peer whose driver restarts.
Relaying == INSTANCE FederationHub WITH
    Devices <- {"d"}, Processes <- {}, Allowed <- {"capabilities", "set"}, ForwardQueueMax <- 1,
    MaxRequests <- 0, MaxFetches <- 0, MaxPid <- 2, MaxEvents <- 3,
    fwd <- x1, requests <- x2, answers <- x3, closed <- x4, warm <- x5, warmResults <- x6,
    mirror <- x7, cached <- x8, published <- x9, wire <- x10, owner <- x11, sent <- x12

\* A process and a device of a peer, which the catalog may not have named yet,
\* with a destination each: a batch may fail in part.
Influx == INSTANCE InfluxWriter WITH
    Sources <- {"a", "b"}, Processes <- {"a"}, Remote <- {"b"}, Destinations <- {"x", "y"},
    RouteOf <- [a |-> "x", b |-> "y"], MaxQueuePoints <- 2, HttpQueueMax <- 1, DropNewest <- FALSE, MaxUpdates <- 3, MaxChanges <- 1,
    points <- x1, batches <- x2, flushing <- x3, poster <- x4, backoff <- x5, counters <- x6,
    written <- x7, remoteKnown <- x8, muted <- x9, influxOn <- x10, stopEvt <- x11, ending <- x12

\* A device with telemetry and a scheduled stream call every two ticks.
Runner == INSTANCE DriverRunner WITH
    HasSignals <- TRUE, Period <- 2, MaxTime <- 4, MaxContext <- 1,
    health <- x1, link <- x2, members <- x3, step <- x4, clock <- x5, sched <- x6, context
    <- x7, lastTick <- x8, heartbeat <- x9

\* A throttled raw socket and one that is not, which share the frame cache, across
\* a restart of the driver.
Raw == INSTANCE GatewaySockets WITH
    Streams <- {"k"}, Outputs <- {}, RawSockets <- {"r", "q"}, WorkspaceSockets <- {}, Watched <- "k",
    Throttled <- {"r"}, Averaging <- {}, Rolling <- {}, Window <- 2, QueueMax <- 1, Slots <- 2, FrameCap <- 1,
    MaxStreamKeys <- 1, CacheSize <- 1, Contexts <- {1}, None <- None, MaxSeq <- 2, MaxRings <- 2,
    mem <- x1, gone <- x2, bus <- x3, lost <- x4, hub <- x5, order <- x6, latest <- x7, sock <- x8,
    cache <- x9

\* Sockets that average, in both modes, and more streams than the hub keeps.
Averaged == INSTANCE GatewaySockets WITH
    Streams <- {"k", "j"}, Outputs <- {}, RawSockets <- {"b", "a"}, WorkspaceSockets <- {}, Watched <- "k",
    Throttled <- {}, Averaging <- {"b", "a"}, Rolling <- {"a"}, Window <- 2, QueueMax <- 1, Slots <- 2, FrameCap <- 1,
    MaxStreamKeys <- 1, CacheSize <- 1, Contexts <- {1, 2}, None <- None, MaxSeq <- 2, MaxRings <- 1,
    mem <- x1, gone <- x2, bus <- x3, lost <- x4, hub <- x5, order <- x6, latest <- x7, sock <- x8,
    cache <- x9

\* A throttled workspace socket.
Shown == INSTANCE GatewaySockets WITH
    Streams <- {}, Outputs <- {"o"}, RawSockets <- {}, WorkspaceSockets <- {"w"}, Watched <- "o",
    Throttled <- {"w"}, Averaging <- {}, Rolling <- {}, Window <- 2, QueueMax <- 1, Slots <- 2, FrameCap <- 1,
    MaxStreamKeys <- 1, CacheSize <- 1, Contexts <- {1}, None <- None, MaxSeq <- 3, MaxRings <- 1,
    mem <- x1, gone <- x2, bus <- x3, lost <- x4, hub <- x5, order <- x6, latest <- x7, sock <- x8,
    cache <- x9

\* Two HTTP handlers and a queue of one.
Rpc == INSTANCE GatewayRpc WITH
    Callers <- {1, 2}, Reusing <- {}, RpcQueueMax <- 1, MaxRequests <- 2,
    caller <- x1, submitted <- x2, pending <- x3, router <- x4, worker <- x5, stopping <-
    x6, thread <- x7, closing <- x8, made <- x9

\* Every graph of up to three edges over three states, with the transitions it
\* gives or a table of its own.
Machine == INSTANCE StateMachine WITH
    MachineStates <- {"A", "B", "C"}, InitialState <- "A", MaxEdges <- 3,
    GivenTransitions <- {{<<"A", "B">>, <<"B", "C">>, <<"C", "A">>}},
    edges <- x1, allowed <- x2, at <- x3, lastError <- x4, noted <- x5, goal <- x6, running <- x7

\* Both triggers, one attempt, then a restart of the driver.
Reconnect == INSTANCE AutoReconnect WITH
    OnDegraded <- 1, OnStale <- 1, Cooldown <- 1, ResetAfter <- 1, MaxAttempts <- 1, RestartsDriver <- TRUE,
    BeatTimeout <- 2, MaxTime <- 3, MaxGen <- 2,
    clock <- x1, driver <- x2, telemetry <- x3, rec <- x4, tasks <- x5, worker <- x6, lock
    <- x7, open <- x8

\* Two devices in a cache for one, messages older than the timeouts.
Caching == INSTANCE ManagerPump WITH
    Devices <- {"d", "e"}, Bundles <- {<<"x">>, <<"x", "y">>}, MaxDevices <- 1, MaxSignals <- 1, DrainCap <- 1,
    EventQueueMax <- 1, StaleAfter <- 1, BeatTimeout <- 1, MaxTime <- 2, MaxSent <- 3, MaxRings <- 1,
    MaxFrames <- 0, MaxCalls <- 0, MaxEvents <- 0,
    clock <- x1, sub <- x2, sent <- x3, frames <- x4, cache <- x5, driver <- x6, liveness <-
    x7, phase <- x8, call <- x9, calls <- x10, relayed <- x11, queued <- x12, reach <- x13,
    judged <- x14

\* Heartbeats of one device beyond the cap, while the loop waits for a call.
Beating == INSTANCE ManagerPump WITH
    Devices <- {"d"}, Bundles <- {<<"x">>}, MaxDevices <- 1, MaxSignals <- 1, DrainCap <- 1,
    EventQueueMax <- 1, StaleAfter <- 1, BeatTimeout <- 1, MaxTime <- 3, MaxSent <- 3, MaxRings <- 2,
    MaxFrames <- 0, MaxCalls <- 1, MaxEvents <- 0,
    clock <- x1, sub <- x2, sent <- x3, frames <- x4, cache <- x5, driver <- x6, liveness <-
    x7, phase <- x8, call <- x9, calls <- x10, relayed <- x11, queued <- x12, reach <- x13,
    judged <- x14

\* Descriptors from the PUB socket and from replies; events of the workers.
Streaming == INSTANCE ManagerPump WITH
    Devices <- {"d"}, Bundles <- {}, MaxDevices <- 1, MaxSignals <- 1, DrainCap <- 1,
    EventQueueMax <- 1, StaleAfter <- 1, BeatTimeout <- 1, MaxTime <- 0, MaxSent <- 6, MaxRings <- 2,
    MaxFrames <- 2, MaxCalls <- 2, MaxEvents <- 3,
    clock <- x1, sub <- x2, sent <- x3, frames <- x4, cache <- x5, driver <- x6, liveness <-
    x7, phase <- x8, call <- x9, calls <- x10, relayed <- x11, queued <- x12, reach <- x13,
    judged <- x14

\* One interceptor, five requests about its routes and commands.
Routing == INSTANCE ManagerRouting WITH
    Processes <- {"p"}, Actions <- {"set", "capabilities"}, Patterns <- {"*"}, Values <- {},
    SocketMax <- 1, MaxRequests <- 5, MaxBase <- 1,
    socket <- x1, made <- x2, procs <- x3, routes <- x4, cache <- x5, check <- x6, driver <-
    x7, promised <- x8, meta <- x9, published <- x10, configured <- x11, registering <- x12,
    worker <- x13, overlapped <- x14

\* Overrides of one device's metadata across two reloads.
Configuring == INSTANCE ManagerRouting WITH
    Processes <- {}, Actions <- {"set"}, Patterns <- {}, Values <- {0, 1},
    SocketMax <- 1, MaxRequests <- 3, MaxBase <- 3,
    socket <- x1, made <- x2, procs <- x3, routes <- x4, cache <- x5, check <- x6, driver <-
    x7, promised <- x8, meta <- x9, published <- x10, configured <- x11, registering <- x12,
    worker <- x13, overlapped <- x14

-----------------------------------------------------------------------------

\* The variables from the k-th on are unused.
Free(k) ==
    /\ IF k <= 1 THEN x1 = 0 /\ x2 = 0 /\ x3 = 0 /\ x4 = 0 /\ x5 = 0 /\ x6 = 0 ELSE TRUE
    /\ IF k <= 7 THEN x7 = 0 ELSE TRUE
    /\ IF k <= 8 THEN x8 = 0 ELSE TRUE
    /\ IF k <= 9 THEN x9 = 0 ELSE TRUE
    /\ IF k <= 10 THEN x10 = 0 ELSE TRUE
    /\ IF k <= 11 THEN x11 = 0 ELSE TRUE
    /\ IF k <= 12 THEN x12 = 0 ELSE TRUE
    /\ IF k <= 13 THEN x13 = 0 ELSE TRUE
    /\ IF k <= 14 THEN x14 = 0 ELSE TRUE
    /\ IF k <= 15 THEN x15 = 0 ELSE TRUE

sharedVars == <<x1, x2, x3, x4, x5, x6, x7, x8, x9, x10, x11, x12, x13, x14, x15>>

ServicesInit ==
    /\ Init
    /\ \/ part = "preflight" /\ Preflight!Init /\ Free(7)
       \/ part = "store" /\ Store!Init /\ Free(10)
       \/ part = "dispatch" /\ SetContexts!Init /\ Free(11)
       \/ part = "watchdog_confirm" /\ Confirming!Init /\ Free(11)
       \/ part = "watchdog_arm" /\ Arming!Init /\ Free(11)
       \/ part = "hub_forward" /\ Forwarding!Init /\ Free(13)
       \/ part = "hub_warm" /\ Warming!Init /\ Free(13)
       \/ part = "hub_relay" /\ Relaying!Init /\ Free(13)
       \/ part = "influx" /\ Influx!Init /\ Free(13)
       \/ part = "runner" /\ Runner!Init /\ Free(10)
       \/ part = "socket_raw" /\ Raw!Init /\ Free(10)
       \/ part = "socket_averaged" /\ Averaged!Init /\ Free(10)
       \/ part = "socket_workspace" /\ Shown!Init /\ Free(10)
       \/ part = "gateway_rpc" /\ Rpc!Init /\ Free(10)
       \/ part = "state_machine" /\ Machine!Init /\ Free(8)
       \/ part = "reconnect" /\ Reconnect!Init /\ Free(9)
       \/ part = "pump_cache" /\ Caching!Init /\ Free(15)
       \/ part = "pump_beat" /\ Beating!Init /\ Free(15)
       \/ part = "pump_stream" /\ Streaming!Init /\ Free(15)
       \/ part = "stack" /\ Free(1)
       \/ part = "routing" /\ Routing!Init /\ Free(15)
       \/ part = "device_config" /\ Configuring!Init /\ Free(15)

ServicesNext ==
    \/ part = "preflight" /\ Preflight!Next /\ UNCHANGED <<part, stackVars, x7, x8, x9, x10, x11, x12, x13, x14, x15>>
    \/ part = "store" /\ Store!Next /\ UNCHANGED <<part, stackVars, x10, x11, x12, x13, x14, x15>>
    \/ part = "dispatch" /\ SetContexts!Next /\ UNCHANGED <<part, stackVars, x11, x12, x13, x14, x15>>
    \/ part = "watchdog_confirm" /\ Confirming!Next /\ UNCHANGED <<part, stackVars, x11, x12, x13, x14, x15>>
    \/ part = "watchdog_arm" /\ Arming!Next /\ UNCHANGED <<part, stackVars, x11, x12, x13, x14, x15>>
    \/ part = "hub_forward" /\ Forwarding!Next /\ UNCHANGED <<part, stackVars, x13, x14, x15>>
    \/ part = "hub_warm" /\ Warming!Next /\ UNCHANGED <<part, stackVars, x13, x14, x15>>
    \/ part = "hub_relay" /\ Relaying!Next /\ UNCHANGED <<part, stackVars, x13, x14, x15>>
    \/ part = "influx" /\ Influx!Next /\ UNCHANGED <<part, stackVars, x13, x14, x15>>
    \/ part = "runner" /\ Runner!Next /\ UNCHANGED <<part, stackVars, x10, x11, x12, x13, x14, x15>>
    \/ part = "socket_raw" /\ Raw!Next /\ UNCHANGED <<part, stackVars, x10, x11, x12, x13, x14, x15>>
    \/ part = "socket_averaged" /\ Averaged!Next /\ UNCHANGED <<part, stackVars, x10, x11, x12, x13, x14, x15>>
    \/ part = "socket_workspace" /\ Shown!Next /\ UNCHANGED <<part, stackVars, x10, x11, x12, x13, x14, x15>>
    \/ part = "gateway_rpc" /\ Rpc!Next /\ UNCHANGED <<part, stackVars, x10, x11, x12, x13, x14, x15>>
    \/ part = "state_machine" /\ Machine!Next /\ UNCHANGED <<part, stackVars, x8, x9, x10, x11, x12, x13, x14, x15>>
    \/ part = "reconnect" /\ Reconnect!Next /\ UNCHANGED <<part, stackVars, x9, x10, x11, x12, x13, x14, x15>>
    \/ part = "pump_cache" /\ Caching!Next /\ UNCHANGED <<part, stackVars, x15>>
    \/ part = "pump_beat" /\ Beating!Next /\ UNCHANGED <<part, stackVars, x15>>
    \/ part = "pump_stream" /\ Streaming!Next /\ UNCHANGED <<part, stackVars, x15>>
    \/ part = "stack" /\ Next /\ UNCHANGED <<part, sharedVars>>
    \/ part = "routing" /\ Routing!Next /\ UNCHANGED <<part, stackVars, x15>>
    \/ part = "device_config" /\ Configuring!Next /\ UNCHANGED <<part, stackVars, x15>>

ServicesSpec == ServicesInit /\ [][ServicesNext]_<<part, stackVars, sharedVars>>

-----------------------------------------------------------------------------
(* Properties, one for each component *)


\* Sequence library: what was loaded is what runs, whatever was edited, saved or
\* reloaded since, and the snapshot of a run is the text it ran.
StoreSound == part = "store" => Store!SnapshotMatchesRun /\ Store!LoadedIsWhatRuns

\* set_context: the HDF writer knows how many frames to expect before a stream
\* may switch, and the step succeeds only when every stream acknowledged.
DispatchSound == part = "dispatch" => SetContexts!DispatchSound

\* Watchdog: a trip had its confirmations in distinct samples, a latched rule
\* trips once per clear, and each trip's chain of actions is accounted for.
WatchdogSound ==
    /\ part = "watchdog_confirm" => Confirming!TripConfirmed /\ Confirming!OneTripPerClear /\ Confirming!ChainAccounted
    /\ part = "watchdog_arm" => Arming!TripConfirmed /\ Arming!OneTripPerClear /\ Arming!ChainAccounted

\* Federation hub: a forwarded request is answered by its own reply although
\* sockets time out, metadata is that of its device if it came in time, and a
\* stale event of the peer never revives a mirror that is gone.
HubSound ==
    /\ part = "hub_forward" => Forwarding!ForwardAnswersOwn
    /\ part = "hub_warm" => Warming!CapabilitiesOwnIfInTime
    /\ part = "hub_relay" => Relaying!NoResurrection

\* Influx writer: every point received is queued, in a batch, written, or counted
\* as dropped, through overflow, failed posts, back-off and the switch.
PointsAccounted == part = "influx" => Influx!PointsAccounted

\* Driver runner: a failed action shows in the health until a good tick, no
\* handle is left behind by a failed connect, and the scheduled stream call keeps
\* its period however late a tick is.
RunnerSound ==
    part = "runner" => Runner!FailedActionIsVisible /\ Runner!NoHandleLeft /\ Runner!ScheduleExact

\* Web gateway: a frame is shown in its own context, a raw socket that has
\* nothing left to send has shown the last frame, a throttled workspace socket
\* defers the newest trace, an HTTP caller gets its own
\* reply, and none is left waiting when the RPC thread ends.
GatewaySound ==
    /\ part = "socket_raw" => Raw!ShownInItsContext /\ Raw!RawShowsTheLast
    /\ part = "socket_averaged" => Averaged!ShownInItsContext /\ Averaged!RawShowsTheLast
    /\ part = "socket_workspace" => Shown!DefersTheNewest
    /\ part = "gateway_rpc" => Rpc!ReplyIsOwn /\ Rpc!NoneStranded

\* State machine process: a planned path is a shortest walk of the graph, and an
\* operational error is still reported after a publication.
MachineSound == part = "state_machine" => Machine!PlanIsShortestWalk /\ Machine!OperationalErrorKept

\* Auto-reconnect: a claim on a recovery is always held by a task that is queued
\* or running, on every path of the worker, so that the next recovery can be made.
RecoveryOwned == part = "reconnect" => Reconnect!RecoveryOwned


\* Manager routing: a route's process exists, a command went through the chain
\* that was promised for it, and the published configuration is the current one.
RoutingSound ==
    /\ part = "routing" => Routing!RoutesHaveOwners /\ Routing!CommandPassedItsChain
    /\ part = "device_config" => Configuring!PublishedConfigCurrent
=============================================================================
