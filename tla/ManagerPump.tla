---------------------------- MODULE ManagerPump ----------------------------
(***************************************************************************)
(* The manager's ingest of what its drivers publish (driver_pub.py) and    *)
(* the rest of one iteration of its main loop (manager.py, pubsub.py).     *)
(*                                                                         *)
(* Heartbeats, telemetry bundles and chunk_ready descriptors of all the    *)
(* drivers arrive on one SUB socket.  An iteration reads a bounded number  *)
(* of them, descriptors first, stores them in caches of bounded size,      *)
(* serves one request, publishes what the lifecycle workers have queued,   *)
(* and only then decides which devices and which signals are stale; the    *)
(* clock goes on between its phases.  A request that calls a device waits  *)
(* for the reply with the same socket being read, and the descriptors of a *)
(* stream call come back in that reply too.                                *)
(***************************************************************************)
EXTENDS Integers, Sequences, FiniteSets, SequencesExt

CONSTANTS Devices,
          Bundles,       \* the sequences of signal names a bundle may carry
          MaxDevices,    \* _telemetry_cache_max_devices, _chunk_cache_max_devices
          MaxSignals,    \* _telemetry_cache_max_signals_per_device
          DrainCap,      \* MAX_DRAIN_PER_TICK
          EventQueueMax, \* capacity of _lifecycle_event_queue
          StaleAfter,    \* telemetry_stale_s
          BeatTimeout,   \* heartbeat_timeout_s
          MaxTime,       \* bound: ticks of the clock
          MaxSent,       \* bound: messages published by the drivers
          MaxRings,      \* bound: stream rings a driver creates, one per run
          MaxFrames,     \* bound: frames of a ring
          MaxCalls,      \* bound: device calls of the main loop
          MaxEvents      \* bound: events raised by lifecycle workers

VARIABLES clock,
          sub,      \* the SUB socket, oldest message first
          sent,     \* how many messages the drivers have published
          frames,   \* device -> <<ring, seq>> of the newest frame of its stream
          cache,    \* the caches of driver_pub, and the last heartbeats
          driver,   \* device -> the supervised state of its driver process
          liveness, \* device -> the liveness last published for it
          phase,    \* what the iteration does next
          call,     \* the device call under way and its reply, or NoCall
          calls,    \* device calls made
          relayed,  \* descriptors published as manager.chunk_ready, in order
          queued,   \* _lifecycle_event_queue, its counters and what became of its events
          reach,    \* ghost: device -> when this iteration polled or read a socket that had
                    \* a heartbeat of it among its first DrainCap messages, or Never
          judged    \* ghost: the last step was the check of the timeouts

pumpVars == <<clock, sub, sent, frames, cache, driver, liveness, phase, call, calls,
              relayed, queued, reach, judged>>
loopVars == <<phase, call, calls, reach>>
storeVars == <<cache, liveness, relayed, queued>>

Never == -1
Empty == [d \in {} |-> 0]
NoBeat == [at |-> Never, reachable |-> TRUE]
NoCall == [device |-> "none", answered |-> FALSE, reply |-> <<>>]

Init ==
    /\ clock = 0 /\ sub = <<>> /\ sent = 0 /\ calls = 0
    /\ frames = [d \in Devices |-> <<1, 0>>]
    /\ cache = [latest |-> Empty, order |-> <<>>, recv |-> Empty, chunk |-> Empty, chunkOrder |-> <<>>,
                beat |-> [d \in Devices |-> NoBeat]]
    /\ driver = [d \in Devices |-> [state |-> "RUNNING", since |-> 0]]
    /\ liveness = [d \in Devices |-> "none"]
    /\ phase = "poll" /\ call = NoCall /\ relayed = <<>>
    /\ queued = [waiting |-> <<>>, raised |-> 0, shown |-> <<>>, dropped |-> 0, reported |-> 0]
    /\ reach = [d \in Devices |-> Never] /\ judged = FALSE

---------------------------------------------------------------------------
(* The drivers, and the supervision of their processes.                    *)

Publish(messages) ==
    /\ sent + Len(messages) <= MaxSent
    /\ sent' = sent + Len(messages) /\ sub' = sub \o messages

(* The heartbeat tells whether the driver can reach its device. *)
Heartbeat(d, reachable) ==
    /\ driver[d].state = "RUNNING" /\ MaxTime > 0
    /\ Publish(<<[kind |-> "beat", device |-> d, reachable |-> reachable]>>)
    /\ judged' = FALSE /\ UNCHANGED <<clock, frames, driver, loopVars, storeVars>>

Bundle(d, names, quality) ==
    /\ driver[d].state = "RUNNING" /\ MaxTime > 0
    /\ Publish(<<[kind |-> "telemetry", device |-> d, names |-> names, quality |-> quality]>>)
    /\ judged' = FALSE /\ UNCHANGED <<clock, frames, driver, loopVars, storeVars>>

Descriptor(d, k) == [kind |-> "chunk", device |-> d, ring |-> frames[d][1], seq |-> frames[d][2] + k]

(* A frame of the schedule. *)
Stream(d) ==
    /\ frames[d][2] < MaxFrames
    /\ Publish(<<Descriptor(d, 1)>>)
    /\ frames' = [frames EXCEPT ![d][2] = @ + 1]
    /\ judged' = FALSE /\ UNCHANGED <<clock, driver, loopVars, storeVars>>

(* The driver serves the call: a stream call publishes its frames, and the *)
(* reply repeats their descriptors; another call has none.                 *)
DriverAnswers(n) ==
    LET d == call.device
    IN  /\ phase = "calling" /\ ~call.answered /\ driver[d].state = "RUNNING"
        /\ frames[d][2] + n <= MaxFrames
        /\ Publish([k \in 1..n |-> Descriptor(d, k)])
        /\ frames' = [frames EXCEPT ![d][2] = @ + n]
        /\ call' = [call EXCEPT !.answered = TRUE, !.reply = [k \in 1..n |-> Descriptor(d, k)]]
        /\ judged' = FALSE /\ UNCHANGED <<clock, driver, phase, calls, reach, storeVars>>

Tick ==
    /\ clock < MaxTime /\ clock' = clock + 1
    /\ judged' = FALSE /\ UNCHANGED <<sub, sent, frames, driver, loopVars, storeVars>>

(* A launch forgets the heartbeat of the driver's previous run. *)
Relaunch(d) ==
    /\ driver[d].state = "RUNNING" /\ frames[d][1] < MaxRings
    /\ driver' = [driver EXCEPT ![d] = [state |-> "STARTING", since |-> Never]]
    /\ cache' = [cache EXCEPT !.beat[d] = NoBeat]
    /\ frames' = [frames EXCEPT ![d] = <<@[1] + 1, 0>>]
    /\ judged' = FALSE /\ UNCHANGED <<clock, sub, sent, liveness, relayed, queued, loopVars>>

(* A registration is served before the SUB socket is read. *)
Register(d) ==
    /\ phase = "poll" /\ driver[d].state = "STARTING"
    /\ driver' = [driver EXCEPT ![d] = [state |-> "RUNNING", since |-> clock]]
    /\ judged' = FALSE /\ UNCHANGED <<clock, sub, sent, frames, loopVars, storeVars>>

---------------------------------------------------------------------------
(* The caches.                                                             *)

Without(f, key) == [x \in DOMAIN f \ {key} |-> f[x]]
With(f, key, value) == [x \in DOMAIN f \cup {key} |-> IF x = key THEN value ELSE f[x]]
Touched(order, key) == Append(SelectSeq(order, LAMBDA x : x # key), key)
Full(f, key) == key \notin DOMAIN f /\ Cardinality(DOMAIN f) >= MaxDevices

(* The least recently heard device makes room for a new one. *)
EvictOneDevice(c, d) ==
    IF Full(c.latest, d)
    THEN [c EXCEPT !.latest = Without(@, Head(c.order)), !.recv = Without(@, Head(c.order)), !.order = Tail(@)]
    ELSE c

TelemetrySlot(c, d) ==
    LET room == EvictOneDevice(c, d)
    IN  [room EXCEPT !.latest = IF d \in DOMAIN @ THEN @ ELSE With(@, d, <<>>), !.order = Touched(@, d)]

StoreSignal(signals, entry) ==
    LET others == SelectSeq(signals, LAMBDA s : s.name # entry.name)
        known == Len(others) < Len(signals)
    IN  IF ~known /\ Len(signals) >= MaxSignals THEN Append(Tail(signals), entry) ELSE Append(others, entry)

IngestTelemetry(c, m) ==
    LET slot == TelemetrySlot(c, m.device)
        entries == [i \in 1..Len(m.names) |-> [name |-> m.names[i], recv |-> clock, quality |-> m.quality]]
    IN  [slot EXCEPT !.latest[m.device] = FoldLeft(StoreSignal, @, entries),
                     !.recv = With(@, m.device, clock)]

(* The heartbeat is stored whatever run of the driver it comes from. *)
IngestHeartbeat(c, m) == [c EXCEPT !.beat[m.device] = [at |-> clock, reachable |-> m.reachable]]

SeenAlready(c, m) == m.device \in DOMAIN c.chunk /\ c.chunk[m.device].seq = m.seq

StoreChunk(c, m) ==
    LET room == IF Full(c.chunk, m.device)
                THEN [c EXCEPT !.chunk = Without(@, Head(c.chunkOrder)), !.chunkOrder = Tail(@)] ELSE c
    IN  [room EXCEPT !.chunk = With(@, m.device, m), !.chunkOrder = Touched(@, m.device)]

Handle(acc, m) ==
    CASE m.kind = "telemetry" -> [acc EXCEPT !.cache = IngestTelemetry(@, m)]
      [] m.kind = "beat" -> [acc EXCEPT !.cache = IngestHeartbeat(@, m)]
      [] m.kind = "chunk" -> IF SeenAlready(acc.cache, m) THEN acc
                             ELSE [cache |-> StoreChunk(acc.cache, m), relayed |-> Append(acc.relayed, m)]

Handled(messages) == FoldLeft(Handle, [cache |-> cache, relayed |-> relayed], messages)

---------------------------------------------------------------------------
(* A lifecycle worker raises an event.  A topic of the audit waits for     *)
(* room for a while before it is dropped too.                              *)

QueueEvent(q, e) ==
    IF Len(q.waiting) < EventQueueMax THEN [q EXCEPT !.waiting = Append(@, e)] ELSE [q EXCEPT !.dropped = @ + 1]

WorkerRaises ==
    /\ queued.raised < MaxEvents
    /\ queued' = [QueueEvent(queued, queued.raised + 1) EXCEPT !.raised = @ + 1]
    /\ judged' = FALSE
    /\ UNCHANGED <<clock, sub, sent, frames, driver, cache, liveness, relayed, loopVars>>

---------------------------------------------------------------------------
(* One iteration of the main loop.                                         *)

IsChunk(m) == m.kind = "chunk"
IterationEnv == judged' = FALSE /\ UNCHANGED <<clock, sent, frames, driver, liveness>>

(* The base cap, extended up to twice that while no descriptor turned up. *)
DrainCount ==
    LET base == Min({Len(sub), DrainCap})
        found == {i \in (DrainCap + 1)..Len(sub) : IsChunk(sub[i])}
    IN  IF \E i \in 1..base : IsChunk(sub[i]) THEN base
        ELSE Min({Len(sub), 2 * DrainCap} \cup found)

Prioritised(messages) == SelectSeq(messages, IsChunk) \o SelectSeq(messages, LAMBDA m : ~IsChunk(m))

InReach(d) == \E i \in 1..Min({Len(sub), DrainCap}) : sub[i].kind = "beat" /\ sub[i].device = d

(* handle_driver_pub *)
Drain ==
    LET handled == Handled(Prioritised(SubSeq(sub, 1, DrainCount)))
    IN  /\ sub' = SubSeq(sub, DrainCount + 1, Len(sub))
        /\ cache' = handled.cache /\ relayed' = handled.relayed
        /\ reach' = [d \in Devices |-> IF InReach(d) THEN clock ELSE reach[d]]

(* The socket is read if the poll found something on it. *)
Poll ==
    /\ phase = "poll"
    /\ phase' = IF sub # <<>> THEN "drain" ELSE "serve"
    /\ reach' = [d \in Devices |-> IF InReach(d) THEN clock ELSE Never]
    /\ IterationEnv /\ UNCHANGED <<sub, cache, relayed, call, calls, queued>>

HandleDriverPub ==
    /\ phase = "drain"
    /\ Drain
    /\ phase' = "serve"
    /\ IterationEnv /\ UNCHANGED <<call, calls, queued>>

(* The request is a call of a device, which the loop itself waits for.  A  *)
(* device that has not registered is not called.                           *)
CallDevice(d) ==
    /\ phase = "serve" /\ calls < MaxCalls /\ driver[d].state = "RUNNING"
    /\ call' = [NoCall EXCEPT !.device = d] /\ calls' = calls + 1
    /\ phase' = "calling"
    /\ IterationEnv /\ UNCHANGED <<sub, cache, relayed, queued, reach>>

(* _pump_manager_subscriptions reads the socket while the call is waiting. *)
PumpSubscriptions ==
    /\ phase = "calling" /\ sub # <<>>
    /\ Drain
    /\ IterationEnv /\ UNCHANGED <<phase, call, calls, queued>>

(* _ingest_stream_rpc_result takes the reply's descriptors as one more     *)
(* delivery of what the PUB socket brings.                                 *)
ReplyArrives ==
    /\ phase = "calling" /\ call.answered
    /\ cache' = Handled(call.reply).cache /\ relayed' = Handled(call.reply).relayed
    /\ call' = NoCall /\ phase' = "events"
    /\ IterationEnv /\ UNCHANGED <<sub, calls, queued, reach>>

(* The answer may come too late; no other request, or none, has an effect. *)
CallTimesOut ==
    /\ phase = "calling"
    /\ call' = NoCall /\ phase' = "events"
    /\ IterationEnv /\ UNCHANGED <<sub, cache, relayed, calls, queued, reach>>

NoDeviceCall ==
    /\ phase = "serve"
    /\ phase' = "events"
    /\ IterationEnv /\ UNCHANGED <<sub, cache, relayed, call, calls, queued, reach>>

(* What the workers queued is published, and what they dropped is logged. *)
DrainLifecycleEvents ==
    /\ phase = "events"
    /\ queued' = [queued EXCEPT !.shown = @ \o queued.waiting, !.waiting = <<>>,
                                !.reported = @ + queued.dropped, !.dropped = 0]
    /\ phase' = "timeouts"
    /\ IterationEnv /\ UNCHANGED <<sub, cache, relayed, call, calls, reach>>

MarkStale(c) ==
    LET marked(s) == IF clock - s.recv > StaleAfter THEN [s EXCEPT !.quality = "STALE"] ELSE s
    IN  [c EXCEPT !.latest = [d \in DOMAIN @ |-> [i \in DOMAIN @[d] |-> marked(@[d][i])]]]

BeatAge(d) ==
    LET beat == cache.beat[d].at
        ref == IF beat # Never /\ (driver[d].since = Never \/ beat >= driver[d].since)
               THEN beat ELSE driver[d].since
    IN  IF ref = Never THEN Never ELSE clock - ref

(* _update_device_liveness passes over a device it knows no age of. *)
UpdateLiveness(d) ==
    CASE BeatAge(d) = Never -> liveness[d]
      [] BeatAge(d) # Never /\ driver[d].state # "RUNNING" -> "OFFLINE"
      [] BeatAge(d) > BeatTimeout /\ driver[d].state = "RUNNING" -> "STALE"
      [] OTHER -> IF cache.beat[d].reachable THEN "ONLINE" ELSE "DISCONNECTED"


CheckTimeouts ==
    /\ phase = "timeouts"
    /\ liveness' = [d \in Devices |-> UpdateLiveness(d)]
    /\ cache' = MarkStale(cache)
    /\ phase' = "poll"
    /\ judged' = TRUE
    /\ UNCHANGED <<clock, sub, sent, frames, driver, relayed, queued, call, calls, reach>>

(* The answer of a status request computes the liveness on its own. *)
StatusLiveness(d) ==
    IF BeatAge(d) = Never \/ driver[d].state # "RUNNING" THEN "OFFLINE"
    ELSE IF BeatAge(d) > BeatTimeout THEN "STALE"
    ELSE IF cache.beat[d].at # Never /\ ~cache.beat[d].reachable THEN "DISCONNECTED" ELSE "ONLINE"

Next ==
    \/ Tick \/ WorkerRaises \/ (\E n \in {0, 2} : DriverAnswers(n))
    \/ Poll \/ HandleDriverPub \/ PumpSubscriptions \/ ReplyArrives \/ CallTimesOut
    \/ NoDeviceCall \/ DrainLifecycleEvents \/ CheckTimeouts
    \/ \E d \in Devices :
          \/ Stream(d) \/ CallDevice(d) \/ Relaunch(d) \/ Register(d)
          \/ \E reachable \in BOOLEAN : Heartbeat(d, reachable)
          \/ \E names \in Bundles, quality \in {"OK", "BAD"} : Bundle(d, names, quality)

Spec == Init /\ [][Next]_pumpVars

---------------------------------------------------------------------------
(* Properties.                                                             *)

(* The telemetry caches of driver_pub, which evict by device and by        *)
(* signal, stay one cache: the devices with signals, the order in which to *)
(* evict them and the receive times are of the same devices, within        *)
(* bounds.  And once the timeouts are checked, what it holds older than    *)
(* telemetry_stale_s is marked STALE, and nothing else is, however the     *)
(* signal got there, was refreshed or was moved by an eviction.            *)
TelemetryCacheSound ==
    /\ DOMAIN cache.latest = ToSet(cache.order) /\ DOMAIN cache.recv = DOMAIN cache.latest
    /\ Len(cache.order) <= MaxDevices /\ Len(cache.order) = Cardinality(ToSet(cache.order))
    /\ \A d \in DOMAIN cache.latest :
          /\ Len(cache.latest[d]) <= MaxSignals
          /\ \A i \in DOMAIN cache.latest[d] :
                judged => (cache.latest[d][i].quality = "STALE") = (clock - cache.latest[d][i].recv > StaleAfter)

(* An iteration does not declare a running device STALE if, no longer ago  *)
(* than heartbeat_timeout_s, it found a socket with a heartbeat of it      *)
(* among the first MAX_DRAIN_PER_TICK messages, however long it had waited *)
(* there (_pump_once checks timeouts after it has drained its sockets).  A *)
(* heartbeat behind more messages than that, or an iteration that blocks   *)
(* for longer after its read, may cost the device that.  And what a status *)
(* request would then be told agrees with what was published.              *)
HeardIsNotStale ==
    judged => \A d \in Devices :
                 /\ driver[d].state = "RUNNING" /\ reach[d] # Never /\ clock - reach[d] <= BeatTimeout
                       => liveness[d] # "STALE"
                 /\ BeatAge(d) # Never => liveness[d] = StatusLiveness(d)

(* Every descriptor of a driver's present run is relayed or still on the   *)
(* socket; the one exception is one that has the sequence number of        *)
(* another ring's descriptor (seq dedup in ingest_chunk_ready), whether    *)
(* that came from the socket or in the reply of a call.                    *)
SentDescriptors ==
    {[kind |-> "chunk", device |-> d, ring |-> r, seq |-> k] : d \in Devices, r \in 1..MaxRings, k \in 1..MaxFrames}
Published(x) == x.ring = frames[x.device][1] /\ x.seq <= frames[x.device][2]
DescriptorsAccounted ==
    \A x \in SentDescriptors :
        Published(x) => \/ x \in ToSet(sub) \cup ToSet(relayed)
                        \/ \E r \in 1..(x.ring - 1) : [x EXCEPT !.ring = r] \in ToSet(relayed)

(* The events that lifecycle workers raise are published in their order,   *)
(* each once, and every one that found the queue full is counted in the    *)
(* log of the next iteration.                                              *)
EventsAccounted ==
    LET kept == queued.shown \o queued.waiting
    IN  /\ \A i, j \in DOMAIN kept : i < j => kept[i] < kept[j]
        /\ queued.raised = Len(kept) + queued.dropped + queued.reported
=============================================================================
