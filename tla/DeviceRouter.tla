---------------------------- MODULE DeviceRouter ----------------------------
(***************************************************************************)
(* The device router of processes/device_router.py: one poll loop that     *)
(* takes client requests, keeps the interceptor routes and the view of     *)
(* endpoints learnt from the manager's PUB socket, and hands each request  *)
(* to a worker thread of its own lane; the device worker asks every        *)
(* interceptor of the chain before it calls the driver.                    *)
(*                                                                         *)
(* A command is known by its id and its device/action key; its parameters  *)
(* are the number of transformations applied.  An endpoint is the number   *)
(* of the incarnation that bound it, 0 is none.  The interceptors are      *)
(* module Interlock.  The audit publisher, statistics and the per-worker   *)
(* socket caches are left out: no reply depends on them.                   *)
(***************************************************************************)
EXTENDS Integers, Sequences, FiniteSets, SequencesExt

CONSTANTS
    Commands,       \* device commands clients send
    Mirrored,       \* commands for a mirrored device of a federation peer
    ProcessRpcs,    \* manager.processes.rpc requests, addressed to TargetOf
    Interceptors,   \* the processes that register interceptor routes
    KeyOf,          \* the device/action key of each command
    PatternOf,      \* the key or "*" each interceptor's rule matches
    TargetOf,       \* the process each process RPC is for
    QueueMax,       \* queue_max of a worker
    InflightMax,    \* inflight_max
    Scenarios       \* bounds, one of which an instance picks: the requests sent, the
                    \* faults (router crashes, worker deaths, interceptor crashes),
                    \* and the incarnations of an interceptor and of the driver

Requests == Commands \cup Mirrored \cup ProcessRpcs
Lanes == {"device", "mirror", "process", "manager"}
None == "none"
NoMail == [box |-> <<>>, stale |-> FALSE]
Idle == [wait |-> "idle"]    \* no task in hand

VARIABLES
    up,         \* the router process runs
    routes,     \* _routes: sequence of [pid, pat], in order of registration
    cache,      \* _route_cache: per key, the set of the cached chain, or {}
    view,       \* _device_endpoints, _process_endpoints and _process_states
    sub,        \* manager events waiting in the router's SUB socket
    inflight,   \* _inflight_count
    queue,      \* per lane, the worker's task queue
    hand,       \* per lane, the task the worker works on, or Idle
    alive,      \* per lane, whether the worker thread runs
    replies,    \* _reply_queue
    status,     \* per request: "unused", "new", "held", "ok" or "failed" once answered, or "lost"
    ext,        \* registrations and advertisements sent to the router
    mail,       \* per interceptor, [box, stale]: the device worker's socket for it
                \* and whether the last call on it timed out
    inbox,      \* per interceptor, requests in its ROUTER socket
    live,       \* per interceptor, its incarnation, 0 when it is down
    driver,     \* [up, gen]: the driver process and its incarnation
    executed,   \* ghost: the calls the driver carried out
    chainOf,    \* ghost: the chain each command was given
    leaked,     \* ghost: reservations of requests whose worker died
    limit,      \* the scenario
    faults      \* what is left of its faults

table == <<routes, cache>>
workers == <<inflight, queue, hand, alive, replies, leaked>>
device == <<driver, executed>>
routerVars == <<up, table, view, sub, workers, status, ext, mail, inbox, live,
                device, chainOf, limit, faults>>

-----------------------------------------------------------------------------
(* Interceptor routes *)

Matches(route, key) == route.pat \in {"*", key}

CacheCleared == [k \in DOMAIN cache |-> {}]

(* The elements of s at the positions of I, in their order.  (SelectSeq as    *)
(* a set of positions: what it keeps can be reasoned about.)                  *)
Subsequence(s, I) ==
    LET place == CHOOSE f \in [1 .. Cardinality(I) -> I] :
                    \A m, n \in 1 .. Cardinality(I) : m < n => f[m] < f[n]
    IN  [n \in 1 .. Cardinality(I) |-> s[place[n]]]

(* The processes whose routes match, each once, in order of registration. *)
Hits(key) == {n \in DOMAIN routes : Matches(routes[n], key)}
FirstHits(key) == {n \in Hits(key) : \A m \in Hits(key) : m < n => routes[m].pid # routes[n].pid}
ChainFor(key) == Subsequence([n \in DOMAIN routes |-> routes[n].pid], FirstHits(key))

CommandInterceptorChain(key) == IF cache[key] # {} THEN CHOOSE c \in cache[key] : TRUE ELSE ChainFor(key)

Without(pid) == Subsequence(routes, {n \in DOMAIN routes : routes[n].pid # pid})

\* Mutant: a registration replaces the routes and leaves the cached chains
RegisterKeepsCache(pid, pats) ==
    /\ routes' = Without(pid) \o [n \in DOMAIN pats |-> [pid |-> pid, pat |-> pats[n]]]
    /\ UNCHANGED cache

(* manager.interceptors.register with replace, as the interlock sends it. *)
RegisterRoutes(pid, pats) ==
    /\ routes' = Without(pid) \o [n \in DOMAIN pats |-> [pid |-> pid, pat |-> pats[n]]]
    /\ cache' = CacheCleared

DropRoutes(pid) ==
    /\ routes' = Without(pid)
    /\ cache' = IF Without(pid) # routes THEN CacheCleared ELSE cache

-----------------------------------------------------------------------------
(* The view of the manager's events *)

NoView == [device |-> 0,
           process |-> [i \in Interceptors |-> 0],
           state |-> [i \in Interceptors |-> None]]

Event(topic, pid, ep) == [topic |-> topic, pid |-> pid, ep |-> ep]

(* The two SUBSCRIBE prefixes are manager.driver_ and manager.process.; the *)
(* manager.driver.* topics the handler also knows never arrive.             *)
Subscribed(e) == e.topic # "manager.driver.stopped"

Publish(events) ==
    sub' = IF up THEN sub \o SelectSeq(events, Subscribed) ELSE sub

HandleManagerTopic(v, e) ==
    CASE e.topic = "manager.driver_registered" -> [v EXCEPT !.device = e.ep]
      [] e.topic = "manager.driver.stopped" -> [v EXCEPT !.device = 0]
      [] e.topic = "manager.process.rpc_update" -> [v EXCEPT !.process[e.pid] = e.ep]
      [] e.topic = "manager.process.exited" ->
            [v EXCEPT !.process[e.pid] = 0, !.state[e.pid] = "EXITED"]
      [] e.topic = "manager.process.running" -> [v EXCEPT !.state[e.pid] = "RUNNING"]

HandleManagerPub ==
    /\ up /\ sub # <<>>
    /\ view' = FoldLeft(HandleManagerTopic, view, sub)
    /\ sub' = <<>>
    /\ UNCHANGED <<up, table, workers, status, ext, mail, inbox, live, device, chainOf, limit, faults>>

-----------------------------------------------------------------------------
(* Requests and replies *)

(* The router answers with an error in its own loop, without a worker. *)
Reject(r) == status' = [status EXCEPT ![r] = "failed"]

Taken(task) == [task |-> task, at |-> 1, params |-> 0, wait |-> None]

(* An idle worker, or a new one, takes the task at once; a busy one queues it. *)
Accept(r, lane, task) ==
    /\ inflight' = inflight + 1
    /\ alive' = [alive EXCEPT ![lane] = TRUE]
    /\ IF hand[lane] = Idle
       THEN hand' = [hand EXCEPT ![lane] = Taken(task)] /\ UNCHANGED queue
       ELSE queue' = [queue EXCEPT ![lane] = Append(@, task)] /\ UNCHANGED hand
    /\ status' = [status EXCEPT ![r] = "held"]
    /\ UNCHANGED <<replies, leaked>>

QueueFull(lane) == Len(queue[lane]) >= QueueMax

\* Mutant: the reservation is made before the limit is looked at
SubmitReservesFirst(r, lane, task) ==
    IF inflight >= InflightMax \/ QueueFull(lane)
    THEN /\ Reject(r)
         /\ inflight' = inflight + 1
         /\ UNCHANGED <<queue, hand, alive, replies, leaked>>
    ELSE Accept(r, lane, task)

(* Reserve, make sure the lane's worker runs, put the task on its queue; a  *)
(* full queue gives the reservation back.                                   *)
SubmitWithInflight(r, lane, task) ==
    IF inflight >= InflightMax \/ QueueFull(lane)
    THEN Reject(r) /\ UNCHANGED workers
    ELSE Accept(r, lane, task)

Task(r, ep, chain, eps) == [req |-> r, ep |-> ep, chain |-> chain, eps |-> eps]

AllowedStates == {None, "STARTING", "RUNNING", "STOPPING"}

(* The endpoint a chain member is called at, 0 when its route is unavailable. *)
RouteEndpoint(i) == IF view.state[i] \in AllowedStates THEN view.process[i] ELSE 0

(* A device command: the chain and every endpoint are read now and travel    *)
(* with the task.                                                            *)
DispatchDeviceCommand(c) ==
    /\ up /\ c \in Commands /\ status[c] = "new"
    /\ LET chain == CommandInterceptorChain(KeyOf[c]) IN
       /\ SubmitWithInflight(c, "device",
              Task(c, view.device, chain, [i \in Interceptors |-> RouteEndpoint(i)]))
       /\ chainOf' = [chainOf EXCEPT ![c] = chain]
       /\ cache' = [cache EXCEPT ![KeyOf[c]] = {chain}]
    /\ UNCHANGED <<up, routes, view, sub, ext, mail, inbox, live, device, limit, faults>>

(* A mirrored command is not passed on twice and must be allowed by the      *)
(* route's patterns; then it goes to the peer's worker.                      *)
DispatchMirroredCommand(m) ==
    /\ up /\ m \in Mirrored /\ status[m] = "new"
    /\ \/ /\ Reject(m)
          /\ UNCHANGED workers
       \/ SubmitWithInflight(m, "mirror", Task(m, 1, <<>>, <<>>))
    /\ UNCHANGED <<up, table, view, sub, ext, mail, inbox, live, device, chainOf, limit, faults>>

(* A process RPC goes to the process's worker when its endpoint is known and *)
(* to the manager otherwise.                                                 *)
DispatchProcessRpc(p) ==
    /\ up /\ p \in ProcessRpcs /\ status[p] = "new"
    /\ LET ep == view.process[TargetOf[p]] IN
       SubmitWithInflight(p, IF ep # 0 THEN "process" ELSE "manager", Task(p, ep, <<>>, <<>>))
    /\ UNCHANGED <<up, table, view, sub, ext, mail, inbox, live, device, chainOf, limit, faults>>

(* Registrations and advertisements are handled in the loop itself; the      *)
(* manager hears of an advertisement and announces the endpoint.  The reply  *)
(* reaches the caller when Interlock says so (Answered there).               *)
HandleCommandInterceptor(m) ==
    /\ up /\ ext # <<>> /\ m = Head(ext)
    /\ ext' = Tail(ext)
    /\ CASE m.kind = "advertise" ->
              /\ view' = [view EXCEPT !.process[m.pid] = m.inc]
              /\ sub' = sub \o <<Event("manager.process.rpc_update", m.pid, m.inc)>>
              /\ UNCHANGED table
         [] m.kind = "register" -> RegisterRoutes(m.pid, m.pats) /\ UNCHANGED <<view, sub>>
         [] m.kind = "unregister" -> DropRoutes(m.pid) /\ UNCHANGED <<view, sub>>
    /\ UNCHANGED <<up, workers, status, mail, inbox, live, device, chainOf, limit, faults>>

DrainReplies ==
    /\ up /\ replies # <<>>
    /\ status' = [r \in Requests |->
                    IF \E x \in ToSet(replies) : x.req = r
                    THEN (CHOOSE x \in ToSet(replies) : x.req = r).code
                    ELSE status[r]]
    /\ inflight' = inflight - Len(replies)
    /\ replies' = <<>>
    /\ UNCHANGED <<up, table, view, sub, queue, hand, alive, leaked, ext, mail, inbox,
                   live, device, chainOf, limit, faults>>

-----------------------------------------------------------------------------
(* Workers *)

Working(lane) == alive[lane] /\ hand[lane] # Idle

(* The reply of the task in hand goes to the reply queue, and the worker     *)
(* takes the next task.                                                      *)
Finish(lane, code) ==
    /\ replies' = Append(replies, [req |-> hand[lane].task.req, code |-> code])
    /\ IF queue[lane] = <<>>
       THEN hand' = [hand EXCEPT ![lane] = Idle] /\ UNCHANGED queue
       ELSE hand' = [hand EXCEPT ![lane] = Taken(Head(queue[lane]))]
            /\ queue' = [queue EXCEPT ![lane] = Tail(@)]
    /\ UNCHANGED <<inflight, alive, leaked>>

Held(lane) == hand[lane].task

(* The chain member whose turn it is. *)
Turn == Held("device").chain[hand["device"].at]

InChain == hand["device"].at <= Len(Held("device").chain)

DriverUnavailable ==
    /\ Working("device") /\ hand["device"].wait = None
    /\ Held("device").ep = 0
    /\ Finish("device", "failed") \* driver_not_running
    /\ UNCHANGED <<up, table, view, sub, status, ext, mail, inbox, live, device, chainOf, limit, faults>>

InterceptorUnavailable ==
    /\ Working("device") /\ hand["device"].wait = None
    /\ Held("device").ep # 0 /\ InChain /\ Held("device").eps[Turn] = 0
    /\ Finish("device", "failed") \* INTERCEPTOR_UNAVAILABLE
    /\ UNCHANGED <<up, table, view, sub, status, ext, mail, inbox, live, device, chainOf, limit, faults>>

(* A socket is kept per endpoint, and drained after a call that timed out. *)
Reused(m, ep) ==
    [box |-> IF m.stale THEN <<>> ELSE Subsequence(m.box, {n \in DOMAIN m.box : m.box[n].inc = ep}),
     stale |-> FALSE]

(* The check is sent; it reaches the process only if that incarnation still  *)
(* runs.                                                                     *)
CallInterceptor ==
    /\ Working("device") /\ hand["device"].wait = None
    /\ Held("device").ep # 0 /\ InChain
    /\ LET ep == Held("device").eps[Turn] IN
       /\ ep # 0
       /\ inbox' = IF live[Turn] = ep
                   THEN [inbox EXCEPT ![Turn] = Append(@, [kind |-> "check", req |-> Held("device").req])]
                   ELSE inbox
       /\ mail' = [mail EXCEPT ![Turn] = Reused(@, ep)]
       /\ hand' = [hand EXCEPT !["device"].wait = Turn]
    /\ UNCHANGED <<up, table, view, sub, inflight, queue, alive, replies, leaked, status,
                   ext, live, device, chainOf, limit, faults>>

\* Mutant: the first reply in the socket is taken for the answer
AnyReply(m) == TRUE

(* A reply is for this call when it carries the call's request_id. *)
Correlated(m) == m.req = Held("device").req

(* Only an explicit allow lets the command pass; a transformation replaces *)
(* its parameters and nothing else.                                        *)
LetsPass(m) == m.verdict \in {"allow", "transform"}
NewParams(m, params) == IF m.verdict = "transform" THEN params + 1 ELSE params

(* A stale reply is skipped; the decision lets the command on, rewrites its *)
(* parameters, or ends it.                                                  *)
ReceiveDecision ==
    /\ Working("device") /\ hand["device"].wait \in Interceptors
    /\ LET i == hand["device"].wait IN
       /\ mail[i].box # <<>>
       /\ mail' = [mail EXCEPT ![i].box = Tail(@)]
       /\ IF ~Correlated(Head(mail[i].box))
          THEN UNCHANGED workers
          ELSE IF LetsPass(Head(mail[i].box))
          THEN /\ hand' = [hand EXCEPT !["device"].wait = None, !["device"].at = @ + 1,
                              !["device"].params = NewParams(Head(mail[i].box), @)]
               /\ UNCHANGED <<inflight, queue, alive, replies, leaked>>
          ELSE Finish("device", "failed") \* INTERCEPTOR_REJECTED
    /\ UNCHANGED <<up, table, view, sub, status, ext, inbox, live, device, chainOf, limit, faults>>

(* A silent interceptor fails the command: the chain is closed. *)
InterceptorTimeout ==
    /\ Working("device") /\ hand["device"].wait \in Interceptors
    /\ Finish("device", "failed") \* INTERCEPTOR_TIMEOUT
    /\ mail' = [mail EXCEPT ![hand["device"].wait].stale = TRUE]
    /\ UNCHANGED <<up, table, view, sub, status, ext, inbox, live, device, chainOf, limit, faults>>

(* The call to the driver, with the parameters the chain left.  A call that  *)
(* times out may have been carried out all the same.                         *)
CallDevice ==
    /\ Working("device") /\ hand["device"].wait = None
    /\ Held("device").ep # 0 /\ ~InChain
    /\ LET reached == driver.up /\ driver.gen = Held("device").ep
           x == [req |-> Held("device").req, params |-> hand["device"].params]
       IN \/ reached /\ executed' = executed \cup {x} /\ Finish("device", "ok")
          \/ reached /\ executed' = executed \cup {x} /\ Finish("device", "failed")
          \/ UNCHANGED executed /\ Finish("device", "failed")
    /\ UNCHANGED <<up, table, view, sub, status, ext, mail, inbox, live, driver, chainOf, limit, faults>>

(* The other lanes make one bounded call each: the peer's router and the    *)
(* manager answer or time out.                                              *)
Forward(lane) ==
    /\ lane \in {"mirror", "manager"} /\ Working(lane)
    /\ \E code \in {"ok", "failed"} : Finish(lane, code)
    /\ UNCHANGED <<up, table, view, sub, status, ext, mail, inbox, live, device, chainOf, limit, faults>>

CallProcess ==
    /\ Working("process") /\ hand["process"].wait = None
    /\ LET i == TargetOf[Held("process").req] IN
       inbox' = IF live[i] = Held("process").ep
                THEN [inbox EXCEPT ![i] = Append(@, [kind |-> "rpc", req |-> Held("process").req])]
                ELSE inbox
    /\ hand' = [hand EXCEPT !["process"].wait = TargetOf[Held("process").req]]
    /\ UNCHANGED <<up, table, view, sub, inflight, queue, alive, replies, leaked, status,
                   ext, mail, live, device, chainOf, limit, faults>>

(* The process answered: the worker still waiting for it replies. *)
ProcessAnswers(r, code) ==
    IF Working("process") /\ hand["process"].wait # None /\ Held("process").req = r
    THEN Finish("process", code)
    ELSE UNCHANGED workers

ProcessTimeout ==
    /\ Working("process") /\ hand["process"].wait # None
    /\ Finish("process", "failed")
    /\ UNCHANGED <<up, table, view, sub, status, ext, mail, inbox, live, device, chainOf, limit, faults>>

-----------------------------------------------------------------------------
(* Faults *)

ReqsOf(lane) == {queue[lane][n].req : n \in DOMAIN queue[lane]}
                    \cup (IF hand[lane] = Idle THEN {} ELSE {Held(lane).req})

(* An exception that escapes a worker's loop ends the thread: what it held   *)
(* and what was queued is never answered, and the reservations stay.         *)
WorkerDies(lane) ==
    /\ faults > 0 /\ faults' = faults - 1
    /\ Working(lane)
    /\ status' = [r \in Requests |-> IF r \in ReqsOf(lane) THEN "lost" ELSE status[r]]
    /\ leaked' = leaked + Cardinality(ReqsOf(lane))
    /\ alive' = [alive EXCEPT ![lane] = FALSE]
    /\ hand' = [hand EXCEPT ![lane] = Idle]
    /\ queue' = [queue EXCEPT ![lane] = <<>>]
    /\ mail' = IF lane = "device" THEN [i \in Interceptors |-> NoMail] ELSE mail
    /\ UNCHANGED <<up, table, view, sub, inflight, replies, ext, inbox, live,
                   device, chainOf, limit>>

RouterCrash ==
    /\ up /\ faults > 0 /\ faults' = faults - 1
    /\ up' = FALSE
    /\ routes' = <<>> /\ cache' = CacheCleared
    /\ view' = NoView /\ sub' = <<>> /\ ext' = <<>>
    /\ inflight' = 0 /\ replies' = <<>> /\ leaked' = 0
    /\ queue' = [lane \in Lanes |-> <<>>]
    /\ hand' = [lane \in Lanes |-> Idle]
    /\ alive' = [lane \in Lanes |-> FALSE]
    /\ mail' = [i \in Interceptors |-> NoMail]
    /\ status' = [r \in Requests |-> IF status[r] = "held" THEN "lost" ELSE status[r]]
    /\ UNCHANGED <<inbox, live, device, chainOf, limit>>

(* The manager restarts the router; nothing tells it of routes or endpoints *)
(* registered before.                                                       *)
RouterRestart ==
    /\ ~up /\ up' = TRUE
    /\ UNCHANGED <<table, view, sub, workers, status, ext, mail, inbox, live, device, chainOf, limit, faults>>

(* A driver stops and starts again under supervision (DriverLifecycle). *)
DriverStops ==
    /\ driver.up /\ driver.gen < limit.drivers
    /\ driver' = [driver EXCEPT !.up = FALSE]
    /\ Publish(<<Event("manager.driver.stopped", None, 0)>>)
    /\ UNCHANGED <<up, table, view, workers, status, ext, mail, inbox, live, executed,
                   chainOf, limit, faults>>

DriverRegisters ==
    /\ ~driver.up
    /\ driver' = [up |-> TRUE, gen |-> driver.gen + 1]
    /\ Publish(<<Event("manager.driver_registered", None, driver.gen + 1)>>)
    /\ UNCHANGED <<up, table, view, workers, status, ext, mail, inbox, live, executed,
                   chainOf, limit, faults>>
=============================================================================
