---------------------------- MODULE ManagerRouting ----------------------------
(* The manager's own request routing: one poll loop takes the requests of the  *)
(* internal RPC socket one at a time, asks the registered command interceptors *)
(* before it passes a command to a driver, and keeps the processes' endpoints, *)
(* the interceptor routes with their cached chains, and the runtime metadata   *)
(* of a device, whose configuration it publishes.  A driver restart runs on a  *)
(* lifecycle worker beside the loop.                                           *)
EXTENDS Naturals, Sequences, FiniteSets

CONSTANTS
    Processes,      \* ids of processes that may be added and may register routes
    Actions,        \* actions of the one device
    Patterns,       \* what a route's action may be: an action or "*"
    Values,         \* values of a metadata key, 0 for an absent key
    SocketMax,      \* bound: requests waiting in the socket
    MaxRequests,    \* bound: requests of a behaviour
    MaxBase         \* bound: reloads of the device's YAML file

VARIABLES
    socket,         \* requests that wait in the manager's ROUTER socket
    made,           \* how many requests were sent
    procs,          \* per process: is it configured, its state, is its endpoint known
    routes,         \* the interceptor routes in order
    cache,          \* chain_cache: per action the set of its cached chain, or {}
    check,          \* the command whose chain is being asked, or NoCheck
    driver,         \* the device's driver: alive, its endpoint known, a registration
                    \* of its generation in the registry socket
    promised,       \* ghost: routes acknowledged and not given up since
    meta,           \* the runtime overrides, their revision and the YAML's value
    published,      \* the last manager.device_config event, or NoConfig
    configured,     \* handle.config_published
    registering,    \* what the loop still does of a registration: no, publish or assign
    worker,         \* the lifecycle worker in a restart: idle, or what it does next
    overlapped      \* ghost: a reload fell between a registration's publishing of the
                    \* configuration and its setting config_published

routingVars == <<socket, made, procs, routes, cache, check, driver, promised,
                 meta, published, configured, registering, worker, overlapped>>
processVars == <<procs, routes, cache, promised>>
deviceVars == <<driver, meta, published, configured, registering, worker, overlapped>>

NoCheck == [action |-> "none", chain |-> <<>>, asked |-> {}]
NoConfig == [device |-> 0, stream |-> 0, base |-> 0, revision |-> 0]
Removed == [known |-> FALSE, state |-> "STOPPED", endpoint |-> FALSE]

Kinds == {"advertise", "register", "register_bad", "replace", "unregister", "add", "remove", "start"}
ProcessRequests == [kind : Kinds, pid : Processes, pat : Patterns]
Scopes == {"all", "device", "stream"}
Commands == [kind : {"command"}, action : Actions]
Overrides ==
    [kind : {"set"}, scope : Scopes, value : Values] \cup [kind : {"clear"}, scope : Scopes]

Init ==
    /\ socket = <<>> /\ made = 0
    /\ procs = [p \in Processes |-> Removed]
    /\ routes = <<>> /\ cache = [a \in Actions |-> {}]
    /\ check = NoCheck /\ promised = {}
    /\ driver = [alive |-> FALSE, endpoint |-> FALSE, posted |-> FALSE]
    /\ meta = [device |-> 0, stream |-> 0, base |-> 1, revision |-> 0]
    /\ published = NoConfig /\ configured = FALSE
    /\ registering = "no" /\ worker = "idle" /\ overlapped = FALSE

\* A request arrives; the loop may be blocked in an interceptor call meanwhile.
Send(req) ==
    /\ made < MaxRequests /\ Len(socket) < SocketMax
    /\ socket' = Append(socket, req) /\ made' = made + 1
    /\ UNCHANGED <<processVars, deviceVars, check>>

\* The loop has no handler under way.
LoopFree == check = NoCheck /\ registering = "no"

\* _handle_internal_rpc takes one request when nothing else is under way.
Takes(kind) ==
    /\ LoopFree /\ socket # <<>> /\ Head(socket).kind = kind
    /\ socket' = Tail(socket)
    /\ UNCHANGED made
Req == Head(socket)

-------------------------------------------------------------------------------
(* Processes and their interceptor routes.                                     *)

\* manager.processes.add; a known id is an error.
AddProcess ==
    /\ Takes("add")
    /\ procs' = IF procs[Req.pid].known THEN procs
                ELSE [procs EXCEPT ![Req.pid] = [Removed EXCEPT !.known = TRUE, !.state = "RUNNING"]]
    /\ UNCHANGED <<routes, cache, promised, deviceVars, check>>

\* rpc.advertise of a process that is not configured is answered unknown_process.
Advertise ==
    /\ Takes("advertise")
    /\ procs' = IF procs[Req.pid].known THEN [procs EXCEPT ![Req.pid].endpoint = TRUE] ELSE procs
    /\ UNCHANGED <<routes, cache, promised, deviceVars, check>>

\* The child has gone; supervision clears the endpoint.  The routes stay, and
\* commands they match are rejected until the process is back.
ProcessExits(pid) ==
    /\ LoopFree /\ procs[pid].state = "RUNNING"
    /\ procs' = [procs EXCEPT ![pid].state = "STOPPED", ![pid].endpoint = FALSE]
    /\ UNCHANGED <<socket, made, routes, cache, promised, deviceVars, check>>

\* manager.processes.start; the new child has to advertise its endpoint again.
StartProcess ==
    /\ Takes("start")
    /\ procs' = IF procs[Req.pid].known /\ procs[Req.pid].state = "STOPPED"
                THEN [procs EXCEPT ![Req.pid].state = "RUNNING", ![Req.pid].endpoint = FALSE] ELSE procs
    /\ UNCHANGED <<routes, cache, promised, deviceVars, check>>

Invalidated == [a \in Actions |-> {}]
\* The routes at the given positions, in their order.
Kept(at) == [i \in 1..Cardinality(at) |-> routes[CHOOSE n \in at : Cardinality({m \in at : m <= n}) = i]]
Without(pid) == Kept({n \in DOMAIN routes : routes[n].pid # pid})
HasRoutes(pid) == Without(pid) # routes
Promises(pid) == {rt \in promised : rt.pid = pid}

\* Mutant: routes are taken from a process that is not configured.
RegisterAnyone(pid) == TRUE
MayRegister(pid) == procs[pid].known

\* Mutant: a registration leaves the cached chains alone.
CacheAfterRegisterKept == cache
CacheAfterRegister == Invalidated

\* InterceptorRouteState.register without replace: the route is appended.
Register ==
    /\ Takes("register")
    /\ IF MayRegister(Req.pid)
       THEN /\ routes' = Append(routes, [pid |-> Req.pid, pat |-> Req.pat])
            /\ cache' = CacheAfterRegister
            /\ promised' = promised \cup {[pid |-> Req.pid, pat |-> Req.pat]}
       ELSE UNCHANGED <<routes, cache, promised>>
    /\ UNCHANGED <<procs, deviceVars, check>>

\* replace drops the process's routes first.
Replace ==
    /\ Takes("replace")
    /\ IF MayRegister(Req.pid)
       THEN /\ routes' = Append(Without(Req.pid), [pid |-> Req.pid, pat |-> Req.pat])
            /\ cache' = CacheAfterRegister
            /\ promised' = (promised \ Promises(Req.pid)) \cup {[pid |-> Req.pid, pat |-> Req.pat]}
       ELSE UNCHANGED <<routes, cache, promised>>
    /\ UNCHANGED <<procs, deviceVars, check>>

\* A replacing registration whose second route is malformed raises half way: the
\* old routes are gone, the first new one is in, and the chains are invalidated
\* only if something was dropped.  The caller is told register_failed.
RegisterFails ==
    /\ Takes("register_bad")
    /\ IF MayRegister(Req.pid)
       THEN /\ routes' = Append(Without(Req.pid), [pid |-> Req.pid, pat |-> Req.pat])
            /\ cache' = IF HasRoutes(Req.pid) THEN Invalidated ELSE cache
            /\ promised' = promised \ Promises(Req.pid)
       ELSE UNCHANGED <<routes, cache, promised>>
    /\ UNCHANGED <<procs, deviceVars, check>>

Dropped(pid) ==
    /\ routes' = Without(pid)
    /\ cache' = IF HasRoutes(pid) THEN Invalidated ELSE cache
    /\ promised' = promised \ Promises(pid)

\* Unregistering is idempotent and does not ask whether the process is known.
Unregister ==
    /\ Takes("unregister")
    /\ Dropped(Req.pid)
    /\ UNCHANGED <<procs, deviceVars, check>>

\* A running or unknown process is refused.
RemoveProcess ==
    /\ Takes("remove")
    /\ IF procs[Req.pid].known /\ procs[Req.pid].state = "STOPPED"
       THEN Dropped(Req.pid) /\ procs' = [procs EXCEPT ![Req.pid] = Removed]
       ELSE UNCHANGED processVars
    /\ UNCHANGED <<deviceVars, check>>

-------------------------------------------------------------------------------
(* Commands.                                                                   *)

Matches(rt, action) == rt.pat \in {"*", action}
\* The processes with a matching route, each once, in the order of their first.
ComputedChain(action) ==
    LET matching == {n \in DOMAIN routes : Matches(routes[n], action)}
        first == {n \in matching : \A m \in matching : routes[m].pid = routes[n].pid => n <= m}
    IN  [i \in 1..Cardinality(first) |-> Kept(first)[i].pid]
Chain(action) == IF cache[action] # {} THEN CHOOSE c \in cache[action] : TRUE ELSE ComputedChain(action)

DriverUnavailable == ~driver.alive \/ ~driver.endpoint

\* Anything but capabilities, which may be cached, is refused when no driver runs.
RouteCommand ==
    /\ Takes("command")
    /\ IF Req.action # "capabilities" /\ DriverUnavailable
       THEN UNCHANGED <<check, cache>>
       ELSE /\ check' = [action |-> Req.action, chain |-> Chain(Req.action), asked |-> {}]
            /\ cache' = [cache EXCEPT ![Req.action] = {Chain(Req.action)}]
    /\ UNCHANGED <<procs, routes, promised, deviceVars>>

Asking == check # NoCheck /\ check.chain # <<>>
RouteAvailable(pid) == procs[pid].known /\ procs[pid].state = "RUNNING" /\ procs[pid].endpoint

\* The interceptor allows the command, perhaps with other parameters.
InterceptorAllows ==
    /\ Asking /\ RouteAvailable(Head(check.chain))
    /\ check' = [check EXCEPT !.chain = Tail(@), !.asked = @ \cup {Head(check.chain)}]
    /\ UNCHANGED <<socket, made, processVars, deviceVars>>

\* It is not available, does not answer in time, answers badly or rejects.
InterceptorRejects ==
    /\ Asking
    /\ check' = NoCheck
    /\ UNCHANGED <<socket, made, processVars, deviceVars>>

\* The chain has passed: the driver is called, which fails if a worker has stopped
\* it meanwhile, or cached capabilities are given; the answer ends the request.
PassOn ==
    /\ check # NoCheck /\ check.chain = <<>>
    /\ check' = NoCheck
    /\ UNCHANGED <<socket, made, processVars, deviceVars>>

-------------------------------------------------------------------------------
(* The device: registration, restart with reload, runtime metadata.            *)

Payload == meta

\* start_driver keeps the endpoint of the process before; a registration of that
\* one, still in the registry socket, is of another generation now and ignored.
DriverStarts ==
    /\ ~driver.alive /\ worker = "idle"
    /\ driver' = [driver EXCEPT !.alive = TRUE, !.posted = FALSE]
    /\ UNCHANGED <<socket, made, processVars, check, meta, published, configured, registering, worker, overlapped>>

\* The driver registers, again if the acknowledgement does not come in time.
DriverPosts ==
    /\ driver.alive /\ ~driver.posted
    /\ driver' = [driver EXCEPT !.posted = TRUE]
    /\ UNCHANGED <<socket, made, processVars, check, meta, published, configured, registering, worker, overlapped>>

DriverExits ==
    /\ driver.alive
    /\ driver' = [driver EXCEPT !.alive = FALSE]
    /\ UNCHANGED <<socket, made, processVars, check, meta, published, configured, registering, worker, overlapped>>

\* _handle_registry takes the endpoint, from a driver that may have gone, and looks
\* at config_published; the worker may run between this, the event and the flag.
DriverRegisters ==
    /\ LoopFree /\ driver.posted
    /\ driver' = [driver EXCEPT !.endpoint = TRUE, !.posted = FALSE]
    /\ registering' = IF configured THEN "no" ELSE "publish"
    /\ UNCHANGED <<socket, made, processVars, check, meta, published, configured, worker, overlapped>>

RegistrationPublishes ==
    /\ registering = "publish"
    /\ published' = Payload /\ overlapped' = FALSE
    /\ registering' = "assign"
    /\ UNCHANGED <<socket, made, processVars, check, driver, meta, configured, worker>>

RegistrationEnds ==
    /\ registering = "assign"
    /\ configured' = TRUE
    /\ registering' = "no"
    /\ UNCHANGED <<socket, made, processVars, check, driver, meta, published, worker, overlapped>>

\* restart_driver with reload_config, on a worker: stop_driver, which leaves a live
\* driver its endpoint, then the new spec, then config_published; the loop goes on
\* in between.
RestartStops ==
    /\ worker = "idle" /\ meta.base < MaxBase
    /\ driver' = IF driver.alive THEN driver ELSE [driver EXCEPT !.endpoint = FALSE]
    /\ worker' = "spec"
    /\ UNCHANGED <<socket, made, processVars, check, meta, published, configured, registering, overlapped>>

RestartReloads ==
    /\ worker = "spec"
    /\ meta' = [meta EXCEPT !.base = @ + 1]
    /\ overlapped' = (overlapped \/ registering = "assign")
    /\ worker' = "unpublish"
    /\ UNCHANGED <<socket, made, processVars, check, driver, published, configured, registering>>

\* Mutant: the reload does not clear config_published.
RestartEndsPublished ==
    /\ worker = "unpublish"
    /\ overlapped' = (overlapped /\ registering = "assign")
    /\ worker' = "idle"
    /\ UNCHANGED <<socket, made, processVars, check, driver, meta, published, configured, registering>>

RestartEnds ==
    /\ worker = "unpublish"
    /\ configured' = FALSE
    /\ overlapped' = (overlapped /\ registering = "assign")
    /\ worker' = "idle"
    /\ UNCHANGED <<socket, made, processVars, check, driver, meta, published, registering>>

\* A change of the overrides is numbered and published; no change is neither.
Changed(device, stream) ==
    IF device = meta.device /\ stream = meta.stream
    THEN UNCHANGED <<meta, published, overlapped>>
    ELSE /\ meta' = [meta EXCEPT !.device = device, !.stream = stream, !.revision = @ + 1]
         /\ published' = meta' /\ overlapped' = FALSE

In(scope, part) == scope \in {"all", part}
\* metadata.set: a part that is given is updated or replaced; null clears it.
MetadataSet ==
    /\ Takes("set")
    /\ Changed(IF In(Req.scope, "device") THEN Req.value ELSE meta.device,
               IF In(Req.scope, "stream") THEN Req.value ELSE meta.stream)
    /\ UNCHANGED <<processVars, check, driver, configured, registering, worker>>

MetadataClear ==
    /\ Takes("clear")
    /\ Changed(IF In(Req.scope, "device") THEN 0 ELSE meta.device,
               IF In(Req.scope, "stream") THEN 0 ELSE meta.stream)
    /\ UNCHANGED <<processVars, check, driver, configured, registering, worker>>

Next ==
    \/ \E req \in ProcessRequests : Send(req)
    \/ \E req \in Commands : Send(req)
    \/ \E req \in Overrides : Send(req)
    \/ AddProcess \/ StartProcess \/ Advertise \/ (\E pid \in Processes : ProcessExits(pid))
    \/ Register \/ Replace \/ RegisterFails \/ Unregister \/ RemoveProcess
    \/ RouteCommand \/ InterceptorAllows \/ InterceptorRejects \/ PassOn
    \/ DriverStarts \/ DriverPosts \/ DriverExits
    \/ DriverRegisters \/ RegistrationPublishes \/ RegistrationEnds
    \/ RestartStops \/ RestartReloads \/ RestartEnds
    \/ MetadataSet \/ MetadataClear

Spec == Init /\ [][Next]_routingVars

-------------------------------------------------------------------------------
(* Properties.                                                                 *)

\* Every route belongs to a configured process.  A route of a removed process
\* would reject every matching command of _route_command for ever, so a late
\* registration of a process that is being removed must not bring one back.
RoutesHaveOwners == \A n \in DOMAIN routes : procs[routes[n].pid].known

\* A command that _route_command is about to pass on has been allowed by every
\* process whose matching route is acknowledged, although the chain comes from a
\* cache and registrations may have failed half way.
CommandPassedItsChain ==
    check # NoCheck /\ check.chain = <<>> =>
        \A rt \in promised : Matches(rt, check.action) => rt.pid \in check.asked

\* Once config_published is set, the last manager.device_config event holds the
\* device's present YAML values and runtime overrides under their revision, across
\* restarts that reload the file on a worker and overrides set meanwhile.  The one
\* exception is a reload that falls between the two statements of _handle_registry
\* that publish the configuration and set config_published: that one is lost.
PublishedConfigCurrent ==
    configured /\ worker = "idle" /\ registering = "no" /\ ~overlapped => published = Payload
===============================================================================
