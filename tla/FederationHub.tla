--------------------------- MODULE FederationHub ----------------------------
(***************************************************************************)
(* The federation hub (federation/hub.py): the part of a manager that      *)
(* mirrors devices and processes of a peer.  Requests for a mirror go      *)
(* through its own worker thread and socket, metadata is fetched by a      *)
(* warm-up thread, and the peer's events are relayed and turned into a     *)
(* liveness of each mirror.  Messages carry no correlation id, replies may *)
(* be late or missing, and events may be lost.                             *)
(***************************************************************************)
EXTENDS Integers, Sequences, FiniteSets

CONSTANTS Devices,        \* mirrored devices
          Processes,      \* mirrored processes
          Allowed,        \* actions the peer's policy allows
          ForwardQueueMax,\* _FORWARD_QUEUE_MAX
          MaxRequests,    \* bound: requests for mirrors
          MaxFetches,     \* bound: metadata fetches
          MaxPid,         \* bound: generations of the peer's driver
          MaxEvents       \* bound: events of the peer

VARIABLES fwd,            \* mirror -> its _FederationForwardWorker
          requests,       \* the requests dispatched so far
          answers,        \* request -> what its client was answered
          closed,         \* close() has stopped the workers
          warm,           \* the warm-up thread
          warmResults,    \* _warmup_results
          mirror,         \* device -> MirroredDeviceRuntime
          cached,         \* _last_liveness
          published,      \* the last liveness published for the device
          wire,           \* events on their way from the peer
          owner,          \* the peer's driver of each device
          sent            \* number of events the peer has sent

hubVars == <<fwd, requests, answers, closed, warm, warmResults, mirror, cached, published, wire, owner, sent>>
forwardVars == <<fwd, requests, answers, closed>>
warmVars == <<warm, warmResults>>
relayVars == <<cached, published, wire, owner, sent>>

Mirrors == Devices \cup Processes
Actions == {"capabilities", "set", "lifecycle"}
Calls == <<"config", "schema", "process_schema">> \* the fixed calls of a fetch

NoSocket == [open |-> FALSE, inbox |-> <<>>, due |-> <<>>]
NewSocket == [open |-> TRUE, inbox |-> <<>>, due |-> <<>>]
FreshWorker == [queue |-> <<>>, req |-> 0, sock |-> NoSocket, running |-> TRUE]
NoFetch == [step |-> 0, due |-> <<>>, got |-> <<>>, late |-> FALSE]
FreshMirror == [hb |-> "none", hbPid |-> 0, hbFresh |-> FALSE, hbNewer |-> FALSE,
                said |-> "none", saidPid |-> 0, hardOver |-> FALSE, config |-> FALSE, caps |-> "none", capsLate |-> FALSE]
FreshOwner == [pid |-> 1, up |-> TRUE, hbPid |-> 0, says |-> "none"]

Init ==
    /\ fwd = [m \in Mirrors |-> FreshWorker]
    /\ requests = <<>> /\ answers = <<>> /\ closed = FALSE
    /\ warm = [fetch |-> NoFetch, fetches |-> 0, waiting |-> FALSE] /\ warmResults = <<>>
    /\ mirror = [d \in Devices |-> FreshMirror]
    /\ cached = [d \in Devices |-> "none"]
    /\ published = [d \in Devices |-> "none"]
    /\ wire = <<>> /\ owner = [d \in Devices |-> FreshOwner] /\ sent = 0

-----------------------------------------------------------------------------
(* Forwarding *)

Denied == <<"federation_acl_denied">>
NoWorker == <<"federation_forward_no_worker">>
Busy == <<"federation_forward_busy">>
PeerUnavailable == <<"peer_unavailable">>

Answer(r, what) == answers' = [answers EXCEPT ![r] = Append(@, what)]

\* allow_lifecycle_ops is off; process.capabilities is always allowed.
Permitted(m, action) ==
    action \in Allowed \/ (m \in Processes /\ action = "capabilities")

\* try_dispatch_device_forward and try_dispatch_process_forward.
Dispatch(m, action) ==
    LET verdict == CASE ~Permitted(m, action) -> <<Denied>>
                     [] closed -> <<NoWorker>>
                     [] Len(fwd[m].queue) >= ForwardQueueMax -> <<Busy>>
                     [] OTHER -> <<>>
    IN  /\ Len(requests) < MaxRequests
        /\ requests' = Append(requests, [mirror |-> m, action |-> action])
        /\ answers' = Append(answers, verdict)
        /\ fwd' = IF verdict = <<>> THEN [fwd EXCEPT ![m].queue = Append(@, Len(requests'))] ELSE fwd
        /\ UNCHANGED <<closed, warm, warmResults, mirror, relayVars>>

\* The worker takes a task and sends it; a socket is opened when there is none.
WorkerSends(m) ==
    /\ fwd[m].running /\ ~closed /\ fwd[m].req = 0 /\ fwd[m].queue # <<>>
    /\ LET sock == IF fwd[m].sock.open THEN fwd[m].sock ELSE NewSocket
           r == Head(fwd[m].queue)
       IN  fwd' = [fwd EXCEPT ![m] = [fwd[m] EXCEPT !.queue = Tail(@), !.req = r,
                                              !.sock = [sock EXCEPT !.due = Append(@, r)]]]
    /\ UNCHANGED <<requests, answers, closed, warmVars, mirror, relayVars>>

\* The peer answers the oldest request it still has, or loses it.
PeerReplies(m) ==
    /\ fwd[m].sock.due # <<>>
    /\ \E keep \in BOOLEAN :
          fwd' = [fwd EXCEPT ![m].sock =
                    [fwd[m].sock EXCEPT !.due = Tail(@), !.inbox = IF keep THEN Append(@, Head(fwd[m].sock.due)) ELSE @]]
    /\ UNCHANGED <<requests, answers, closed, warmVars, mirror, relayVars>>

ShowCapabilities(d, of) == [mirror EXCEPT ![d].caps = of, ![d].capsLate = FALSE]

\* _on_result with the reply at the head of the socket.  Capabilities are kept
\* if the reply is one of success and holds a record.
WorkerReceives(m) ==
    LET w == fwd[m]
        of == Head(w.sock.inbox)
    IN  /\ w.req # 0 /\ w.sock.inbox # <<>>
        /\ Answer(w.req, <<"reply", of>>)
        /\ \/ UNCHANGED mirror
           \/ /\ m \in Devices /\ requests[w.req].action = "capabilities"
              /\ mirror' = ShowCapabilities(m, requests[of].mirror)
        /\ fwd' = [fwd EXCEPT ![m] = [w EXCEPT !.req = 0, !.sock.inbox = Tail(@)]]
        /\ UNCHANGED <<requests, closed, warmVars, relayVars>>

\* Mutant: the socket is kept after a failure.
ForwardFailsKeepingSocket(m) ==
    /\ fwd[m].req # 0
    /\ Answer(fwd[m].req, PeerUnavailable)
    /\ fwd' = [fwd EXCEPT ![m].req = 0]
    /\ UNCHANGED <<requests, closed, warmVars, mirror, relayVars>>

\* The host does not resolve, no reply comes in time, or it is not a record:
\* the socket is closed with whatever is still due on it.
ForwardFails(m) ==
    /\ fwd[m].req # 0
    /\ Answer(fwd[m].req, PeerUnavailable)
    /\ fwd' = [fwd EXCEPT ![m] = [@ EXCEPT !.req = 0, !.sock = NoSocket]]
    /\ UNCHANGED <<requests, closed, warmVars, mirror, relayVars>>

\* federation.capabilities.update: a worker of the device router, which has a
\* socket of its own to the peer, passes on what the device answered.
UpdateCapabilities(d) ==
    /\ mirror' = ShowCapabilities(d, d)
    /\ UNCHANGED <<forwardVars, warmVars, relayVars>>

\* close(): every worker is told to stop, then waited for.
Close ==
    /\ ~closed
    /\ closed' = TRUE
    /\ UNCHANGED <<fwd, requests, answers, warmVars, mirror, relayVars>>

\* A worker told to stop ends after the task it has.
WorkerEnds(m) ==
    /\ closed /\ fwd[m].running /\ fwd[m].req = 0
    /\ fwd' = [fwd EXCEPT ![m] = [@ EXCEPT !.running = FALSE, !.sock = NoSocket]]
    /\ UNCHANGED <<requests, answers, closed, warmVars, mirror, relayVars>>

-----------------------------------------------------------------------------
(* Metadata *)

\* The calls of a fetch, in order: the lists, then the capabilities of each
\* device.
DeviceCalls == CHOOSE s \in [1..Cardinality(Devices) -> Devices] : \A d \in Devices : \E i \in DOMAIN s : s[i] = d
FetchCalls == Calls \o DeviceCalls

\* Mutant: the socket of the last fetch is used again.
StartFetchOnOldSocket ==
    /\ warm.fetch.step = 0 /\ ~warm.waiting /\ ~closed /\ warm.fetches < MaxFetches
    /\ warm' = [warm EXCEPT !.fetches = @ + 1,
                            !.fetch = [NoFetch EXCEPT !.step = 1, !.due = Append(warm.fetch.due, FetchCalls[1])]]
    /\ UNCHANGED <<forwardVars, warmResults, mirror, relayVars>>

\* _fetch_peer_metadata opens a socket of its own.
StartFetch ==
    /\ warm.fetch.step = 0 /\ ~warm.waiting /\ ~closed /\ warm.fetches < MaxFetches
    /\ warm' = [warm EXCEPT !.fetches = @ + 1,
                            !.fetch = [step |-> 1, due |-> <<FetchCalls[1]>>, got |-> <<>>, late |-> FALSE]]
    /\ UNCHANGED <<forwardVars, warmResults, mirror, relayVars>>

\* _dealer_rpc takes whatever comes first on the socket; after the last call
\* the fetch ends.
FetchNext(got, due, late) ==
    LET n == warm.fetch.step + 1
        lists == n > Len(Calls)
        failed == lists /\ (got[1] = "none" \/ got[2] = "none")
        ends == failed \/ n > Len(FetchCalls)
    IN  /\ warm' = [warm EXCEPT
                      !.waiting = ends,
                      !.fetch = [step |-> IF ends THEN 0 ELSE n, got |-> IF ends THEN <<>> ELSE got, late |-> late /\ ~ends,
                                 due |-> IF ends THEN due ELSE Append(due, FetchCalls[n])]]
        /\ warmResults' = IF ends THEN Append(warmResults, IF failed THEN <<>> ELSE <<[got |-> got, late |-> late]>>)
                          ELSE warmResults
        /\ UNCHANGED <<forwardVars, mirror, relayVars>>

FetchReceives ==
    /\ warm.fetch.step # 0 /\ warm.fetch.due # <<>>
    /\ FetchNext(Append(warm.fetch.got, Head(warm.fetch.due)), Tail(warm.fetch.due), warm.fetch.late)

\* No answer in time: it may still come later.
FetchTimesOut ==
    /\ warm.fetch.step # 0
    /\ \E due \in {warm.fetch.due, <<>>} : FetchNext(Append(warm.fetch.got, "none"), due, TRUE)

\* The back-off after a failure, or the refresh period, is over.
FetchAgain ==
    /\ warm.waiting
    /\ warm' = [warm EXCEPT !.waiting = FALSE]
    /\ UNCHANGED <<forwardVars, warmResults, mirror, relayVars>>

\* _apply_peer_metadata, for the results in turn: lists are checked for their
\* shape, capabilities only for being a record, and the last ones stay.
CallOf(d) == CHOOSE k \in DOMAIN FetchCalls : FetchCalls[k] = d
HasCaps(res, d) == res # <<>> /\ res[1].got[CallOf(d)] \notin {"none", "config"}
Applied(d, m, results) ==
    LET known == {n \in DOMAIN results : HasCaps(results[n], d)}
        res == results[CHOOSE n \in known : \A k \in known : k <= n][1]
    IN  [m EXCEPT !.config = @ \/ \E n \in DOMAIN results : results[n] # <<>> /\ results[n][1].got[1] = "config",
                  !.caps = IF known = {} THEN @ ELSE res.got[CallOf(d)],
                  !.capsLate = IF known = {} THEN @ ELSE res.late]

-----------------------------------------------------------------------------
(* Liveness of a mirrored device *)

\* _mirrored_device_liveness.  A device its owner called OFFLINE comes back
\* on a heartbeat only when that is from another process than the dead one.
ProvesRecovery(m) == m.said # "OFFLINE" \/ (m.saidPid # 0 /\ m.hbPid # m.saidPid)

\* Mutant: any newer heartbeat proves it.
DerivedAnyHeartbeat(m) ==
    CASE m.hbNewer /\ m.hbFresh -> m.hb
      [] m.said = "STALE" -> IF m.hardOver THEN "OFFLINE" ELSE "STALE"
      [] m.said = "OFFLINE" \/ ~m.hbFresh -> "OFFLINE"
      [] m.said \in {"ONLINE", "DISCONNECTED"} -> m.said
      [] OTHER -> m.hb

Derived(m) ==
    CASE m.hbNewer /\ m.hbFresh /\ ProvesRecovery(m) -> m.hb
      [] m.said = "STALE" -> IF m.hardOver THEN "OFFLINE" ELSE "STALE"
      [] m.said = "OFFLINE" \/ ~m.hbFresh -> "OFFLINE"
      [] m.said \in {"ONLINE", "DISCONNECTED"} -> m.said
      [] OTHER -> m.hb

\* check_timeouts: results of the warm-up thread are applied, and a liveness
\* that changed is published.
CheckTimeouts ==
    LET m1 == [d \in Devices |-> Applied(d, mirror[d], warmResults)]
    IN  /\ mirror' = m1
        /\ warmResults' = <<>>
        /\ cached' = [d \in Devices |-> Derived(m1[d])]
        /\ published' = [d \in Devices |-> IF cached[d] # Derived(m1[d]) THEN Derived(m1[d]) ELSE published[d]]
        /\ UNCHANGED <<forwardVars, warm, wire, owner, sent>>

\* event_stale_s passes without a heartbeat; heartbeat_hard_timeout_s passes.
HeartbeatAges(d) ==
    /\ mirror[d].hbFresh
    /\ mirror' = [mirror EXCEPT ![d].hbFresh = FALSE]
    /\ UNCHANGED <<forwardVars, warmVars, relayVars>>
HardTimeoutPasses(d) ==
    /\ mirror[d].said = "STALE" /\ ~mirror[d].hardOver
    /\ mirror' = [mirror EXCEPT ![d].hardOver = TRUE]
    /\ UNCHANGED <<forwardVars, warmVars, relayVars>>

\* _relay_event for a heartbeat and for a liveness event of the owner.
RelayHeartbeat(d, e) ==
    /\ mirror' = [mirror EXCEPT ![d] = [@ EXCEPT !.hb = e.says, !.hbPid = e.pid, !.hbFresh = TRUE, !.hbNewer = TRUE]]
    /\ UNCHANGED <<cached, published>>
RelayLiveness(d, e) ==
    /\ mirror' = [mirror EXCEPT ![d] = [@ EXCEPT !.said = e.says, !.saidPid = e.pid, !.hbNewer = FALSE, !.hardOver = FALSE]]
    /\ cached' = [cached EXCEPT ![d] = e.says]
    /\ published' = [published EXCEPT ![d] = e.says]

\* One event is drained from the peer's socket, or was lost on the way.
DrainPeerEvent ==
    LET d == Head(wire).device IN
    /\ wire # <<>> /\ ~closed
    /\ wire' = Tail(wire)
    /\ \/ Head(wire).topic = "heartbeat" /\ RelayHeartbeat(d, Head(wire))
       \/ Head(wire).topic = "liveness" /\ RelayLiveness(d, Head(wire))
       \/ UNCHANGED <<mirror, cached, published>>
    /\ UNCHANGED <<forwardVars, warmVars, owner, sent>>

-----------------------------------------------------------------------------
(* The peer: it relays its driver's heartbeats and publishes its liveness. *)

Send(d, topic, says, pid) ==
    /\ sent < MaxEvents
    /\ wire' = Append(wire, [device |-> d, topic |-> topic, says |-> says, pid |-> pid])
    /\ sent' = sent + 1
    /\ UNCHANGED <<forwardVars, warmVars, mirror, cached, published>>

\* A heartbeat of the running driver, or the last one of the dead driver, late.
OwnerHeartbeat(d, says) ==
    /\ owner[d].up \/ owner[d].hbPid = owner[d].pid
    /\ owner' = [owner EXCEPT ![d].hbPid = owner[d].pid]
    /\ Send(d, "heartbeat", says, owner[d].pid)
OwnerLiveness(d, says) ==
    /\ owner[d].says # says
    /\ owner[d].up <=> says # "OFFLINE"
    /\ owner' = [owner EXCEPT ![d].says = says]
    /\ Send(d, "liveness", says, owner[d].hbPid)
OwnerExits(d) ==
    /\ owner[d].up
    /\ owner' = [owner EXCEPT ![d].up = FALSE]
    /\ UNCHANGED <<forwardVars, warmVars, mirror, cached, published, wire, sent>>
OwnerRestarts(d) ==
    /\ ~owner[d].up /\ owner[d].pid < MaxPid
    /\ owner' = [owner EXCEPT ![d].up = TRUE, ![d].pid = @ + 1, ![d].hbPid = 0]
    /\ UNCHANGED <<forwardVars, warmVars, mirror, cached, published, wire, sent>>

Forwarding ==
    \/ \E m \in Mirrors : \/ \E a \in Actions : Dispatch(m, a)
                          \/ WorkerSends(m) \/ PeerReplies(m) \/ WorkerReceives(m)
                          \/ ForwardFails(m) \/ WorkerEnds(m)
    \/ Close
Warming == StartFetch \/ FetchReceives \/ FetchTimesOut \/ FetchAgain
Relaying == DrainPeerEvent \/ \E d \in Devices : HeartbeatAges(d) \/ HardTimeoutPasses(d)
Owner == \E d \in Devices :
    \/ \E says \in {"ONLINE", "DISCONNECTED"} : OwnerHeartbeat(d, says)
    \/ \E says \in {"ONLINE", "DISCONNECTED", "STALE", "OFFLINE"} : OwnerLiveness(d, says)
    \/ OwnerExits(d) \/ OwnerRestarts(d)

Next == Forwarding \/ (\E d \in Devices : UpdateCapabilities(d)) \/ Warming \/ CheckTimeouts \/ Relaying \/ Owner

Spec == Init /\ [][Next]_hubVars

-----------------------------------------------------------------------------
(* A forwarded request is answered at most once, and with the peer's       *)
(* answer to that very request: a reply that comes after the time-out      *)
(* never reaches the client of a later request (_forward closes the        *)
(* socket, because nothing in the messages correlates them).               *)
ForwardAnswersOwn ==
    \A r \in DOMAIN requests : answers[r] \in {<<>>, << <<"reply", r>> >>, <<PeerUnavailable>>, <<Denied>>, <<Busy>>, <<NoWorker>>}

(* A device whose owner declared it dead is shown alive again only on a    *)
(* heartbeat of a later incarnation or on the owner's word, although late  *)
(* heartbeats of the dead driver still arrive and the owner's word may be  *)
(* lost.                                                                   *)
NoResurrection ==
    \A d \in Devices : mirror[d].said = "OFFLINE" /\ published[d] \in {"ONLINE", "DISCONNECTED"}
                          => mirror[d].hbPid > mirror[d].saidPid

(* The capabilities shown for a mirror are those of its own device,        *)
(* provided no call of the metadata fetch they come from timed out.        *)
CapabilitiesOwnIfInTime ==
    \A d \in Devices : mirror[d].caps \in {"none", d} \/ mirror[d].capsLate

(* The capabilities shown for a mirror are those of its own device.        *)
CapabilitiesOwn == \A d \in Devices : mirror[d].caps \in {"none", d}
=============================================================================
