----------------------------- MODULE GatewayRpc -----------------------------
(***************************************************************************)
(* The request side of the FastAPI gateway: RouterRpcClient                *)
(* (fastapi/gateway.py), which multiplexes the requests of all HTTP        *)
(* handlers over one DEALER socket in a thread of its own, and the         *)
(* handlers that need more than one request to answer (fastapi/app.py).    *)
(* Handlers run on the event loop, the client's worker beside it.          *)
(***************************************************************************)
EXTENDS Integers, Sequences, FiniteSets

CONSTANTS Callers,      \* HTTP requests being handled
          Reusing,      \* callers whose client supplies its own, equal, request_id
          RpcQueueMax,  \* rpc_queue_max
          MaxRequests   \* bound: router requests made

VARIABLES caller,     \* each handler: its kind, its step, the future it awaits and what that holds
          submitted,  \* _queue
          pending,    \* request_id -> future, in the worker
          router,     \* requests the router has that came from the present socket
          worker,     \* "run" or "ended"
          stopping,   \* _stop
          thread,     \* _thread: "started" or "none"
          closing,    \* the event loop is inside close(), waiting for the thread
          made        \* requests made so far

rpcVars == <<caller, submitted, pending, router, worker, stopping, thread, closing, made>>

Kinds == {"call", "capabilities", "process", "cached"}
Idle == [kind |-> "call", step |-> "idle", fut |-> 0, answer |-> "none", of |-> 0]

Init ==
    /\ caller = [c \in Callers |-> Idle] /\ submitted = <<>> /\ pending = <<>>
    /\ router = {} /\ worker = "run" /\ stopping = FALSE
    /\ thread = "started" /\ closing = FALSE /\ made = 0

\* A future is open while its handler awaits it.
Open(t) == {c \in Callers : caller[c].fut = t /\ caller[c].step # "idle" /\ caller[c].answer = "none"}
\* _set_future_result, for all futures in T: what they hold, and whose reply it is.
Resolved(T, what, of) ==
    [c \in Callers |-> IF \E t \in T : c \in Open(t) THEN [caller[c] EXCEPT !.answer = what, !.of = of] ELSE caller[c]]

-----------------------------------------------------------------------------
(* The event loop *)

RequestId(c, t) == IF c \in Reusing THEN 0 ELSE t

\* RouterRpcClient.request, up to its await.
Request(c, st) ==
    IF worker = "ended"
    THEN /\ caller' = [caller EXCEPT ![c] = Idle]
         /\ UNCHANGED <<submitted, made>>
    ELSE IF Len(submitted) >= RpcQueueMax
    THEN /\ caller' = [caller EXCEPT ![c] = [st EXCEPT !.answer = "gateway_busy", !.of = 0]]
         /\ UNCHANGED <<submitted, made>>
    ELSE /\ made < MaxRequests
         /\ made' = made + 1
         /\ submitted' = Append(submitted, [fut |-> made + 1, id |-> RequestId(c, made + 1)])
         /\ caller' = [caller EXCEPT ![c] = [st EXCEPT !.fut = made + 1, !.answer = "none", !.of = 0]]

\* A handler begins: one routed request (_route_request, device_call), device
\* capabilities, or a process RPC that first looks the process up.
Begin(c, kind) ==
    /\ ~closing /\ caller[c].step = "idle"
    /\ Request(c, [Idle EXCEPT !.kind = kind, !.step = IF kind \in {"process", "cached"} THEN "lookup" ELSE "main"])
    /\ UNCHANGED <<pending, router, worker, stopping, thread, closing>>

\* asyncio.wait_for of request(): the safety net fires and cancels the future.
SafetyNet(c) ==
    /\ ~closing /\ caller[c].step # "idle" /\ caller[c].answer = "none"
    /\ caller' = [caller EXCEPT ![c].answer = "gateway_timeout"]
    /\ UNCHANGED <<submitted, pending, router, worker, stopping, thread, closing, made>>

\* _is_transient_capabilities_failure.
Transient(answer) == answer \in {"gateway_timeout", "gateway_busy", "failed"}

\* The handler answers its client and ends; a cached call stores its answer and
\* begins its next period.
Done(c) ==
    /\ caller' = [caller EXCEPT ![c] = Idle]
    /\ UNCHANGED <<submitted, made>>

\* Whether the process RPC follows its lookup: not for a process that has no
\* endpoint yet, and a cached call also not for one that is not listed.
GoesOn(st) ==
    /\ st.answer # "unregistered"
    /\ st.kind = "cached" => st.answer = "registered"

\* The handler goes on with what its request brought.
Resume(c) ==
    LET st == caller[c] IN
    /\ ~closing /\ st.step # "idle" /\ st.answer # "none"
    /\ IF st.step = "lookup"
       THEN IF GoesOn(st) THEN Request(c, [st EXCEPT !.step = "main"]) ELSE Done(c)
       ELSE IF st.step = "main" /\ st.kind = "capabilities" /\ Transient(st.answer)
       THEN Request(c, [st EXCEPT !.step = "retry"])
       ELSE Done(c)
    /\ UNCHANGED <<pending, router, worker, stopping, thread, closing>>

\* close(): stop, then everything still queued is answered; the event loop then
\* waits for the thread.
Close ==
    /\ ~stopping
    /\ stopping' = TRUE /\ closing' = TRUE
    /\ caller' = Resolved({submitted[i].fut : i \in DOMAIN submitted}, "gateway_closed", 0)
    /\ submitted' = <<>>
    /\ UNCHANGED <<pending, router, worker, thread, made>>

\* join returns: the thread has ended, or its two seconds are over.
CloseReturns ==
    /\ closing
    /\ closing' = FALSE
    /\ thread' = IF worker = "ended" THEN "none" ELSE thread
    /\ UNCHANGED <<caller, submitted, pending, router, worker, stopping, made>>

-----------------------------------------------------------------------------
(* The worker *)

Put(f, id, t) == [x \in DOMAIN f \cup {id} |-> IF x = id THEN t ELSE f[x]]
Without(f, id) == [x \in DOMAIN f \ {id} |-> f[x]]

\* One submission taken from the queue and sent, or not sent.
SendNext ==
    /\ worker = "run" /\ submitted # <<>>
    /\ submitted' = Tail(submitted)
    /\ \/ /\ pending' = Put(pending, Head(submitted).id, Head(submitted).fut)
          /\ router' = router \cup {[id |-> Head(submitted).id, fut |-> Head(submitted).fut]}
          /\ UNCHANGED caller
       \/ /\ caller' = Resolved({Head(submitted).fut}, "gateway_error", 0)
          /\ UNCHANGED <<pending, router>>
    /\ UNCHANGED <<worker, stopping, thread, closing, made>>

\* What the router may answer: a lookup with what the manager lists, anything
\* else with success or failure.
Bodies(q) ==
    IF \E c \in Callers : caller[c].fut = q.fut /\ caller[c].step = "lookup"
    THEN {"absent", "unregistered", "registered"} ELSE {"ok", "failed"}

\* Mutant: the oldest request in flight takes the reply.
ReceiveReplyInOrder ==
    /\ worker = "run"
    /\ \E q \in router : \E body \in Bodies(q) :
        /\ router' = router \ {q}
        /\ IF pending = <<>> THEN UNCHANGED <<caller, pending>>
           ELSE LET id == CHOOSE x \in DOMAIN pending : \A y \in DOMAIN pending : x <= y IN
                /\ caller' = Resolved({pending[id]}, body, q.fut)
                /\ pending' = Without(pending, id)
    /\ UNCHANGED <<submitted, worker, stopping, thread, closing, made>>

\* _drain_replies: the reply resolves the future filed under its request_id; a
\* late or unknown one is dropped.
ReceiveReply ==
    /\ worker = "run"
    /\ \E q \in router : \E body \in Bodies(q) :
        /\ router' = router \ {q}
        /\ IF q.id \in DOMAIN pending
           THEN caller' = Resolved({pending[q.id]}, body, q.fut) /\ pending' = Without(pending, q.id)
           ELSE UNCHANGED <<caller, pending>>
    /\ UNCHANGED <<submitted, worker, stopping, thread, closing, made>>

\* _sweep_expired: a deadline, or a future its handler has given up.
Sweep(id) ==
    /\ worker = "run" /\ id \in DOMAIN pending
    /\ caller' = Resolved({pending[id]}, "gateway_timeout", 0)
    /\ pending' = Without(pending, id)
    /\ UNCHANGED <<submitted, router, worker, stopping, thread, closing, made>>

\* poll or recv raises: _fail_all_inflight and a fresh socket, to which the
\* router's answers to the old one do not come.
SocketFails ==
    /\ worker = "run" /\ pending # <<>>
    /\ caller' = Resolved({pending[id] : id \in DOMAIN pending}, "gateway_error", 0)
    /\ pending' = <<>> /\ router' = {}
    /\ UNCHANGED <<submitted, worker, stopping, thread, closing, made>>

\* Mutant: the worker ends without a word to those in flight.
WorkerLeaves ==
    /\ worker = "run" /\ stopping
    /\ worker' = "ended" /\ pending' = <<>>
    /\ UNCHANGED <<caller, submitted, router, stopping, thread, closing, made>>

\* The loop sees _stop; everything in flight is answered.
WorkerEnds ==
    /\ worker = "run" /\ stopping
    /\ worker' = "ended"
    /\ caller' = Resolved({pending[id] : id \in DOMAIN pending}, "gateway_closed", 0)
    /\ pending' = <<>>
    /\ UNCHANGED <<submitted, router, stopping, thread, closing, made>>

Next ==
    \/ \E c \in Callers : \/ \E k \in Kinds : Begin(c, k)
                          \/ SafetyNet(c) \/ Resume(c)
    \/ Close \/ CloseReturns
    \/ SendNext \/ ReceiveReply \/ SocketFails \/ WorkerEnds
    \/ \E id \in DOMAIN pending : Sweep(id)

Spec == Init /\ [][Next]_rpcVars

-----------------------------------------------------------------------------

\* A handler is never given the reply to somebody else's request or to a request
\* of its own that it has given up: after a retry, a timeout, a fresh socket or a
\* reply that comes late.
ReplyIsOwn ==
    \A c \in Callers \ Reusing : caller[c].of # 0 => caller[c].of = caller[c].fut

\* Once close() has seen the worker end, no handler still waits for a future that
\* nobody will resolve.
NoneStranded ==
    thread = "none" => \A c \in Callers \ Reusing : caller[c].step = "idle" \/ caller[c].answer # "none"
=============================================================================
