--------------------------- MODULE GatewaySockets ---------------------------
(***************************************************************************)
(* How the FastAPI gateway brings frames to the browser                    *)
(* (fastapi/gateway.py, fastapi/app.py).  StreamFrameHub reads the rings   *)
(* of the drivers when a chunk_ready message says so, joins each frame     *)
(* with its stream context and fans it out to /ws/raw_stream sockets; a    *)
(* TelemetryHub fans the trace_ready messages of the stream analysis out   *)
(* to /ws/stream/{workspace} sockets, which read the trace rings           *)
(* themselves.  A socket may average traces and may be throttled, and all  *)
(* sockets share a cache of encoded frames.  The rings are seen here as    *)
(* what their readers promise (module ShmRing).                            *)
(***************************************************************************)
EXTENDS Integers, Sequences, SequencesExt, FiniteSets

CONSTANTS Streams,        \* keys the StreamFrameHub serves
          Outputs,        \* trace outputs of the workspace
          RawSockets, WorkspaceSockets,
          Watched,        \* the stream the raw sockets were opened for
          Throttled,      \* sockets opened with trace_max_fps
          Averaging,      \* sockets with rolling_window > 1
          Rolling,        \* those of them with trace_average_mode = "rolling"
          Window,         \* their rolling_window
          QueueMax,       \* maxsize of a socket's queue
          Slots,          \* slots of a ring
          FrameCap,       \* frames sent after one message at most (4 in the code)
          MaxStreamKeys,  \* max_stream_keys
          CacheSize,      \* maxsize of SharedTraceFrameCache
          Contexts, None,
          MaxSeq,         \* bound: frames of a ring
          MaxRings        \* bound: rings of a key (a driver restarts)

Keys    == Streams \cup Outputs
Sockets == RawSockets \cup WorkspaceSockets

VARIABLES mem,     \* key -> rings so far -> the contexts its frames were acquired under
          gone,    \* rings whose segment is unlinked
          bus,     \* PUB messages on their way to the hub threads
          lost,    \* frames whose message was lost
          hub,     \* StreamFrameHub: key -> reader, _last_seq, _stream_context, _context_by_seq
          order,   \* _stream_key_order
          latest,  \* _latest_frame
          sock,    \* what each socket's coroutine keeps
          cache    \* _TRACE_FRAME_CACHE

gatewayVars == <<mem, gone, bus, lost, hub, order, latest, sock, cache>>

NoReader == [ring |-> 0, last |-> 0, context |-> None, bySeq |-> <<>>]
NewSocket ==
    [queue |-> <<>>, due |-> [k \in Keys |-> TRUE], pending |-> [k \in Keys |-> None], buf |-> [k \in Keys |-> <<>>],
     reader |-> [k \in Keys |-> 0], taken |-> [k \in Keys |-> None], shown |-> [k \in Keys |-> None]]

Init ==
    /\ mem = [k \in Keys |-> << <<>> >>] /\ gone = {} /\ bus = <<>> /\ lost = {}
    /\ hub = [k \in Streams |-> NoReader] /\ order = <<>>
    /\ latest = [k \in Streams |-> None]
    /\ sock = [s \in Sockets |-> NewSocket] /\ cache = <<>>

-----------------------------------------------------------------------------
(* The drivers and the stream analysis (external to the gateway) *)

\* Frames first..last enter the key's ring under one context and are announced;
\* a PUB socket at its high-water mark drops the announcement.
Publish(k, n, c) ==
    LET g == Len(mem[k])
        first == Len(mem[k][g]) + 1
        m == [key |-> k, ring |-> g, first |-> first, last |-> first + n - 1, context |-> c]
    IN /\ first + n - 1 <= MaxSeq
       /\ mem' = [mem EXCEPT ![k][g] = @ \o [i \in 1..n |-> c]]
       /\ \/ bus' = Append(bus, m) /\ UNCHANGED lost
          \/ /\ lost' = lost \cup {<<k, g, q>> : q \in m.first..m.last}
             /\ UNCHANGED bus
       /\ UNCHANGED <<gone, hub, order, latest, sock, cache>>

\* The producer is restarted and makes a new ring; sequence numbers start over.
\* One that was killed leaves the segment of its old ring.
NewRing(k) ==
    /\ Len(mem[k]) < MaxRings
    /\ mem' = [mem EXCEPT ![k] = Append(@, <<>>)]
    /\ gone' \in {gone, gone \cup {<<k, Len(mem[k])>>}}
    /\ UNCHANGED <<bus, lost, hub, order, latest, sock, cache>>

-----------------------------------------------------------------------------
(* StreamFrameHub *)

\* _fanout: a full queue loses its oldest item.
Offer(q, m) == Append(IF Len(q) >= QueueMax THEN Tail(q) ELSE q, m)
OfferAll(q, ms) == FoldLeft(Offer, q, ms)

\* _touch_stream_key.
Touched(o, k) == Append(SelectSeq(o, LAMBDA x : x # k), k)
\* _drop_stream_key.
DropKeys(ks) ==
    /\ hub' = [k \in Streams |-> IF k \in ks THEN NoReader ELSE hub[k]]
    /\ latest' = [k \in Streams |-> IF k \in ks THEN None ELSE latest[k]]

\* ttl of a key nothing was heard of (_prune_stream_keys).
ExpireKey(k) ==
    /\ k \in Range(order)
    /\ order' = SelectSeq(order, LAMBDA x : x # k)
    /\ DropKeys({k})
    /\ UNCHANGED <<mem, gone, bus, lost, sock, cache>>

\* read_events(last_seq): what the ring still holds after last.
Retained(k, g, last) ==
    LET head == Len(mem[k][g]) IN {q \in 1..head : q > last /\ q > head - Slots}
Frame(k, g, q, c) == [key |-> k, ring |-> g, seq |-> q, context |-> c]

\* The context of frame q: what was announced for it, else what the stream
\* carried before; <<context of the frame, context carried on>>.
JoinContext(st, m, q, carried) ==
    LET known == IF q \in DOMAIN st.bySeq THEN st.bySeq[q] ELSE None
        own == IF known # None THEN known ELSE IF q \in m.first..m.last THEN m.context ELSE None
    IN IF own # None THEN own ELSE carried

\* Mutant: the frames past the message are taken too.
EventsAll(k, st, m) == Retained(k, st.ring, st.last)
\* The frames of one message: at most FrameCap, none past the message's last.
Events(k, st, m) == {q \in Retained(k, st.ring, st.last) : q <= m.last}

JoinFrames(k, st, m) ==
    LET qs == SetToSortSeq(Events(k, st, m), <)
        kept == SubSeq(qs, Len(qs) - (IF Len(qs) < FrameCap THEN Len(qs) ELSE FrameCap) + 1, Len(qs))
        Step(acc, q) == LET c == JoinContext(st, m, q, acc.carried)
                        IN [frames |-> Append(acc.frames, Frame(k, st.ring, q, c)), carried |-> c]
    IN FoldLeft(Step, [frames |-> <<>>, carried |-> st.context], kept)

\* The contexts a message announces are stored by sequence number.
Announced(st, m) ==
    [q \in DOMAIN st.bySeq \cup (m.first..m.last) |-> IF q \in m.first..m.last THEN m.context ELSE st.bySeq[q]]

\* The keys that a message about k pushes out (_prune_stream_keys).
Evicted(k) == LET touched == Touched(order, k) IN IF Len(touched) > MaxStreamKeys THEN {Head(touched)} ELSE {}

\* One round of _run for a chunk_ready message.
HubMessage ==
    /\ bus # <<>> /\ Head(bus).key \in Streams
    /\ bus' = Tail(bus)
    /\ LET m == Head(bus)
           k == m.key
           attached == hub[k].ring = m.ring
           st == IF attached THEN [hub[k] EXCEPT !.bySeq = Announced(hub[k], m)]
                 ELSE [NoReader EXCEPT !.ring = m.ring, !.last = m.first - 1]
           joined == JoinFrames(k, st, m)
           last == IF joined.frames = <<>> THEN st.last ELSE Last(joined.frames).seq
       IN /\ attached \/ <<k, m.ring>> \notin gone
          /\ order' = SelectSeq(Touched(order, k), LAMBDA x : x \notin Evicted(k))
          /\ hub' = [x \in Streams |->
               IF x = k THEN [ring |-> m.ring, last |-> last, context |-> joined.carried,
                              bySeq |-> [q \in {p \in DOMAIN st.bySeq : p > last} |-> st.bySeq[q]]]
               ELSE IF x \in Evicted(k) THEN NoReader ELSE hub[x]]
          /\ latest' = [x \in Streams |->
               IF x = k /\ joined.frames # <<>> THEN Last(joined.frames)
               ELSE IF x \in Evicted(k) THEN None ELSE latest[x]]
          /\ sock' = [s \in Sockets |-> IF s \in RawSockets /\ k = Watched
                        THEN [sock[s] EXCEPT !.queue = OfferAll(@, joined.frames)] ELSE sock[s]]
    /\ UNCHANGED <<mem, gone, lost, cache>>

\* The message's range is refused, or its ring cannot be attached or read: the
\* key is dropped.
HubMessageFails ==
    /\ bus # <<>> /\ Head(bus).key \in Streams
    /\ bus' = Tail(bus)
    /\ LET k == Head(bus).key IN
       /\ DropKeys(Evicted(k) \cup {k})
       /\ order' = SelectSeq(order, LAMBDA x : x \notin Evicted(k) \cup {k})
    /\ UNCHANGED <<mem, gone, lost, sock, cache>>

\* TelemetryHub._run: a trace_ready message goes to every workspace socket.
TraceReady ==
    /\ bus # <<>> /\ Head(bus).key \in Outputs
    /\ bus' = Tail(bus)
    /\ LET m == Head(bus) IN
       sock' = [s \in Sockets |-> IF s \in WorkspaceSockets
                  THEN [sock[s] EXCEPT !.queue = Offer(@, Frame(m.key, m.ring, m.last, m.context))] ELSE sock[s]]
    /\ UNCHANGED <<mem, gone, lost, hub, order, latest, cache>>

-----------------------------------------------------------------------------
(* The sockets *)

\* _raw_trace_cache_key, _workspace_trace_cache_key: the acquisition times tell
\* a frame of one ring from the frame with the same number of the next.
CacheKey(f) == [key |-> f.key, ring |-> f.ring, seq |-> f.seq]

\* What is sent for f: the cached encoding, if there is one.
Encoded(s, f) ==
    LET hit == {i \in DOMAIN cache : cache[i].id = CacheKey(f)} IN
    IF s \notin Averaging /\ hit # {} THEN cache[CHOOSE i \in hit : TRUE].frame ELSE f
\* SharedTraceFrameCache.get and put.
Remember(s, f) ==
    LET others == SelectSeq(cache, LAMBDA e : e.id # CacheKey(f))
        full == Append(others, [id |-> CacheKey(f), frame |-> Encoded(s, f)])
    IN IF s \in Averaging THEN cache ELSE IF Len(full) > CacheSize THEN Tail(full) ELSE full

\* TraceAggregator.add_frame: the new buffer, and whether a trace comes out.
AddFrame(s, buf, f) ==
    IF s \notin Averaging THEN <<buf, TRUE>>
    ELSE IF s \in Rolling THEN <<Append(IF Len(buf) >= Window THEN Tail(buf) ELSE buf, f), TRUE>>
    ELSE IF Len(buf) + 1 < Window THEN <<Append(buf, f), FALSE>> ELSE << <<>>, TRUE >>

Send(s, st, f) ==
    /\ sock' = [sock EXCEPT ![s] = [st EXCEPT !.shown[f.key] = Encoded(s, f), !.due[f.key] = s \notin Throttled]]
    /\ cache' = Remember(s, f)

\* _send_or_defer of ws_raw_stream.
SendOrDefer(s, st, f) ==
    IF st.due[f.key] THEN Send(s, [st EXCEPT !.pending[f.key] = None], f)
    ELSE sock' = [sock EXCEPT ![s] = [st EXCEPT !.pending[f.key] = f]] /\ UNCHANGED cache

\* _workspace_send_trace_message.
WorkspaceSend(s, st, f) ==
    IF st.due[f.key] THEN Send(s, st, f)
    ELSE sock' = [sock EXCEPT ![s] = [st EXCEPT !.pending[f.key] = f]] /\ UNCHANGED cache

Untouched == UNCHANGED <<mem, gone, bus, lost, hub, order, latest>>

\* One frame through a socket's aggregator and on to send; before is the socket.
Through(s, before, f) ==
    LET added == AddFrame(s, before.buf[f.key], f)
        st == [before EXCEPT !.queue = Tail(@), !.buf[f.key] = added[1]]
        made == [st EXCEPT !.taken[f.key] = f]
    IN IF ~added[2] THEN sock' = [sock EXCEPT ![s] = st] /\ UNCHANGED cache
       ELSE IF s \in RawSockets THEN SendOrDefer(s, made, f)
       ELSE WorkspaceSend(s, made, f)

\* ws_raw_stream: a frame from the hub.
RawTakes(s) ==
    /\ s \in RawSockets /\ sock[s].queue # <<>>
    /\ Through(s, sock[s], Head(sock[s].queue))
    /\ Untouched

\* _workspace_handle_trace_ready_message; a trace that the ring no longer holds,
\* or a ring that cannot be attached, leaves only the message itself to pass on.
WorkspaceTakes(s) ==
    /\ s \in WorkspaceSockets /\ sock[s].queue # <<>>
    /\ LET f == Head(sock[s].queue)
           open == sock[s].reader[f.key] = f.ring \/ <<f.key, f.ring>> \notin gone
           st == [sock[s] EXCEPT !.reader[f.key] = IF open THEN f.ring ELSE 0]
       IN IF open /\ f.seq \in Retained(f.key, f.ring, 0) THEN Through(s, st, f)
          ELSE sock' = [sock EXCEPT ![s] = [st EXCEPT !.queue = Tail(@)]] /\ UNCHANGED cache
    /\ Untouched

\* The send slot of a throttled socket comes up.
SlotComesUp(s, k) ==
    /\ ~sock[s].due[k]
    /\ sock' = [sock EXCEPT ![s].due[k] = TRUE]
    /\ Untouched /\ UNCHANGED cache

\* The queue stayed empty for 50 ms: what waits is sent if its slot has come
\* (flush of ws_raw_stream, _workspace_flush_pending_trace_messages).
Flush(s, k) ==
    /\ sock[s].queue = <<>> /\ sock[s].pending[k] # None /\ sock[s].due[k]
    /\ Send(s, [sock[s] EXCEPT !.pending[k] = None], sock[s].pending[k])
    /\ Untouched

\* The client disconnects and comes back: its coroutine ends, unsubscribes and
\* closes its readers.
Reconnect(s) ==
    /\ sock[s] # NewSocket
    /\ sock' = [sock EXCEPT ![s] = NewSocket]
    /\ Untouched /\ UNCHANGED cache

Next ==
    \/ \E k \in Keys : \/ \E n \in 1..2, c \in Contexts \cup {None} : Publish(k, n, c)
                       \/ NewRing(k)
    \/ \E k \in Streams : ExpireKey(k)
    \/ HubMessage \/ HubMessageFails \/ TraceReady
    \/ \E s \in Sockets : \/ RawTakes(s) \/ WorkspaceTakes(s) \/ Reconnect(s)
                          \/ \E k \in Keys : SlotComesUp(s, k) \/ Flush(s, k)

Spec == Init /\ [][Next]_gatewayVars

-----------------------------------------------------------------------------

Own(f) == mem[f.key][f.ring][f.seq]

\* The context beside a frame, shown or kept for a snapshot, is the one it was
\* acquired under (the join of _run with _context_by_seq and _stream_context).  A
\* frame that has none, or whose own message was lost, may only inherit that of
\* an earlier frame of its ring.
ShownInItsContext ==
    \A f \in ({sock[s].shown[k] : s \in RawSockets, k \in Streams} \cup {latest[k] : k \in Streams}) \ {None} :
        \/ f.context = Own(f)
        \/ /\ Own(f) = None \/ <<f.key, f.ring, f.seq>> \in lost
           /\ f.context \in {mem[f.key][f.ring][q] : q \in 1..(f.seq - 1)} \cup {None}

\* What a socket still has to do about key k without a new message.
Owed(s, k) == SlotComesUp(s, k) \/ Flush(s, k)
AtRest(s, k) == sock[s].queue = <<>> /\ ~ENABLED Owed(s, k)

\* When no frame waits, and when the socket would do nothing more without a new
\* message, the browser shows the last trace the socket made, whatever the
\* throttle held back and whatever another socket left in the frame cache
\* (_send_or_defer, the time-out branch of ws_raw_stream).
RawShowsTheLast ==
    \A s \in RawSockets : \A k \in Keys :
        AtRest(s, k) \/ (sock[s].queue = <<>> /\ sock[s].pending[k] = None) => sock[s].shown[k] = sock[s].taken[k]

\* The same of a workspace socket, which the code does not keep.
WorkspaceShowsTheLast ==
    \A s \in WorkspaceSockets : \A k \in Keys : AtRest(s, k) => sock[s].shown[k] = sock[s].taken[k]

Newer(f, h) == f.ring > h.ring \/ (f.ring = h.ring /\ f.seq > h.seq)

\* A trace that waits for the slot of a throttled workspace socket and is newer
\* than the one shown is the last the socket made: the throttle passes over older
\* ones only (pending_trace_msgs of _workspace_send_trace_message).  None is left
\* waiting by a socket that would do nothing more without a new message.
DefersTheNewest ==
    \A s \in WorkspaceSockets : \A k \in Keys :
        LET waits == sock[s].pending[k] IN
        /\ waits # None /\ Newer(waits, sock[s].shown[k]) => waits = sock[s].taken[k]
        /\ AtRest(s, k) => waits = None
=============================================================================
