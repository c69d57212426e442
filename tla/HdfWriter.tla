------------------------------ MODULE HdfWriter ------------------------------
(***************************************************************************)
(* The HDF writer of processes/hdf_writer.py for one stream: the main loop *)
(* that reads announced frames out of the shared-memory ring, resolves the *)
(* context each belongs to and keeps them in memory, the background thread *)
(* that writes batches of them and runs stop and rotate, and the close of  *)
(* the process.                                                            *)
(*                                                                         *)
(* A frame is [g, n]: its ring (a driver restart creates another) and its  *)
(* sequence number.  The columns of the in-memory buffer are data (frame   *)
(* and context) and meta (the frame's own metadata, here the frame it      *)
(* belongs to), because the code keeps them as parallel lists.  Telemetry  *)
(* rows, events, disabled devices and dtype errors are left out; ring      *)
(* overruns are in ShmRing.                                                *)
(***************************************************************************)
EXTENDS Integers, Sequences, FiniteSets, SequencesExt

CONSTANTS
    Contexts,       \* the context ids a sequencer can set
    ExpectedCounts, \* the rows hdf.streams.expect asks for: expected_count, or one row without it
    MaxRings,       \* bound: rings the driver creates, one per incarnation
    MaxFrames,      \* bound: frames acquired, over all rings
    MaxFiles,       \* bound: files opened
    MaxFaults,      \* bound: failures injected, lost announcements included
    QueueMax,       \* bg_queue_max
    HeldMax,        \* maxlen of _held_messages
    PendingCap,     \* context_pending_max_per_stream
    MapCap,         \* context_map_max_per_stream
    HardRows        \* _reservoir_hard_rows

\* The driver has a ring, the queues and the hard limit are sizes, and an
\* expectation is a number of rows.
ASSUME HdfAssumption ==
    /\ MaxRings \in Nat \ {0} /\ HeldMax \in Nat \ {0} /\ HardRows \in Nat /\ QueueMax \in Nat
    /\ ExpectedCounts \subseteq Nat \ {0}

Unknown == -1       \* context_id of a frame whose context never arrived
None == [kind |-> "none"]   \* no file operation, no request in hand

VARIABLES
    ring,       \* per ring, the context each frame was acquired under
    gen,        \* the ring the driver writes
    sock,       \* chunk_ready messages waiting in the SUB socket
    st,         \* the stream's runtime state, owned by the main loop
    rows,       \* _pending_context_rows
    pf,         \* per-file state: counters, expectations, verdict
    files,      \* the files written so far
    cur,        \* index of the open file, 0 when _h5 is None
    queue,      \* _bg_queue
    hand,       \* the request the background thread took off the queue
    bg,         \* "live", or "dead" (_bg_thread_dead)
    op,         \* _file_op
    held,       \* _held_messages
    phase,      \* "run", "closing", "closed" or "forced" (join timed out)
    owed,       \* what was in the file, in memory or queued when the close began,
                \* less what a stop that failed meanwhile reported it did not write
    failed,     \* frames of batches that raised, and of refused payloads
    budget      \* what is left of MaxFaults

producer == <<ring, gen>>
memory == <<st, rows>>
disk == <<pf, files, cur>>
ghost == <<owed, failed>>
vars == <<producer, sock, memory, disk, queue, hand, bg, op, held, phase, ghost, budget>>

-----------------------------------------------------------------------------
(* State *)

Detached ==
    [reader |-> 0, last |-> 0, map |-> <<>>, pend |-> {}, data |-> <<>>, meta |-> <<>>,
     closed |-> FALSE, active |-> 0, sessions |-> 0, att |-> 0]

FreshFileState ==
    [seen |-> {}, chunk |-> FALSE, gap |-> FALSE, fail |-> FALSE, ok |-> TRUE,
     count |-> [c \in Contexts |-> 0], expect |-> [c \in Contexts |-> 0], missing |-> {}]

NewFile ==
    [rows |-> <<>>, ctxs |-> {}, expect |-> [c \in Contexts |-> 0],
     ok |-> TRUE, unsaved |-> FALSE, open |-> TRUE, ended |-> FALSE]

Init ==
    /\ ring = [g \in 1..MaxRings |-> <<>>] /\ gen = 1
    /\ sock = <<>> /\ st = Detached /\ rows = <<>>
    /\ pf = FreshFileState /\ files = <<>> /\ cur = 0
    /\ queue = <<>> /\ hand = None /\ bg = "live"
    /\ op = None /\ held = <<>> /\ phase = "run"
    /\ owed = {} /\ failed = {}
    /\ budget = MaxFaults

Costs(n) == n <= budget /\ budget' = budget - n
Fault == Costs(1)

FrameOf(d) == [g |-> d.g, n |-> d.n]
\* The frames of some rows, each with the attachment that read it
FramesOf(s) == {[f |-> FrameOf(s[i]), a |-> s[i].a] : i \in DOMAIN s}
\* The frames a request of the background thread carries
BatchFrames(r) == IF r.kind = "batch" THEN FramesOf(r.data) ELSE {}
QueuedIn(q) == UNION {BatchFrames(q[i]) : i \in DOMAIN q}

-----------------------------------------------------------------------------
(* The driver and the way its announcements take (DriverRunner and the     *)
(* manager's PUB relay)                                                    *)

\* publish_stream_batch: the frame first, its announcement after it; the
\* announcement may be lost.  What the reader finds in the ring is ahead of
\* what it has been told, because sock holds the announcements back.
WriteFrame ==
    /\ phase = "run"
    /\ SumFunction([g \in 1..MaxRings |-> Len(ring[g])]) < MaxFrames
    /\ \E c \in Contexts \cup {Unknown} :
           /\ ring' = [ring EXCEPT ![gen] = Append(@, c)]
           /\ \/ sock' = Append(sock, [g |-> gen, n |-> Len(ring[gen]) + 1, c |-> c]) /\ UNCHANGED budget
              \/ Fault /\ UNCHANGED sock
    /\ UNCHANGED <<gen, memory, disk, queue, hand, bg, op, held, phase, ghost>>

DriverRestart ==
    /\ phase = "run" /\ gen < MaxRings /\ ring[gen] # <<>> /\ gen' = gen + 1
    /\ UNCHANGED <<ring, sock, memory, disk, queue, hand, bg, op, held, phase, ghost, budget>>

-----------------------------------------------------------------------------
(* Contexts: each takes the stream's runtime state and returns the next    *)

\* Sequence numbers in order
Ascending(S) ==
    CHOOSE o \in [1..Cardinality(S) -> S] : \A i, j \in 1..Cardinality(S) : i < j => o[i] < o[j]

\* _append_resolved_stream_event, for the frames ctx gives a context
Buffered(s, ctx) ==
    LET o == Ascending(DOMAIN ctx)
    IN [s EXCEPT !.data = @ \o [i \in 1..Len(o) |-> [g |-> s.reader, n |-> o[i], c |-> ctx[o[i]], a |-> s.att]],
                 !.meta = @ \o [i \in 1..Len(o) |-> [g |-> s.reader, n |-> o[i]]]]

Oldest(S, k) == {x \in S : Cardinality({y \in S : y < x}) < k}

Forget(map, S) == [n \in DOMAIN map \ S |-> map[n]]
Learn(map, m) == [n \in DOMAIN map \cup {m.n} |-> IF n = m.n THEN m.c ELSE map[n]]

\* _flush_pending_as_unknown
FlushAsUnknown(s, seqs) == Buffered([s EXCEPT !.pend = @ \ seqs], [n \in seqs |-> Unknown])

EnforcePendingCap(s) ==
    LET over == Cardinality(s.pend) - PendingCap
    IN IF over > 0 THEN FlushAsUnknown(s, Oldest(s.pend, over)) ELSE s

TrimMap(s) ==
    LET over == Cardinality(DOMAIN s.map) - MapCap
    IN IF over > 0 THEN [s EXCEPT !.map = Forget(@, Oldest(DOMAIN @, over))] ELSE s

\* Mutant: the range of an announcement reaches one frame too far.
DescribedOneMore(s, m) ==
    IF m.c = Unknown THEN s
    ELSE [s EXCEPT !.map = Learn(Learn(@, m), [m EXCEPT !.n = @ + 1])]

\* _store_context_for_seq and _resolve_pending_stream_event
Described(s, m) ==
    IF m.c = Unknown THEN s
    ELSE IF m.n \in s.pend
         THEN Buffered([s EXCEPT !.pend = @ \ {m.n}, !.map = Forget(@, {m.n})], [n \in {m.n} |-> m.c])
         ELSE [s EXCEPT !.map = Learn(@, m)]

\* _append_chunk_ready_events: every frame the ring holds, announced or not
ReadRing(s) ==
    LET new == (s.last + 1)..Len(ring[s.reader])
        known == new \cap DOMAIN s.map
    IN Buffered([s EXCEPT !.pend = @ \cup (new \ known), !.map = Forget(@, known), !.last = Len(ring[s.reader])],
                [n \in known |-> s.map[n]])

NextSession(s) ==
    LET inFile == IF cur = 0 THEN {}
                  ELSE {files[cur].rows[i].session : i \in DOMAIN files[cur].rows}
    IN Max({s.sessions + 1} \cup {k + 1 : k \in inFile})

\* _ensure_chunk_ready_reader: frames of the old ring still in memory go
Attach(s, m) ==
    IF s.reader = m.g THEN s
    ELSE [s EXCEPT !.reader = m.g, !.closed = FALSE, !.last = m.n - 1, !.map = <<>>, !.pend = {},
                   !.data = <<>>, !.meta = <<>>, !.att = @ + 1,
                   !.sessions = NextSession(s), !.active = NextSession(s)]

\* _reset_stream_runtime_state after a failed drain
Reset(s) ==
    [s EXCEPT !.reader = 0, !.closed = FALSE, !.last = 0, !.map = <<>>, !.pend = {}, !.data = <<>>, !.meta = <<>>]

-----------------------------------------------------------------------------
(* chunk_ready on the main loop *)

\* The counters and _record_context; a failed drain is counted
RecordContext(m, fails) ==
    LET new == cur # 0 /\ m.c # Unknown /\ m.c \notin pf.seen
    IN /\ rows' = IF new THEN Append(rows, m.c) ELSE rows
       /\ pf' = [pf EXCEPT !.chunk = TRUE, !.fail = @ \/ fails,
                           !.gap = @ \/ (st.reader # m.g /\ m.n > 1),
                           !.seen = IF new THEN @ \cup {m.c} ELSE @]

HandleChunk(m) ==
    LET s == Attach(st, m)
        d == Described(s, m)
        r == ReadRing(d)
    IN /\ ~(st.closed /\ st.reader = m.g)
       /\ st' = TrimMap(IF r.last = d.last THEN d ELSE EnforcePendingCap(r))
       /\ RecordContext(m, FALSE)
       /\ UNCHANGED budget

\* The old ring of a driver that ended may be gone: the reader is closed
\* and stays registered, so the next drain of the new ring fails.
AttachFails(m) ==
    /\ m.g # st.reader
    /\ Fault
    /\ st' = [st EXCEPT !.closed = st.reader # 0]
    /\ pf' = [pf EXCEPT !.chunk = TRUE, !.fail = TRUE]
    /\ UNCHANGED rows

DrainFails(m) ==
    /\ IF st.closed /\ st.reader = m.g THEN UNCHANGED budget ELSE Fault
    /\ st' = Reset(Described(Attach(st, m), m))
    /\ RecordContext(m, TRUE)

Dispatch(m) == HandleChunk(m) \/ AttachFails(m) \/ DrainFails(m)

\* Normal mode: no file operation, and what it held has been replayed.
Normal == phase = "run" /\ op = None /\ held = <<>>

Receive ==
    /\ Normal /\ sock # <<>> /\ sock' = Tail(sock)
    /\ Dispatch(Head(sock))
    /\ UNCHANGED <<producer, files, cur, queue, hand, bg, op, held, phase, ghost>>

\* _sweep_context_buffers: the oldest waits pass context_resolve_ttl_s or
\* context_map_ttl_s
ExpirePending ==
    /\ Normal
    /\ \E k \in 1..Cardinality(st.pend) : st' = FlushAsUnknown(st, Oldest(st.pend, k))
    /\ UNCHANGED <<producer, sock, rows, disk, queue, hand, bg, op, held, phase, ghost, budget>>

ExpireMap ==
    /\ Normal
    /\ \E k \in 1..Cardinality(DOMAIN st.map) : st' = [st EXCEPT !.map = Forget(@, Oldest(DOMAIN @, k))]
    /\ UNCHANGED <<producer, sock, rows, disk, queue, hand, bg, op, held, phase, ghost, budget>>

-----------------------------------------------------------------------------
(* Hand-over to the background thread *)

Batch == [kind |-> "batch", data |-> st.data, meta |-> st.meta, ctxs |-> rows, session |-> st.active]

EnqueueFlushBatch ==
    /\ Normal /\ (st.data # <<>> \/ rows # <<>>)
    /\ Len(queue) < QueueMax
    /\ queue' = Append(queue, Batch)
    /\ st' = [st EXCEPT !.data = <<>>, !.meta = <<>>] /\ rows' = <<>>
    /\ UNCHANGED <<producer, sock, disk, hand, bg, op, held, phase, ghost, budget>>

\* _check_reservoir_backpressure and _drop_oldest_stream_frames: the
\* frame_metadata column is not shortened with the others
DropOldest ==
    /\ Normal /\ Len(queue) = QueueMax /\ Len(st.data) > HardRows
    /\ LET k == Len(st.data) - HardRows
       IN /\ st' = [st EXCEPT !.data = SubSeq(@, k + 1, Len(@))]
          /\ failed' = failed \cup FramesOf(SubSeq(st.data, 1, k))
    /\ UNCHANGED <<producer, sock, rows, disk, queue, hand, bg, op, held, phase, owed, budget>>

-----------------------------------------------------------------------------
(* Writing: under _h5_lock, so one step *)

\* Row order of _write_single_stream_buffer: sorted only if out of order
RowOrder(data) ==
    CHOOSE o \in [DOMAIN data -> DOMAIN data] :
        \A i, j \in DOMAIN data : i < j =>
            data[o[i]].n < data[o[j]].n \/ (data[o[i]].n = data[o[j]].n /\ o[i] < o[j])

InOrder(data) == \A i \in 1..(Len(data) - 1) : data[i].n <= data[i + 1].n

\* The columns as they are written, or <<>> when the metadata column has
\* another length and every frame counts as malformed
Columns(data, meta, session) ==
    LET idx == IF InOrder(data) THEN [i \in 1..Len(data) |-> i] ELSE RowOrder(data)
        m == IF InOrder(data) THEN meta ELSE [i \in 1..Len(data) |-> meta[idx[i]]]
    IN IF Len(m) # Len(data) THEN <<>>
       ELSE [i \in 1..Len(data) |->
                [g |-> data[idx[i]].g, n |-> data[idx[i]].n, c |-> data[idx[i]].c,
                 a |-> data[idx[i]].a, meta |-> m[i], session |-> session]]

\* What writing a batch makes of w = [pf, file, failed]
WriteBatch(w, b) ==
    LET out == Columns(b.data, b.meta, b.session)
        bad == out = <<>> /\ b.data # <<>>
    IN [pf |-> [w.pf EXCEPT !.fail = @ \/ bad,
                            !.count = [c \in Contexts |-> @[c] + Cardinality({i \in DOMAIN out : out[i].c = c})]],
        file |-> [w.file EXCEPT !.rows = @ \o out, !.ctxs = @ \cup ToSet(b.ctxs)],
        failed |-> w.failed \cup (IF bad THEN FramesOf(b.data) ELSE {})]

\* The write raises before this stream's rows, or drops only them
\* (_write_stream_buffers_batch, which counts a failure)
Raised(w, b) == [w EXCEPT !.failed = @ \cup FramesOf(b.data)]
Dropped(w, b) ==
    [pf |-> [w.pf EXCEPT !.fail = TRUE], file |-> [w.file EXCEPT !.ctxs = @ \cup ToSet(b.ctxs)],
     failed |-> w.failed \cup FramesOf(b.data)]

Open == [pf |-> pf, file |-> files[cur], failed |-> failed]

\* _drain_pending_to_file: the live reservoir, but not the frames that wait for
\* their context.  It drops the stream's rows and goes on, raises at the flush, or
\* raises before it came to the stream: then the reservoir is kept.
Drains(w) ==
    {[w |-> WriteBatch(w, Batch), raised |-> FALSE, kept |-> FALSE, cost |-> 0],
     [w |-> Dropped(w, Batch), raised |-> FALSE, kept |-> FALSE, cost |-> 1],
     [w |-> WriteBatch(w, Batch), raised |-> TRUE, kept |-> FALSE, cost |-> 1],
     [w |-> w, raised |-> TRUE, kept |-> TRUE, cost |-> 1]}

\* _finalize_strict_streams_locked
Violated(p, c) ==
    /\ p.expect[c] > 0
    /\ ~p.chunk \/ p.count[c] < p.expect[c] \/ p.gap \/ p.fail

Finalized(w) ==
    LET ok == w.pf.ok /\ w.pf.missing = {} /\ ~\E c \in Contexts : Violated(w.pf, c)
    IN [w EXCEPT !.pf = [@ EXCEPT !.ok = ok], !.file = [@ EXCEPT !.ok = ok, !.unsaved = FALSE]]

\* It raises when an expectation was never stored; when the verdict cannot be
\* written, so that the file keeps the one it has; and when the audit attributes
\* cannot be, which makes the verdict FALSE.
Verdicts(w) ==
    {[w |-> Finalized(w), raised |-> w.pf.missing # {}, cost |-> 0],
     [w |-> [Finalized(w) EXCEPT !.file = [w.file EXCEPT !.unsaved = TRUE]], raised |-> TRUE, cost |-> 1],
     [w |-> [w EXCEPT !.pf = [@ EXCEPT !.ok = FALSE], !.file = [@ EXCEPT !.ok = FALSE, !.unsaved = FALSE]],
      raised |-> TRUE, cost |-> 1]}

\* What is left of the queue at the close, in its order; the other requests go.
\* The batches of bad raise and those of refused are dropped.
WriteQueue(w, q, bad, refused) ==
    LET written[k \in 0..Len(q)] ==
            IF k = 0 THEN w
            ELSE CASE q[k].kind # "batch" -> written[k - 1]
                   [] q[k].kind = "batch" /\ k \in bad -> Raised(written[k - 1], q[k])
                   [] q[k].kind = "batch" /\ k \in refused \ bad -> Dropped(written[k - 1], q[k])
                   [] OTHER -> WriteBatch(written[k - 1], q[k])
    IN written[Len(q)]

Ended(file) == [file EXCEPT !.open = FALSE, !.ended = TRUE]

ResetPerFile(s) ==
    [s EXCEPT !.map = <<>>, !.pend = {}, !.sessions = 0, !.active = 1]

\* Everything an operation must leave in the file it closes.
InMemory == FramesOf(st.data) \cup QueuedIn(queue) \cup BatchFrames(hand)

Owed == IF cur = 0 THEN {} ELSE FramesOf(files[cur].rows) \cup InMemory

-----------------------------------------------------------------------------
(* Requests served by the main loop *)

\* _rpc_hdf_streams_expect: the expectation of a context, at any time, in place of
\* the one it had; the id of the context may fail to be stored
StreamsExpect ==
    /\ Normal /\ cur # 0 /\ bg = "live"
    /\ \E c \in Contexts :
           \/ /\ \E n \in ExpectedCounts :
                     /\ pf' = [pf EXCEPT !.expect[c] = n, !.missing = @ \ {c}]
                     /\ files' = [files EXCEPT ![cur].expect[c] = n]
              /\ UNCHANGED budget
           \/ pf' = [pf EXCEPT !.missing = @ \cup {c}] /\ Fault /\ UNCHANGED files
    /\ UNCHANGED <<producer, sock, memory, cur, queue, hand, bg, op, held, phase, ghost>>

\* _start_writing_file takes _h5_lock; what the reservoir kept from before is
\* not cleared, and a configuration that raises leaves no file
StartWritingFile ==
    /\ \/ /\ Len(files) < MaxFiles
          /\ files' = Append(files, NewFile) /\ cur' = Len(files) + 1
          /\ UNCHANGED budget
       \/ Fault /\ UNCHANGED <<files, cur>>
    /\ pf' = FreshFileState /\ st' = ResetPerFile(st) /\ rows' = <<>>

WritingStart ==
    /\ Normal /\ cur = 0
    /\ StartWritingFile
    /\ UNCHANGED <<producer, sock, queue, hand, bg, op, held, phase, ghost>>

\* _begin_file_op; put_nowait of _submit_file_op fails on a full queue
BeginFileOp(kind) ==
    /\ Normal /\ cur # 0 /\ bg = "live"
    /\ op' = [kind |-> kind, file |-> cur, submitted |-> Len(queue) < QueueMax,
              done |-> FALSE, ok |-> TRUE, owed |-> Owed]
    /\ queue' = IF Len(queue) < QueueMax THEN Append(queue, [kind |-> kind]) ELSE queue
    /\ UNCHANGED <<producer, sock, memory, disk, hand, bg, held, phase, ghost, budget>>

WritingStop == BeginFileOp("stop")
Rotate == Len(files) < MaxFiles /\ BeginFileOp("rotate")

\* Mutant: hold mode goes on dispatching what arrives.
HoldDispatches ==
    /\ phase = "run" /\ op # None /\ sock # <<>>
    /\ sock' = Tail(sock) /\ held' = held
    /\ HandleChunk(Head(sock))
    /\ UNCHANGED <<producer, files, cur, queue, hand, bg, op, phase, ghost>>

\* _hold_socket_messages: a deque with maxlen drops its oldest
HoldSocketMessages ==
    /\ phase = "run" /\ op # None /\ sock # <<>>
    /\ sock' = Tail(sock)
    /\ held' = Append(IF Len(held) = HeldMax THEN Tail(held) ELSE held, Head(sock))
    /\ UNCHANGED <<producer, memory, disk, queue, hand, bg, op, phase, ghost, budget>>

\* Mutant: an operation that found the queue full is not submitted again.
SubmitOnce == FALSE /\ UNCHANGED vars

\* _submit_file_op, retried by every turn of the main loop
SubmitFileOp ==
    /\ phase = "run" /\ op # None /\ ~op.submitted /\ Len(queue) < QueueMax
    /\ queue' = Append(queue, [kind |-> op.kind])
    /\ op' = [op EXCEPT !.submitted = TRUE]
    /\ UNCHANGED <<producer, sock, memory, disk, hand, bg, held, phase, ghost, budget>>

\* _service_file_op and _finish_file_op
FinishFileOp ==
    /\ phase = "run" /\ op # None /\ (op.done \/ bg # "live")
    /\ op' = None
    /\ UNCHANGED <<producer, sock, memory, disk, queue, hand, bg, held, phase, ghost, budget>>

ReplayHeld ==
    /\ phase = "run" /\ op = None /\ held # <<>>
    /\ held' = Tail(held)
    /\ Dispatch(Head(held))
    /\ UNCHANGED <<producer, sock, files, cur, queue, hand, bg, op, phase, ghost>>

-----------------------------------------------------------------------------
(* The background thread *)

BgTake ==
    /\ bg = "live" /\ phase = "run" /\ hand = None /\ queue # <<>>
    /\ hand' = Head(queue) /\ queue' = Tail(queue)
    /\ UNCHANGED <<producer, sock, memory, disk, bg, op, held, phase, ghost, budget>>

Working(kind) == bg = "live" /\ phase \in {"run", "closing"} /\ hand # None /\ hand.kind = kind /\ hand' = None

\* _handle_flush_batch; with no file the batch is discarded
BgWrite ==
    /\ Working("batch")
    /\ IF cur = 0 THEN UNCHANGED <<disk, failed>>
       ELSE LET w == WriteBatch(Open, hand)
            IN pf' = w.pf /\ files' = [files EXCEPT ![cur] = w.file] /\ failed' = w.failed /\ cur' = cur
    /\ UNCHANGED <<producer, sock, memory, queue, bg, op, held, phase, owed, budget>>

\* _bg_thread_run logs the exception and the batch is gone
BgWriteRaises ==
    /\ Working("batch") /\ cur # 0 /\ Fault
    /\ \E w \in {Raised(Open, hand), Dropped(Open, hand)} :
           pf' = w.pf /\ files' = [files EXCEPT ![cur] = w.file] /\ failed' = w.failed /\ cur' = cur
    /\ UNCHANGED <<producer, sock, memory, queue, bg, op, held, phase, owed>>

Emptied(s) == [s EXCEPT !.data = <<>>, !.meta = <<>>]

\* _run_file_op, _stop_writing_file: every part runs although an earlier one raised
BgStop ==
    /\ Working("stop")
    /\ \E d \in Drains(Open) : \E v \in Verdicts(d.w) :
           /\ Costs(d.cost + v.cost)
           /\ files' = [files EXCEPT ![cur] = Ended(v.w.file)] /\ failed' = v.w.failed
           /\ op' = [op EXCEPT !.done = TRUE, !.ok = ~(d.raised \/ v.raised)]
           /\ st' = ResetPerFile(IF d.kept THEN st ELSE Emptied(st))
           /\ owed' = IF d.kept THEN owed \ FramesOf(st.data) ELSE owed
    /\ cur' = 0 /\ pf' = FreshFileState /\ rows' = <<>>
    /\ UNCHANGED <<producer, sock, queue, bg, held, phase>>

\* _rotate_file
BgRotate ==
    /\ Working("rotate")
    /\ \E d \in Drains(Open) : \E v \in Verdicts(d.w) :
           /\ ~d.raised /\ ~v.raised /\ Costs(d.cost + v.cost)
           /\ files' = Append([files EXCEPT ![cur] = Ended(v.w.file)], NewFile) /\ failed' = v.w.failed
    /\ cur' = Len(files) + 1 /\ pf' = FreshFileState /\ rows' = <<>>
    /\ st' = ResetPerFile(Emptied(st))
    /\ op' = [op EXCEPT !.done = TRUE]
    /\ UNCHANGED <<producer, sock, queue, bg, held, phase, owed>>

\* The path was taken meanwhile, the drain or the verdict raised, or the new file
\* cannot be configured after both: the old file goes on.
BgRotateFails ==
    /\ Working("rotate")
    /\ op' = [op EXCEPT !.done = TRUE, !.ok = FALSE]
    /\ \/ Fault /\ UNCHANGED <<memory, disk, failed>>
       \/ \E d \in Drains(Open) : \E v \in Verdicts(d.w) \cup {d} :
              /\ v = d <=> d.raised
              /\ Costs(IF v = d THEN d.cost ELSE d.cost + v.cost + (IF v.raised THEN 0 ELSE 1))
              /\ files' = [files EXCEPT ![cur] = v.w.file] /\ pf' = v.w.pf /\ failed' = v.w.failed
              /\ ~d.kept /\ st' = Emptied(st) /\ rows' = <<>> /\ cur' = cur
    /\ UNCHANGED <<producer, sock, queue, bg, held, phase, owed>>

\* An exception escapes the loop of _bg_thread_run
BgDies ==
    /\ bg = "live" /\ phase = "run" /\ hand # None /\ Fault
    /\ bg' = "dead" /\ phase' = "closing" /\ hand' = None
    /\ owed' = Owed
    /\ failed' = failed \cup BatchFrames(hand)
    /\ UNCHANGED <<producer, sock, memory, disk, queue, op, held>>

-----------------------------------------------------------------------------
(* close *)

Shutdown ==
    /\ phase = "run" /\ phase' = "closing"
    /\ owed' = Owed
    /\ UNCHANGED <<producer, sock, memory, disk, queue, hand, bg, op, held, failed, budget>>

\* The join succeeds once the thread has put its request aside; then
\* _drain_bg_queue_locked, the reservoir and the verdict, each of which may raise
Close ==
    /\ phase = "closing" /\ hand = None /\ phase' = "closed" /\ queue' = <<>>
    /\ IF cur = 0 THEN UNCHANGED <<memory, disk, failed, budget>>
       ELSE \E bad, refused \in SUBSET DOMAIN queue :
            \E d \in Drains(WriteQueue(Open, queue, bad, refused)) :
            \E v \in Verdicts(IF d.kept THEN Raised(d.w, Batch) ELSE d.w) :
               /\ Costs(Cardinality(bad) + Cardinality(refused) + d.cost + v.cost)
               /\ files' = [files EXCEPT ![cur] = Ended(v.w.file)] /\ pf' = v.w.pf /\ failed' = v.w.failed
               /\ cur' = 0 /\ st' = Emptied(st) /\ rows' = <<>>
    /\ UNCHANGED <<producer, sock, hand, bg, op, held, owed>>

\* The join of _shutdown_bg_thread timed out: the file is closed as it is
CloseForced ==
    /\ phase = "closing" /\ bg = "live" /\ hand # None /\ Fault
    /\ phase' = "forced" /\ cur' = 0
    /\ files' = IF cur = 0 THEN files ELSE [files EXCEPT ![cur].open = FALSE]
    /\ UNCHANGED <<producer, sock, memory, pf, queue, hand, bg, op, held, ghost>>

-----------------------------------------------------------------------------
MainLoop == Receive \/ EnqueueFlushBatch \/ HoldSocketMessages \/ SubmitFileOp \/ FinishFileOp \/ ReplayHeld
BgLoop == BgTake \/ BgWrite \/ BgStop \/ BgRotate

Next ==
    \/ WriteFrame \/ DriverRestart
    \/ MainLoop \/ ExpirePending \/ ExpireMap \/ DropOldest
    \/ StreamsExpect \/ WritingStart \/ WritingStop \/ Rotate
    \/ BgLoop \/ BgWriteRaises \/ BgRotateFails \/ BgDies
    \/ Shutdown \/ Close \/ CloseForced

\* The main loop and the background thread run until the process closes.
Fairness ==
    /\ WF_vars(SubmitFileOp \/ FinishFileOp)
    /\ WF_vars(BgTake \/ BgWrite \/ BgWriteRaises \/ BgStop \/ BgRotate \/ BgRotateFails)

Spec == Init /\ [][Next]_vars /\ Fairness

-----------------------------------------------------------------------------
(* Properties *)

\* Where a row is: its file and its index
Places == UNION {{<<f, i>> : i \in DOMAIN files[f].rows} : f \in DOMAIN files}
Row(p) == files[p[1]].rows[p[2]]

\* A frame carries the context it was acquired under or none at all, never
\* that of another frame: the map of contexts is keyed by sequence number
\* and a new ring counts from one again.
ContextFaithful ==
    \A p \in Places : Row(p).c \in {Unknown, ring[Row(p).g][Row(p).n]}

\* When a stop or a rotate is reported successful, the file it closed holds
\* what it held and what was in memory or queued when the request was
\* accepted, and nothing that arrived later ("FIFO order lands them in the
\* old file", hdf_writer_bg.py:59).
CutAtTheRequest ==
    op # None /\ op.done /\ op.ok => FramesOf(files[op.file].rows) = op.owed \ failed

\* A close that joined the background thread leaves nothing behind that was
\* in memory or queued ("so shutdown is lossless", hdf_writer.py:3240).
CloseLossless == phase = "closed" => owed \ failed \subseteq UNION {FramesOf(files[f].rows) : f \in DOMAIN files}

\* A file that ended with acquisition_ok holds at least the rows each
\* context was expected to have, whatever was lost, refused or discarded,
\* unless the attempt to write its verdict raised.
VerdictSound ==
    \A i \in DOMAIN files : files[i].ended /\ files[i].ok /\ ~files[i].unsaved =>
        \A c \in Contexts :
            Cardinality({k \in DOMAIN files[i].rows : files[i].rows[k].c = c}) >= files[i].expect[c]

\* A frame is never written twice within one attachment to its ring, in one
\* file or in two.
NoFrameTwice ==
    \A p, q \in Places :
        p # q => <<FrameOf(Row(p)), Row(p).a>> # <<FrameOf(Row(q)), Row(q).a>>

\* "Drain-failure reset / re-attach -> would start session_002": the rows of
\* one session of a file come from one attachment to a ring.
OneAttachmentPerSession ==
    \A f \in DOMAIN files : \A i, j \in DOMAIN files[f].rows :
        files[f].rows[i].session = files[f].rows[j].session => files[f].rows[i].a = files[f].rows[j].a

\* What a file says of its frames is true, whatever descriptor was lost, late or
\* of another ring and whatever raised: a row has its own context or none, and
\* acquisition_ok is only kept by a file with all the rows that were expected, or
\* by one whose verdict could not be written.
FilesTruthful == ContextFaithful /\ VerdictSound

\* Frames end up in one place: a stop or a rotate cuts at the request, a close
\* leaves nothing behind that was in memory or queued, and no frame is written
\* twice, although the background thread fails and the queue fills up.
FramesKeptOnce == CutAtTheRequest /\ CloseLossless /\ NoFrameTwice

\* An accepted stop or rotate ends, also when the queue was full at first,
\* unless the process closes.
FileOpEnds == op # None ~> (op = None \/ phase # "run")
=============================================================================
