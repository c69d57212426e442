---------------------------- MODULE InfluxWriter ----------------------------
(***************************************************************************)
(* The Influx writer (processes/influx_writer.py).  The main loop turns    *)
(* telemetry into points, keeps them in a bounded queue and hands batches  *)
(* to a thread that posts them; what a destination refuses goes back to    *)
(* the front of the queue.  A flush holds the queue's lock only while it   *)
(* empties the queue and while it puts points back, so the thread may put  *)
(* back points of its own in between.                                      *)
(***************************************************************************)
EXTENDS Integers, Sequences, SequencesExt, FiniteSets

CONSTANTS Sources,          \* devices and processes that publish telemetry
          Processes,        \* the sources that are processes
          Remote,           \* the ones that a peer owns
          Destinations,
          RouteOf,          \* source -> destination it is routed to
          MaxQueuePoints,   \* max_queue_points
          HttpQueueMax,     \* capacity of _http_queue
          DropNewest,       \* overflow_policy = "drop_newest"
          MaxUpdates,       \* bound: telemetry updates
          MaxChanges        \* bound: settings changed by clients and by the catalog

VARIABLES points,           \* _queue
          batches,          \* _http_queue: batches, each a sequence of groups; <<>> is the sentinel
          flushing,         \* locals of the main loop's _flush
          poster,           \* locals of the HTTP thread
          backoff,          \* destinations waiting out a back-off
          counters,         \* updates accepted, _points_dropped_overflow, _points_skipped_invalid, changes
          written,          \* points a destination has confirmed and no batch error has put back
          remoteKnown,      \* _remote_device_ids
          muted,            \* _disabled_devices
          influxOn,         \* _enabled
          stopEvt,          \* _stop_evt
          ending            \* how far run() is in its finally block

settings == <<remoteKnown, muted, influxOn>>
influxVars == <<points, batches, flushing, poster, backoff, counters, written, settings, stopEvt, ending>>

NoFlush == [stage |-> "no", pending |-> <<>>, ready |-> <<>>]
NoPoster == [at |-> "top", batch |-> <<>>, groups |-> <<>>, failed |-> <<>>]

Init ==
    /\ points = <<>> /\ batches = <<>> /\ flushing = NoFlush /\ poster = NoPoster /\ backoff = {}
    /\ counters = [updates |-> 0, overflow |-> 0, invalid |-> 0, changes |-> 0]
    /\ written = {}
    /\ remoteKnown \in {{}, Remote \ Processes} \* _refresh_device_catalog may get no answer
    /\ muted = {} /\ influxOn = TRUE /\ stopEvt = FALSE /\ ending = "no"

\* The main loop is between two steps of its own.
MainFree == ending = "no" /\ flushing.stage = "no"

SettingsChange ==
    /\ MainFree /\ counters.changes < MaxChanges
    /\ counters' = [counters EXCEPT !.changes = @ + 1]

-----------------------------------------------------------------------------
(* Ingest *)

\* _handle_device_config.
DeviceConfig(s) ==
    /\ SettingsChange /\ s \notin Processes
    /\ remoteKnown' = IF s \in Remote THEN remoteKnown \cup {s} ELSE remoteKnown \ {s}
    /\ UNCHANGED <<points, batches, flushing, poster, backoff, written, muted, influxOn, stopEvt, ending>>

\* A device is skipped by what the catalog says of it, a process by the mark
\* its message carries.
Accepts(s) ==
    /\ influxOn /\ s \notin muted
    /\ s \notin IF s \in Processes THEN Remote ELSE remoteKnown

\* _enqueue_point: the queue and the number of points dropped.
Enqueue(q, p) ==
    IF Len(q) < MaxQueuePoints THEN <<Append(q, p), 0>>
    ELSE IF DropNewest THEN <<q, 1>>
    ELSE <<Append(Tail(q), p), 1>>

\* A usable update is queued.
IngestTelemetry(s) ==
    LET r == Enqueue(points, [id |-> counters.updates + 1, to |-> RouteOf[s], from |-> s])
    IN  /\ MainFree /\ counters.updates < MaxUpdates /\ Accepts(s)
        /\ points' = r[1]
        /\ counters' = [counters EXCEPT !.updates = @ + 1, !.overflow = @ + r[2]]
        /\ UNCHANGED <<batches, flushing, poster, backoff, written, settings, stopEvt, ending>>

\* No signal has a value that can be stored, or the line cannot be built.
IngestInvalid(s) ==
    /\ MainFree /\ counters.updates < MaxUpdates /\ Accepts(s)
    /\ counters' = [counters EXCEPT !.updates = @ + 1, !.invalid = @ + 1]
    /\ UNCHANGED <<points, batches, flushing, poster, backoff, written, settings, stopEvt, ending>>

-----------------------------------------------------------------------------
(* Flush *)

\* One point goes back to the front of the queue.
PutBack(p, r) ==
    IF Len(r[1]) < MaxQueuePoints THEN <<<<p>> \o r[1], r[2]>>
    ELSE IF DropNewest THEN <<r[1], r[2] + 1>>
    ELSE <<<<p>> \o Tail(r[1]), r[2] + 1>>

\* _requeue_failed, last point first.
Requeue(q, ps) == FoldRight(PutBack, ps, <<q, 0>>)

\* The queue and the counter after ps were put back.
PutsBack(ps) ==
    LET r == Requeue(points, ps)
    IN  points' = r[1] /\ counters' = [counters EXCEPT !.overflow = @ + r[2]]

\* _group_points_by_destination, of the destinations in ds.
Group(ps, ds) ==
    LET firsts == [i \in DOMAIN ps |-> ps[i].to]
        order == SelectSeq(FoldLeft(LAMBDA seen, d : IF Contains(seen, d) THEN seen ELSE Append(seen, d), <<>>, firsts),
                           LAMBDA d : d \in ds)
    IN  [k \in DOMAIN order |-> [to |-> order[k], points |-> SelectSeq(ps, LAMBDA p : p.to = order[k])]]

PointsOf(groups) == FlattenSeq([k \in DOMAIN groups |-> groups[k].points])

\* _flush empties the queue: when the interval is over or the queue is long and
\* writing is enabled, when a client asks (influx.flush), and a last time when
\* the loop sees the stop event or an exception leaves it.
FlushTakes ==
    /\ MainFree
    /\ \/ points # <<>> /\ UNCHANGED ending
       \/ ending' = "flushed"
    /\ flushing' = IF points = <<>> THEN flushing ELSE [flushing EXCEPT !.stage = "split", !.pending = points]
    /\ points' = <<>>
    /\ UNCHANGED <<batches, poster, backoff, counters, written, settings, stopEvt>>

\* The points that wait for a back-off go back.
FlushSplits ==
    LET ready == Group(flushing.pending, Destinations \ backoff)
    IN  /\ flushing.stage = "split"
        /\ PutsBack(PointsOf(Group(flushing.pending, backoff)))
        /\ flushing' = IF ready = <<>> THEN NoFlush ELSE [stage |-> "put", pending |-> <<>>, ready |-> ready]
        /\ UNCHANGED <<batches, poster, backoff, written, settings, stopEvt, ending>>

\* Mutant: a batch that does not fit is given up.
FlushPutsOrLoses ==
    /\ flushing.stage = "put"
    /\ batches' = IF Len(batches) < HttpQueueMax THEN Append(batches, flushing.ready) ELSE batches
    /\ flushing' = NoFlush
    /\ UNCHANGED <<points, counters, poster, backoff, written, settings, stopEvt, ending>>

\* The others are handed over as one batch, or go back too.
FlushPuts ==
    /\ flushing.stage = "put"
    /\ IF Len(batches) < HttpQueueMax
       THEN batches' = Append(batches, flushing.ready) /\ UNCHANGED <<points, counters>>
       ELSE PutsBack(PointsOf(flushing.ready)) /\ UNCHANGED batches
    /\ flushing' = NoFlush
    /\ UNCHANGED <<poster, backoff, written, settings, stopEvt, ending>>

BackoffOver(d) ==
    /\ d \in backoff
    /\ backoff' = backoff \ {d}
    /\ UNCHANGED <<points, batches, flushing, poster, counters, written, settings, stopEvt, ending>>

-----------------------------------------------------------------------------
(* The HTTP thread *)

\* The head of its loop.
PosterChecks ==
    /\ poster.at = "top"
    /\ poster' = [poster EXCEPT !.at = IF stopEvt THEN "dead" ELSE "get"]
    /\ UNCHANGED <<points, batches, flushing, backoff, counters, written, settings, stopEvt, ending>>

\* It gets a batch, or the sentinel, which ends it.
PosterTakes ==
    /\ poster.at = "get" /\ batches # <<>>
    /\ poster' = IF Head(batches) = <<>> THEN [poster EXCEPT !.at = "dead"]
                 ELSE [poster EXCEPT !.at = "post", !.batch = Head(batches), !.groups = Head(batches)]
    /\ batches' = Tail(batches)
    /\ UNCHANGED <<points, flushing, backoff, counters, written, settings, stopEvt, ending>>

\* The queue stays empty for its half second.
PosterGivesUp ==
    /\ poster.at = "get" /\ batches = <<>>
    /\ poster' = [poster EXCEPT !.at = "top"]
    /\ UNCHANGED <<points, batches, flushing, backoff, counters, written, settings, stopEvt, ending>>

\* One group: skipped in a back-off, confirmed, or failed; an HTTP error starts a
\* back-off, unless it says to retry at once.
Post ==
    LET g == Head(poster.groups)
        ids == {p.id : p \in ToSet(g.points)}
        failed == [poster EXCEPT !.groups = Tail(@), !.failed = @ \o g.points]
    IN  /\ poster.at = "post" /\ poster.groups # <<>>
        /\ \/ /\ g.to \in backoff
              /\ poster' = failed /\ UNCHANGED <<backoff, written>>
           \/ /\ g.to \notin backoff
              /\ poster' = [poster EXCEPT !.groups = Tail(@)]
              /\ written' = written \cup ids
              /\ UNCHANGED backoff
           \/ /\ g.to \notin backoff
              /\ poster' = failed
              /\ backoff' \in {backoff, backoff \cup {g.to}}
              /\ UNCHANGED written
        /\ UNCHANGED <<points, batches, flushing, counters, settings, stopEvt, ending>>

\* What failed goes back.
PosterFinishes ==
    /\ poster.at = "post" /\ poster.groups = <<>>
    /\ PutsBack(poster.failed)
    /\ poster' = NoPoster
    /\ UNCHANGED <<batches, flushing, backoff, written, settings, stopEvt, ending>>

\* An exception that no destination's handler takes: the whole batch goes back,
\* group by group, with the groups that were written (and will be once more).
PosterBatchError ==
    LET putGroup(r, g) == LET s == Requeue(r[1], g.points) IN <<s[1], r[2] + s[2]>>
        r == FoldLeft(putGroup, <<points, 0>>, poster.batch)
    IN  /\ poster.at = "post" /\ poster.groups # <<>>
        /\ points' = r[1] /\ counters' = [counters EXCEPT !.overflow = @ + r[2]]
        /\ written' = written \ {p.id : p \in ToSet(PointsOf(poster.batch))}
        /\ poster' = NoPoster
        /\ UNCHANGED <<batches, flushing, backoff, settings, stopEvt, ending>>

\* An exception in that handler ends the thread, with what it holds, and the
\* process.
PosterDies ==
    /\ poster.at = "post" /\ poster.groups # <<>>
    /\ poster' = [poster EXCEPT !.at = "dead"]
    /\ stopEvt' = TRUE
    /\ UNCHANGED <<points, batches, flushing, backoff, counters, written, settings, ending>>

-----------------------------------------------------------------------------
(* RPC and shutdown *)

Enable(on) ==
    /\ SettingsChange /\ influxOn # on
    /\ influxOn' = on
    /\ UNCHANGED <<points, batches, flushing, poster, backoff, written, remoteKnown, muted, stopEvt, ending>>

ToggleDevice(s) ==
    /\ SettingsChange
    /\ muted' = IF s \in muted THEN muted \ {s} ELSE muted \cup {s}
    /\ UNCHANGED <<points, batches, flushing, poster, backoff, written, remoteKnown, influxOn, stopEvt, ending>>

\* A signal or the manager's stop call.
Stop ==
    /\ ~stopEvt /\ ending = "no" /\ stopEvt' = TRUE
    /\ UNCHANGED <<points, batches, flushing, poster, backoff, counters, written, settings, ending>>

\* After the last flush the sentinel is queued, unless the queue stays full for
\* a second; then the thread is waited for, for five seconds, and being a daemon
\* it ends with the process whatever it is at.
PutSentinel ==
    /\ ending = "flushed" /\ flushing.stage = "no" /\ ending' = "joining"
    /\ batches' = IF Len(batches) < HttpQueueMax THEN Append(batches, <<>>) ELSE batches
    /\ UNCHANGED <<points, flushing, poster, backoff, counters, written, settings, stopEvt>>

Next ==
    \/ \E s \in Sources : DeviceConfig(s) \/ IngestTelemetry(s) \/ IngestInvalid(s) \/ ToggleDevice(s)
    \/ FlushTakes \/ FlushSplits \/ FlushPuts
    \/ PosterChecks \/ PosterTakes \/ PosterGivesUp \/ Post \/ PosterFinishes \/ PosterBatchError \/ PosterDies
    \/ \E d \in Destinations : BackoffOver(d)
    \/ \E on \in BOOLEAN : Enable(on)
    \/ Stop \/ PutSentinel

Spec == Init /\ [][Next]_influxVars

-----------------------------------------------------------------------------
Held ==
    points \o FlattenSeq([b \in DOMAIN batches |-> PointsOf(batches[b])])
    \o flushing.pending \o PointsOf(flushing.ready) \o PointsOf(poster.groups) \o poster.failed
HeldIds == {p.id : p \in ToSet(Held)}

(* No point disappears uncounted and none is written twice without need,   *)
(* whatever the destinations answer, however the queues overflow and       *)
(* however the flush and the HTTP thread interleave: every update is held  *)
(* in one place, confirmed, or counted as dropped or invalid; the queue    *)
(* keeps its bound; and a point that a destination has confirmed is not    *)
(* held for another post, the batches put back by the thread's last-resort *)
(* handler apart (_flush, _requeue_failed, _flush_grouped_points).         *)
PointsAccounted ==
    /\ Cardinality(HeldIds) = Len(Held)
    /\ Cardinality((1..counters.updates) \ (HeldIds \cup written)) <= counters.overflow + counters.invalid
    /\ Len(points) <= MaxQueuePoints
    /\ written \cap HeldIds = {}
    /\ \A p \in ToSet(Held) : p.to = RouteOf[p.from]
=============================================================================
