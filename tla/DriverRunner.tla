---------------------------- MODULE DriverRunner ----------------------------
(***************************************************************************)
(* The loop of a driver process (_driver/runner.py): one request at a time *)
(* from the manager, then heartbeat, telemetry and scheduled streams.      *)
(* Every call of the device may fail; the runner derives from that what it *)
(* tells the manager about the device's health.                            *)
(***************************************************************************)
EXTENDS Integers

CONSTANTS HasSignals,   \* the device has telemetry signals
          Period,       \* period_s of the scheduled stream call; 0: none
          MaxTime,      \* bound: the clock
          MaxContext    \* bound: context ids

VARIABLES health,       \* _device_state, _device_reachable, _action_failed_since_last_ok, _last_error
          link,         \* the device's handle, and whether a disconnect failed on it
          members,      \* _members_cache is filled
          step,         \* where the loop is
          clock,        \* time.monotonic()
          sched,        \* the _ScheduledStreamCallPlan, with what it published since `start`
          context,      \* _stream_context of the stream; 0: none
          lastTick,     \* ghost: what the latest telemetry tick found
          heartbeat     \* the latest heartbeat published

runnerVars == <<health, link, members, step, clock, sched, context, lastTick, heartbeat>>

Disconnected == [state |-> "DISCONNECTED", reachable |-> FALSE, failed |-> FALSE, error |-> FALSE]
Connected == health.state # "DISCONNECTED"

\* run(), after registration.
Init ==
    /\ health = Disconnected
    /\ link = [open |-> FALSE, stuck |-> FALSE, called |-> FALSE]
    /\ members = FALSE /\ step = "poll" /\ clock = 0
    /\ sched = [due |-> Period, resync |-> FALSE, missed |-> 0, sent |-> 0, start |-> 0]
    /\ context = 0 /\ lastTick = "none" /\ heartbeat = Disconnected

Time ==
    /\ step # "ended" /\ clock < MaxTime
    /\ clock' = clock + 1
    /\ UNCHANGED <<health, link, members, step, sched, context, lastTick, heartbeat>>

-----------------------------------------------------------------------------
(* Health *)

Degraded(h) == [h EXCEPT !.state = IF @ = "DISCONNECTED" THEN @ ELSE "DEGRADED"]

\* _mark_device_unreachable.
Unreachable(h) == [Degraded(h) EXCEPT !.reachable = FALSE, !.failed = TRUE, !.error = TRUE]

\* A command or stream call that worked; a get or set that worked.
CommandWorked(h) == [h EXCEPT !.reachable = TRUE, !.failed = FALSE, !.error = FALSE]
AccessWorked(h) == [h EXCEPT !.failed = FALSE]

\* disconnect_device(): closes the handle, or raises with the handle as it was.
Closed(l, ok) == IF ok THEN [l EXCEPT !.open = FALSE, !.stuck = FALSE] ELSE [l EXCEPT !.stuck = TRUE]

-----------------------------------------------------------------------------
(* Requests *)

InPoll == step = "poll"
Handled == step' = "publish"

\* _rpc_route_connect_device: `ok` is what connect() does, `dis` what the
\* disconnects do, `half` whether a failing connect() left the handle open.
ConnectWithoutCleanup(ok, half, dis) ==
    LET l == IF Connected THEN Closed(link, dis) ELSE link
        opened == [l EXCEPT !.called = TRUE, !.open = @ \/ ok \/ half]
    IN  /\ InPoll /\ ~(health.state = "OK" /\ health.reachable)
        /\ link' = opened
        /\ health' = IF ok THEN [state |-> "OK", reachable |-> TRUE, failed |-> FALSE, error |-> FALSE]
                     ELSE [health EXCEPT !.state = "DISCONNECTED", !.reachable = FALSE, !.error = TRUE]
        /\ members' = ok
        /\ lastTick' = "none"
        /\ Handled
        /\ UNCHANGED <<clock, sched, context, heartbeat>>

Connect(ok, half, dis) ==
    LET l == IF Connected THEN Closed(link, dis) ELSE link
        opened == [l EXCEPT !.called = TRUE, !.open = @ \/ ok \/ half]
    IN  /\ InPoll /\ ~(health.state = "OK" /\ health.reachable)
        /\ link' = IF ok THEN opened ELSE Closed(opened, dis)
        /\ health' = IF ok THEN [state |-> "OK", reachable |-> TRUE, failed |-> FALSE, error |-> FALSE]
                     ELSE [health EXCEPT !.state = "DISCONNECTED", !.reachable = FALSE, !.error = TRUE]
        /\ members' = ok
        /\ lastTick' = "none"
        /\ Handled
        /\ UNCHANGED <<clock, sched, context, heartbeat>>

Disconnect(ok) ==
    /\ InPoll /\ Connected
    /\ link' = Closed(link, ok)
    /\ health' = IF ok THEN [health EXCEPT !.state = "DISCONNECTED", !.reachable = FALSE] ELSE [health EXCEPT !.error = TRUE]
    /\ members' = (members /\ ~ok)
    /\ lastTick' = IF ok THEN "none" ELSE lastTick
    /\ Handled
    /\ UNCHANGED <<clock, sched, context, heartbeat>>

\* get, set, a device command or a stream call; "refused" is the caller's
\* mistake.
DeviceCall(kind, outcome) ==
    /\ InPoll /\ Connected
    /\ health' = CASE outcome = "refused" -> health
                   [] outcome = "raises" -> Unreachable(health)
                   [] kind = "access" -> AccessWorked(health)
                   [] OTHER -> CommandWorked(health)
    /\ members' = TRUE
    /\ lastTick' = IF outcome = "raises" THEN "none" ELSE lastTick
    /\ Handled
    /\ UNCHANGED <<link, clock, sched, context, heartbeat>>

\* identity, refresh_capabilities and collect_run_metadata: an exception only
\* leaves its text.
Inquiry(ok) ==
    /\ InPoll
    /\ health' = [health EXCEPT !.error = @ \/ ~ok]
    /\ members' \in IF Connected THEN {members, ok} ELSE {members}
    /\ Handled
    /\ UNCHANGED <<link, clock, sched, context, lastTick, heartbeat>>

ContextSet(c) ==
    /\ InPoll
    /\ context' = c
    /\ Handled
    /\ UNCHANGED <<health, link, members, clock, sched, lastTick, heartbeat>>

\* No request in this round, or one that changes nothing.
NoRequest ==
    /\ InPoll
    /\ Handled
    /\ UNCHANGED <<health, link, members, clock, sched, context, lastTick, heartbeat>>

Shutdown ==
    /\ InPoll
    /\ step' = "last"
    /\ UNCHANGED <<health, link, members, clock, sched, context, lastTick, heartbeat>>

-----------------------------------------------------------------------------
(* Publishing *)

\* Mutant: good telemetry alone makes the device healthy again.
AfterTelemetryTrusting(h, found) ==
    IF h.state = "DISCONNECTED" THEN h
    ELSE CASE found \in {"raises", "none"} -> [Degraded(h) EXCEPT !.reachable = FALSE, !.error = TRUE]
           [] found = "some" -> [Degraded(h) EXCEPT !.reachable = TRUE, !.error = TRUE]
           [] OTHER -> [h EXCEPT !.reachable = TRUE, !.state = "OK", !.error = FALSE]

\* _publish_telemetry and _apply_telemetry_quality_state: `found` says how
\* many signals have quality OK.
AfterTelemetry(h, found) ==
    IF h.state = "DISCONNECTED" THEN h
    ELSE CASE found = "raises" -> [Degraded(h) EXCEPT !.reachable = FALSE, !.error = TRUE]
           [] found = "none" /\ HasSignals -> [Degraded(h) EXCEPT !.reachable = FALSE, !.error = TRUE]
           [] h.failed -> [Degraded(h) EXCEPT !.reachable = FALSE]
           [] ~HasSignals -> [h EXCEPT !.reachable = TRUE, !.error = FALSE]
           [] found = "some" -> [Degraded(h) EXCEPT !.reachable = TRUE, !.error = TRUE]
           [] OTHER -> [h EXCEPT !.reachable = TRUE, !.state = "OK", !.error = FALSE]

\* Mutant: the due time moves by the missed periods only.
DueAfterMissed(s) ==
    LET missed == (clock - s.due) \div Period
    IN  [s EXCEPT !.due = @ + missed * Period, !.missed = @ + missed]

\* The next due time, past the periods that were missed.
DueAfter(s) ==
    LET missed == (clock - s.due) \div Period
    IN  [s EXCEPT !.due = @ + (missed + 1) * Period, !.missed = @ + missed]

IsDue(s) == Period > 0 /\ clock >= s.due

\* _publish_scheduled_streams.
Scheduled(h, ok) ==
    IF h.state = "DISCONNECTED" THEN [s |-> [sched EXCEPT !.resync = TRUE], h |-> h]
    ELSE IF sched.resync THEN [s |-> [sched EXCEPT !.resync = FALSE, !.due = clock + Period, !.start = clock, !.missed = 0, !.sent = 0], h |-> h]
    ELSE IF ~IsDue(sched) THEN [s |-> sched, h |-> h]
    ELSE [s |-> [DueAfter(sched) EXCEPT !.sent = @ + 1],
          h |-> IF ok THEN [h EXCEPT !.reachable = TRUE, !.error = FALSE] ELSE [Degraded(h) EXCEPT !.error = TRUE]]

\* The rest of a round: heartbeat and telemetry when they are due, streams.
Publish(beat, found, ok) ==
    LET h1 == IF found = "not due" THEN health ELSE AfterTelemetry(health, found)
        r == Scheduled(h1, ok)
    IN  /\ step \in {"publish", "last"}
        /\ heartbeat' = IF beat THEN health ELSE heartbeat
        /\ health' = r.h /\ sched' = r.s
        /\ lastTick' = IF ~Connected \/ found = "not due" THEN IF r.h = h1 THEN lastTick ELSE "none"
                       ELSE IF found = "all" /\ ~health.failed /\ r.h.state = h1.state THEN "healthy" ELSE "none"
        /\ step' = IF step = "last" THEN "cleanup" ELSE "poll"
        /\ UNCHANGED <<link, members, clock, context>>

\* The finally block: a device that was ever connected is disconnected.
Cleanup(ok) ==
    /\ step = "cleanup"
    /\ link' = IF link.called THEN Closed(link, ok) ELSE link
    /\ step' = "ended"
    /\ UNCHANGED <<health, members, clock, sched, context, lastTick, heartbeat>>

Next ==
    \/ Time \/ NoRequest \/ Shutdown
    \/ \E ok, half, dis \in BOOLEAN : Connect(ok, half, dis)
    \/ \E ok \in BOOLEAN : Disconnect(ok) \/ Inquiry(ok) \/ Cleanup(ok)
    \/ \E kind \in {"access", "command"}, outcome \in {"ok", "raises", "refused"} : DeviceCall(kind, outcome)
    \/ \E c \in 0..MaxContext : ContextSet(c)
    \/ \E beat, ok \in BOOLEAN, found \in {"not due", "all", "some", "none", "raises"} : Publish(beat, found, ok)

Spec == Init /\ [][Next]_runnerVars

-----------------------------------------------------------------------------
(* While the last action on the device has failed it is not reported OK,   *)
(* however good its telemetry looks (_mark_device_unreachable's latch); no *)
(* heartbeat claims it either.                                             *)
FailedActionIsVisible ==
    /\ health.state = "OK" => ~health.failed
    /\ heartbeat.state = "OK" => ~heartbeat.failed

(* A runner that reports its device disconnected, or has ended, holds no   *)
(* open handle, unless the device's own disconnect raised.                 *)
NoHandleLeft == (health.state = "DISCONNECTED" \/ step = "ended") /\ link.open => link.stuck

(* The stream schedule neither bursts nor drifts: since the last           *)
(* reconnect, the next due time is ahead by exactly the calls made and the *)
(* periods counted as missed.                                              *)
ScheduleExact ==
    Period > 0 /\ Connected /\ ~sched.resync
        => sched.due = sched.start + (sched.sent + sched.missed + 1) * Period

(* Once the failed action has been retried with success, a good telemetry  *)
(* tick makes the device OK again.                                         *)
RecoversOnGoodTick == lastTick = "healthy" => health.state \in {"OK", "DISCONNECTED"}
=============================================================================
