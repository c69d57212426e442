------------------------------ MODULE Watchdog ------------------------------
(***************************************************************************)
(* The watchdog process (processes/watchdog.py).  The main loop evaluates  *)
(* every rule against the latest telemetry and queues the action chain of  *)
(* a rule that trips; one worker thread runs the chains, while clients     *)
(* clear latches and switch rulesets.  The time conditions (stable_for_s,  *)
(* cooldown_s, max_age_s) elapse at any moment.  Both threads share the    *)
(* manager client, whose lock is held for a whole call.                    *)
(***************************************************************************)
EXTENDS Integers, Sequences, FiniteSets, FiniteSetsExt

CONSTANTS Rules,        \* in evaluation order; each is a ruleset of its own
          Signals,      \* telemetry signals
          Rule,         \* what each rule says
          MaxSamples,   \* bound: samples of a signal
          MaxTrips,     \* bound: trips of a rule
          MaxClears     \* bound: manual clears of a rule

VARIABLES sample,       \* ManagerClient telemetry cache: signal -> latest sample
          was,          \* ghost: the values of all samples of a signal
          enabled,      \* WatchdogEntry.enabled
          rst,          \* _states: rule -> RuleState
          inflight,     \* _inflight_action_keys
          queue,        \* _action_executor's queue
          worker,       \* its thread
          trips,        \* trip ids given out, per rule
          clears,       \* ghost: clears of a latched rule
          tripped       \* ghost: the evidence of the latest trip, and of the earlier ones

watchdogVars == <<sample, was, enabled, rst, inflight, queue, worker, trips, clears, tripped>>

NoChain == [trip |-> 0, state |-> "none", results |-> <<>>]
IdleWorker == [phase |-> "idle"]
FreshConfirmation == [a \in Signals |-> [n |-> 0, last |-> 0, ev |-> {}]]
FreshRule == [latched |-> FALSE, armed |-> FALSE, since |-> "none", cooling |-> FALSE, trip |-> 0,
              recovered |-> FALSE, conf |-> FreshConfirmation, chain |-> NoChain]

Init ==
    /\ sample = [a \in Signals |-> [id |-> 0, ok |-> FALSE]]
    /\ was = [a \in Signals |-> <<>>]
    /\ enabled = [r \in Rules |-> TRUE]
    /\ rst = [r \in Rules |-> FreshRule]
    /\ inflight = {} /\ queue = <<>> /\ worker = IdleWorker
    /\ trips = [r \in Rules |-> 0] /\ clears = [r \in Rules |-> 0]
    /\ tripped = [r \in Rules |-> [ev |-> {}, earlier |-> {}, unknown |-> TRUE]]

-----------------------------------------------------------------------------
(* Telemetry *)

Value(a) == was[a][sample[a].id]

\* A sample of good quality, or not ("bad").
TelemetryArrives(a, value) ==
    /\ Len(was[a]) < MaxSamples
    /\ was' = [was EXCEPT ![a] = Append(@, value)]
    /\ sample' = [sample EXCEPT ![a] = [id |-> Len(was'[a]), ok |-> value # "bad"]]
    /\ UNCHANGED <<enabled, rst, inflight, queue, worker, trips, clears, tripped>>

\* The sample grows older than max_age_s.
SampleAges(a) ==
    /\ sample[a].ok
    /\ sample' = [sample EXCEPT ![a].ok = FALSE]
    /\ UNCHANGED <<was, enabled, rst, inflight, queue, worker, trips, clears, tripped>>

StableElapses(r) ==
    /\ rst[r].since = "counting"
    /\ rst' = [rst EXCEPT ![r].since = "elapsed"]
    /\ UNCHANGED <<sample, was, enabled, inflight, queue, worker, trips, clears, tripped>>

CooldownElapses(r) ==
    /\ rst[r].cooling
    /\ rst' = [rst EXCEPT ![r].cooling = FALSE]
    /\ UNCHANGED <<sample, was, enabled, inflight, queue, worker, trips, clears, tripped>>

-----------------------------------------------------------------------------
(* Evaluation of one rule *)

High(a) == sample[a].ok /\ Value(a) = "high"

\* A required binding has no fresh sample of good quality.
Unknown(r) == Rule[r].required /\ \E a \in Rule[r].aliases : ~sample[a].ok

\* The condition raises on a value it cannot compare.
Raises(r) == ~Unknown(r) /\ \E a \in Rule[r].aliases : sample[a].ok /\ Value(a) = "odd"

Alarm(r) ==
    IF Unknown(r) THEN Rule[r].unknownTrips
    ELSE ~Raises(r) /\ \E a \in Rule[r].aliases : High(a)

ResetConfirmation(conf) == [a \in Signals |-> [conf[a] EXCEPT !.n = 0, !.ev = {}]]

\* Mutant: every tick counts, whether or not the sample is new.
CountedEveryTick(r, c, a) ==
    IF ~sample[a].ok THEN [n |-> 0, last |-> sample[a].id, ev |-> {}]
    ELSE IF Rule[r].branches /\ ~High(a) THEN [n |-> 0, last |-> sample[a].id, ev |-> {}]
    ELSE [n |-> Min({c.n + 1, Rule[r].need}), last |-> sample[a].id, ev |-> c.ev \cup {sample[a].id}]

\* One source's streak after a look at its latest sample; a sample seen before
\* does not advance it.
Counted(r, c, a) ==
    IF ~sample[a].ok THEN [n |-> 0, last |-> sample[a].id, ev |-> {}]
    ELSE IF sample[a].id = c.last THEN c
    ELSE IF Rule[r].branches /\ ~High(a) THEN [n |-> 0, last |-> sample[a].id, ev |-> {}]
    ELSE LET ev == c.ev \cup {sample[a].id}
         IN  [n |-> c.n + 1, last |-> sample[a].id,
              ev |-> IF Cardinality(ev) > Rule[r].need THEN ev \ {Min(ev)} ELSE ev]

Confirmation(r, s) ==
    IF Rule[r].need = 0 THEN s.conf
    ELSE IF Unknown(r) THEN ResetConfirmation(s.conf)
    ELSE [a \in Signals |-> IF a \in Rule[r].aliases THEN Counted(r, s.conf[a], a) ELSE s.conf[a]]

\* on_unknown: trigger needs no confirmation.
Confirmed(r, conf) ==
    Rule[r].need = 0 \/ Unknown(r) \/ \E a \in Rule[r].aliases : conf[a].n >= Rule[r].need

Armed(r, s, arming, disarming) ==
    IF Unknown(r) THEN s.armed ELSE r \in arming \/ (s.armed /\ r \notin disarming)

Disarmed(r, s) == Rule[r].arm /\ ~s.armed

Waits(r, s) == Rule[r].latch /\ s.latched

\* evaluate_watchdog_rule, after the arming conditions: the new rule state and
\* whether the rule triggers.
Evaluate(r, old) ==
    LET s == [old EXCEPT !.conf = Confirmation(r, old),
                         !.since = IF ~Rule[r].stable THEN "elapsed" ELSE IF @ = "none" THEN "counting" ELSE @]
        quiet == [old EXCEPT !.since = "none", !.conf = ResetConfirmation(@)]
        ready == s.since = "elapsed" /\ Confirmed(r, s.conf) /\ ~s.cooling
    IN  IF Disarmed(r, old) \/ ~Alarm(r) THEN [s |-> quiet, triggered |-> FALSE]
        ELSE IF Waits(r, old) THEN [s |-> old, triggered |-> FALSE]
        ELSE IF ~ready THEN [s |-> s, triggered |-> FALSE]
        ELSE [s |-> [s EXCEPT !.latched = Rule[r].latch, !.armed = @ /\ ~Rule[r].disarms], triggered |-> TRUE]

\* The alarm is over, and known to be: the active trip has recovered.
Recovers(r, s) == s.trip # 0 /\ ~s.recovered /\ ~Alarm(r) /\ ~Unknown(r) /\ ~Raises(r)

Recovered(r, s) ==
    IF Recovers(r, s) THEN [s EXCEPT !.recovered = TRUE, !.trip = IF s.latched THEN @ ELSE 0] ELSE s

\* A new trip: cooldown, trip id and a running chain; a new streak is needed for the next.
Tripped(s, id) ==
    [s EXCEPT !.cooling = TRUE, !.trip = id, !.recovered = FALSE,
              !.chain = [trip |-> id, state |-> "running", results |-> <<>>], !.conf = ResetConfirmation(@)]

\* Publishing an event needs the manager client's lock, which a call of the
\* worker holds until it is answered or times out.
LockFree == worker.phase # "call"

-----------------------------------------------------------------------------
(* The main loop *)

\* _evaluate_rules.  The executor takes every chain: it is shut down by close(),
\* after the last evaluation.  A rule that triggers while its previous chain is still in
\* flight is left as it is: latched, but without a trip.
EvaluateRules(arming, disarming) ==
    LET before(r) == IF Rule[r].arm THEN [rst[r] EXCEPT !.armed = Armed(r, rst[r], arming, disarming)] ELSE rst[r]
        after == [r \in Rules |-> Evaluate(r, before(r))]
        acting == {r \in Rules : enabled[r] /\ after[r].triggered /\ r \notin inflight}
        evidence(r) == UNION {{<<a, i>> : i \in after[r].s.conf[a].ev} : a \in Rule[r].aliases}
        news == \E r \in Rules : enabled[r] /\ (r \in acting \/ Recovers(r, after[r].s))
        \* submitted in the order of the rules
        order == CHOOSE q \in [1..Cardinality(acting) -> acting] : \A i, j \in DOMAIN q : i < j => q[i] < q[j]
    IN  /\ \A r \in acting : trips[r] < MaxTrips
        /\ news => LockFree
        /\ rst' = [r \in Rules |->
                     IF ~enabled[r] THEN rst[r]
                     ELSE IF r \in acting THEN Tripped(Recovered(r, after[r].s), trips[r] + 1)
                     ELSE Recovered(r, after[r].s)]
        /\ trips' = [r \in Rules |-> IF r \in acting THEN trips[r] + 1 ELSE trips[r]]
        /\ inflight' = inflight \cup acting
        /\ queue' = queue \o [i \in 1..Cardinality(acting) |-> [rule |-> order[i], trip |-> trips'[order[i]]]]
        /\ tripped' = [r \in Rules |->
                         IF r \in acting
                         THEN [ev |-> evidence(r), unknown |-> Unknown(r), earlier |-> tripped[r].earlier \cup tripped[r].ev]
                         ELSE tripped[r]]
        /\ UNCHANGED <<sample, was, enabled, worker, clears>>

\* watchdog.clear_latch of one rule, or of all.
ClearRuleState(S) ==
    /\ LockFree /\ \A r \in S : clears[r] < MaxClears
    /\ rst' = [r \in Rules |->
                 IF r \notin S THEN rst[r]
                 ELSE [rst[r] EXCEPT !.latched = FALSE, !.armed = FALSE, !.since = "none", !.conf = ResetConfirmation(@),
                                     !.trip = IF rst[r].latched THEN 0 ELSE @,
                                     !.recovered = @ /\ ~rst[r].latched]]
    /\ clears' = [r \in Rules |-> IF r \in S THEN clears[r] + 1 ELSE clears[r]]
    /\ UNCHANGED <<sample, was, enabled, inflight, queue, worker, trips, tripped>>

\* watchdog.enable, disable, and the same of all.
EnableDisable(S, enable) ==
    /\ enabled' = [r \in Rules |-> IF r \in S THEN enable ELSE enabled[r]]
    /\ UNCHANGED <<sample, was, rst, inflight, queue, worker, trips, clears, tripped>>

-----------------------------------------------------------------------------
(* The action worker *)

Actions(r) == Rule[r].retries

WorkerTakes ==
    /\ worker.phase = "idle" /\ queue # <<>>
    /\ worker' = [phase |-> "call", rule |-> Head(queue).rule, trip |-> Head(queue).trip, attempt |-> 1, results |-> <<>>]
    /\ queue' = Tail(queue)
    /\ UNCHANGED <<sample, was, enabled, rst, inflight, trips, clears, tripped>>

\* After an attempt: a retry, the next action, or the end of the chain.
NextCall(w, ok) ==
    LET last == ok \/ w.attempt = 1 + Actions(w.rule)[Len(w.results) + 1]
        results == IF last THEN Append(w.results, [ok |-> ok, attempts |-> w.attempt]) ELSE w.results
    IN  [w EXCEPT !.results = results, !.attempt = IF last THEN 1 ELSE @ + 1,
                  !.phase = IF Len(results) = Len(Actions(w.rule)) THEN "record" ELSE "call"]

\* The call is answered, refused, times out, or raises.
ExecuteAction(ok) ==
    /\ worker.phase = "call"
    /\ worker' = NextCall(worker, ok)
    /\ UNCHANGED <<sample, was, enabled, rst, inflight, queue, trips, clears, tripped>>

\* Anything else in the chain raises (an event cannot be published): the rest of
\* its actions are not tried, and the status says so.
ChainRaises ==
    /\ worker.phase = "call"
    /\ rst' = [rst EXCEPT ![worker.rule].chain =
                 IF @.trip = worker.trip THEN [@ EXCEPT !.state = "error"] ELSE @]
    /\ worker' = [worker EXCEPT !.phase = "release"]
    /\ UNCHANGED <<sample, was, enabled, inflight, queue, trips, clears, tripped>>

\* _on_action_chain_done first records the result, unless a later trip owns the status ...
OnActionChainDone ==
    /\ worker.phase = "record"
    /\ rst' = [rst EXCEPT ![worker.rule].chain =
                 IF @.trip = worker.trip THEN [@ EXCEPT !.state = "completed", !.results = worker.results] ELSE @]
    /\ worker' = [worker EXCEPT !.phase = "release"]
    /\ UNCHANGED <<sample, was, enabled, inflight, queue, trips, clears, tripped>>

\* ... then lets the rule act again.
ReleaseRule ==
    /\ worker.phase = "release"
    /\ inflight' = inflight \ {worker.rule}
    /\ worker' = IdleWorker
    /\ UNCHANGED <<sample, was, enabled, rst, queue, trips, clears, tripped>>

-----------------------------------------------------------------------------

WorkerNext ==
    \/ WorkerTakes \/ (\E ok \in BOOLEAN : ExecuteAction(ok)) \/ ChainRaises
    \/ OnActionChainDone \/ ReleaseRule

Armable == {r \in Rules : Rule[r].arm}

Next ==
    \/ \E a \in Signals, v \in {"low", "high", "odd", "bad"} : TelemetryArrives(a, v)
    \/ \E a \in Signals : SampleAges(a)
    \/ \E r \in Rules : StableElapses(r) \/ CooldownElapses(r)
    \/ \E A \in SUBSET Armable : \E D \in SUBSET Armable : EvaluateRules(A, D)
    \/ \E S \in (SUBSET Rules) \ {{}} : ClearRuleState(S)
    \/ \E S \in (SUBSET Rules) \ {{}}, b \in BOOLEAN : EnableDisable(S, b)
    \/ WorkerNext

Spec == Init /\ [][Next]_watchdogVars

-----------------------------------------------------------------------------
(* Properties *)

\* A trip that needs confirmation rests on one source: `need' distinct samples
\* of it, each above the threshold and none used by an earlier trip, however
\* the ticks, the samples, clears and swallowed triggers interleave.
TripConfirmed ==
    \A r \in Rules : (Rule[r].need > 0 /\ ~tripped[r].unknown) =>
        \E a \in Rule[r].aliases :
            LET mine == {p \in tripped[r].ev : p[1] = a}
            IN  /\ Cardinality(mine) = Rule[r].need
                /\ \A p \in mine : was[a][p[2]] = "high"
                /\ mine \cap tripped[r].earlier = {}

\* A latching rule trips once until it is cleared by hand.
OneTripPerClear == \A r \in Rules : Rule[r].latch => trips[r] <= clears[r] + 1

\* The status of a rule tells the truth about its latest trip: a chain shown as
\* running is still owned by the worker, and one shown as completed has tried
\* every action until it succeeded or its retries were used up (one whose
\* worker raised is shown as an error).
ChainAccounted ==
    \A r \in Rules :
        LET c == rst[r].chain
        IN  /\ c.trip = trips[r]
            /\ c.state = "running" => r \in inflight
            /\ c.state = "completed" =>
                  /\ Len(c.results) = Len(Actions(r))
                  /\ \A i \in DOMAIN c.results : c.results[i].ok \/ c.results[i].attempts = 1 + Actions(r)[i]

\* "latch: true triggers once until a manual clear": a latched rule has acted.
NoSilentLatch == \A r \in Rules : rst[r].latched => rst[r].trip # 0
=============================================================================
