----------------------------- MODULE Interlock -----------------------------
(***************************************************************************)
(* The interlock of processes/interlock.py, one ruleset of one rule per    *)
(* process, on the command path of DeviceRouter: it answers the router's   *)
(* checks from cached telemetry, changes its rules on RPC and then         *)
(* registers its routes with the router again, and takes a change back     *)
(* when the registration is not acknowledged in time.  It is one thread:   *)
(* while it waits for the router it answers no check.                      *)
(***************************************************************************)
EXTENDS DeviceRouter

VARIABLES
    rule,       \* per interlock: [ent, on], the ruleset's and the rule's enable
    call,       \* per interlock: the call to the router it waits for, or NoCall
    tickets,    \* per interlock: calls made, the request_id of the last one
    starts,     \* per interlock: incarnations so far
    acked,      \* ghost: the routes at the router are those last acknowledged
    ruled,      \* ghost: interlocks whose rule covered a command at dispatch
    sworn,      \* ghost: those of them whose routes were acknowledged
    decided     \* ghost: each interlock's decision on each command

interlockVars == <<rule, call, tickets, starts>>
ghosts == <<acked, ruled, sworn, decided>>
vars == <<routerVars, interlockVars, ghosts>>

NoCall == [why |-> "none"]
DefaultRule == [ent |-> TRUE, on |-> TRUE]

Active(r) == r.ent /\ r.on

(* Everything runs and is registered; the ruleset may have been disabled. *)
Init ==
    /\ up = TRUE
    /\ rule \in [Interceptors -> {DefaultRule, [DefaultRule EXCEPT !.ent = FALSE]}]
    /\ routes = LET on == {i \in Interceptors : Active(rule[i])}
                IN SetToSeq({[pid |-> i, pat |-> PatternOf[i]] : i \in on})
    /\ cache = [k \in {KeyOf[c] : c \in Commands} |-> {}]
    /\ view = [device |-> 1, process |-> [i \in Interceptors |-> 1],
               state |-> [i \in Interceptors |-> "RUNNING"]]
    /\ sub = <<>> /\ ext = <<>> /\ replies = <<>>
    /\ inflight = 0 /\ leaked = 0
    /\ queue = [lane \in Lanes |-> <<>>]
    /\ hand = [lane \in Lanes |-> Idle]
    /\ alive = [lane \in Lanes |-> FALSE]
    /\ limit \in Scenarios
    /\ status = [r \in Requests |-> IF r \in limit.sends THEN "new" ELSE "unused"]
    /\ mail = [i \in Interceptors |-> NoMail]
    /\ inbox = [i \in Interceptors |-> <<>>]
    /\ live = [i \in Interceptors |-> 1]
    /\ driver = [up |-> TRUE, gen |-> 1]
    /\ executed = {}
    /\ chainOf = [c \in Commands |-> <<>>]
    /\ faults = limit.faults
    /\ call = [i \in Interceptors |-> NoCall]
    /\ tickets = [i \in Interceptors |-> 0]
    /\ starts = [i \in Interceptors |-> 1]
    /\ acked = [i \in Interceptors |-> TRUE]
    /\ ruled = [c \in Commands |-> {}]
    /\ sworn = [c \in Commands |-> {}]
    /\ decided = [c \in Commands |-> [i \in Interceptors |-> None]]

RoutesForEnabledRules(i, r) == IF Active(r) THEN <<PatternOf[i]>> ELSE <<>>

-----------------------------------------------------------------------------
(* Rule evaluation *)

Samples == {"missing", "not_ok", "no_timestamp", "stale", "fresh"}

(* A required binding must be fresh; an optional one only marks itself not   *)
(* ok in the environment the condition sees.                                 *)
TelemetryError(sample, required) == required /\ sample # "fresh"

(* A condition that raises is reported and counts as false. *)
ConditionHolds(outcome) == outcome = "true"

(* evaluate_interlock_rule: telemetry, then the condition, then the          *)
(* parameter transform, each of which can only reject.                       *)
Evaluate(sample, required, outcome, transform) ==
    CASE TelemetryError(sample, required) -> "reject"
      [] ~TelemetryError(sample, required) /\ ~ConditionHolds(outcome) -> "reject"
      [] ~TelemetryError(sample, required) /\ ConditionHolds(outcome) ->
            CASE transform = "error" -> "reject"
              [] transform = "params" -> "transform"
              [] transform = "none" -> "allow"

(* What the rule of i may say of a command now. *)
Verdicts(i, c) ==
    IF Active(rule[i]) /\ Matches([pat |-> PatternOf[i]], KeyOf[c])
    THEN {Evaluate(s, q, o, t) : s \in Samples, q \in BOOLEAN,
            o \in {"true", "false", "raises"}, t \in {"none", "params", "error"}}
    ELSE {"allow"}

(* command_interceptor.check.  The router's socket for an incarnation that   *)
(* is gone is gone with it.                                                  *)
Check(i) ==
    /\ live[i] # 0 /\ call[i] = NoCall
    /\ inbox[i] # <<>> /\ Head(inbox[i]).kind = "check"
    /\ \E v \in Verdicts(i, Head(inbox[i]).req) :
        /\ mail' = [mail EXCEPT ![i].box =
                        Append(@, [req |-> Head(inbox[i]).req, verdict |-> v, inc |-> live[i]])]
        /\ decided' = [decided EXCEPT ![Head(inbox[i]).req][i] = v]
    /\ inbox' = [inbox EXCEPT ![i] = Tail(@)]
    /\ UNCHANGED <<up, table, view, sub, workers, status, ext, live, device, chainOf, limit, faults,
                   interlockVars, acked, ruled, sworn>>

-----------------------------------------------------------------------------
(* Changing the rules *)

(* What the RPCs make of the ruleset: enable and disable (of one ruleset or  *)
(* all), enable_rule and disable_rule, and load, which keeps the enable of    *)
(* the ruleset and turns every rule on.                                       *)
SetRuleset(r, on) == [r EXCEPT !.ent = on]
SetRule(r, on) == [r EXCEPT !.on = on]
LoadRuleset(r) == [r EXCEPT !.on = TRUE]

Changes(r) ==
    {SetRuleset(r, on) : on \in BOOLEAN} \cup {SetRule(r, on) : on \in BOOLEAN} \cup {LoadRuleset(r)}

(* Send messages to the router and wait for the reply to the last.  why says *)
(* who waits, req the RPC to answer, before the rule to go back to.          *)
CallRouter(i, inc, msgs, why, req, before) ==
    /\ ext' = ext \o [n \in DOMAIN msgs |->
                        [kind |-> msgs[n].kind, pid |-> i, inc |-> inc, pats |-> msgs[n].pats,
                         ticket |-> tickets[i] + n]]
    /\ tickets' = [tickets EXCEPT ![i] = @ + Len(msgs)]
    /\ call' = [call EXCEPT ![i] = [why |-> why, done |-> FALSE, req |-> req, before |-> before]]
    /\ acked' = [acked EXCEPT ![i] = FALSE]

RegisterMessage(i, r) == [kind |-> "register", pats |-> RoutesForEnabledRules(i, r)]

Rpc(i) == live[i] # 0 /\ call[i] = NoCall /\ inbox[i] # <<>> /\ Head(inbox[i]).kind = "rpc"

(* An RPC that changes the rules: change, then register the routes. *)
ChangeRule(i) ==
    /\ Rpc(i)
    /\ \E r \in Changes(rule[i]) :
        /\ rule' = [rule EXCEPT ![i] = r]
        /\ CallRouter(i, live[i], <<RegisterMessage(i, r)>>, "change", Head(inbox[i]).req, rule[i])
    /\ inbox' = [inbox EXCEPT ![i] = Tail(@)]
    /\ UNCHANGED <<up, table, view, sub, workers, status, mail, live, device, chainOf, limit, faults,
                   starts, ruled, sworn, decided>>

(* An RPC that only asks, or that names an unknown ruleset or rule or a file *)
(* that does not parse.                                                      *)
AnswerQuery(i) ==
    /\ Rpc(i)
    /\ \E code \in {"ok", "failed"} : ProcessAnswers(Head(inbox[i]).req, code)
    /\ inbox' = [inbox EXCEPT ![i] = Tail(@)]
    /\ UNCHANGED <<up, table, view, sub, status, ext, mail, live, device, chainOf, limit, faults,
                   interlockVars, ghosts>>

(* process.stop: unregister first. *)
GracefulStop(i) ==
    /\ Rpc(i) /\ starts[i] < limit.starts
    /\ CallRouter(i, live[i], <<[kind |-> "unregister", pats |-> <<>>]>>, "stop", Head(inbox[i]).req,
                  rule[i])
    /\ inbox' = [inbox EXCEPT ![i] = Tail(@)]
    /\ UNCHANGED <<up, table, view, sub, workers, status, mail, live, device, chainOf, limit, faults,
                   rule, starts, ruled, sworn, decided>>

(* The manager starts the process again: it advertises its new endpoint and  *)
(* registers the routes of its default rules.                                *)
StartInterlock(i) ==
    /\ live[i] = 0 /\ starts[i] < limit.starts
    /\ starts' = [starts EXCEPT ![i] = @ + 1]
    /\ live' = [live EXCEPT ![i] = starts[i] + 1]
    /\ rule' = [rule EXCEPT ![i] = DefaultRule]
    /\ CallRouter(i, starts[i] + 1, <<[kind |-> "advertise", pats |-> <<>>], RegisterMessage(i, DefaultRule)>>,
                  "start", None, DefaultRule)
    /\ UNCHANGED <<up, table, view, sub, workers, status, mail, inbox, device, chainOf, limit, faults,
                   ruled, sworn, decided>>

(* A reply ends the wait of the call that carries its request_id. *)
Awaited(m) == call[m.pid] # NoCall /\ m.ticket = tickets[m.pid] /\ m.inc = live[m.pid]

(* The router handles a registration; its reply reaches a caller that still  *)
(* waits for it.                                                             *)
RouterHandles ==
    /\ ext # <<>>
    /\ LET m == Head(ext) IN
       /\ HandleCommandInterceptor(m)
       /\ call' = IF Awaited(m) THEN [call EXCEPT ![m.pid].done = TRUE] ELSE call
       /\ acked' = IF Awaited(m) /\ m.kind = "register" THEN [acked EXCEPT ![m.pid] = TRUE] ELSE acked
    /\ UNCHANGED <<rule, tickets, starts, ruled, sworn, decided>>

(* The RPC behind a call is answered, if there is one. *)
AnswerRpc(i, code) ==
    IF call[i].req = None THEN UNCHANGED workers ELSE ProcessAnswers(call[i].req, code)

(* The routes are registered: back to the loop. *)
Registered(i) ==
    /\ call[i].why \in {"change", "start"} /\ call[i].done
    /\ call' = [call EXCEPT ![i] = NoCall]
    /\ AnswerRpc(i, "ok")
    /\ Publish(IF call[i].why = "start" THEN <<Event("manager.process.running", i, 0)>> ELSE <<>>)
    /\ UNCHANGED <<up, table, view, status, ext, mail, inbox, live, device, chainOf, limit, faults,
                   rule, tickets, starts, ghosts>>

(* The rule after a registration without reply: as it was before the RPC. *)
RolledBack(i) == call[i].before

(* No reply in time: the change is taken back and the RPC fails, although   *)
(* the router may still carry the registration out.                         *)
RegistrationTimesOut(i) ==
    /\ call[i].why = "change" /\ ~call[i].done
    /\ rule' = [rule EXCEPT ![i] = RolledBack(i)]
    /\ call' = [call EXCEPT ![i] = NoCall]
    /\ AnswerRpc(i, "failed")
    /\ UNCHANGED <<up, table, view, sub, status, ext, mail, inbox, live, device, chainOf, limit, faults,
                   tickets, starts, ghosts>>

(* The process is gone, and the manager says so. *)
Exits(i) ==
    /\ live' = [live EXCEPT ![i] = 0]
    /\ inbox' = [inbox EXCEPT ![i] = <<>>]
    /\ call' = [call EXCEPT ![i] = NoCall]
    /\ acked' = [acked EXCEPT ![i] = FALSE]
    /\ Publish(<<Event("manager.process.exited", i, 0)>>)
    /\ UNCHANGED <<up, table, view, status, ext, mail, device, chainOf, limit, rule, tickets, starts,
                   ruled, sworn, decided>>

(* A stop ends the process whether or not the router answered; a start that *)
(* is not answered does too.                                                *)
StopEnds(i) ==
    /\ \/ call[i].why = "stop"
       \/ call[i].why = "start" /\ ~call[i].done
    /\ AnswerRpc(i, IF call[i].done THEN "ok" ELSE "failed")
    /\ Exits(i)
    /\ UNCHANGED faults

InterlockCrash(i) ==
    /\ live[i] # 0 /\ starts[i] < limit.starts
    /\ faults > 0 /\ faults' = faults - 1
    /\ Exits(i)
    /\ UNCHANGED workers

-----------------------------------------------------------------------------
(* The command path *)

(* The interlocks that watch over a command now: running, not in the middle *)
(* of a change, with an enabled rule that matches.                           *)
Watching(c) ==
    {i \in Interceptors : /\ live[i] # 0 /\ call[i] = NoCall
                          /\ Active(rule[i]) /\ Matches([pat |-> PatternOf[i]], KeyOf[c])}

Dispatch(c) ==
    /\ DispatchDeviceCommand(c)
    /\ ruled' = [ruled EXCEPT ![c] = Watching(c)]
    /\ sworn' = [sworn EXCEPT ![c] = {i \in Watching(c) : acked[i]}]
    /\ UNCHANGED <<interlockVars, acked, decided>>

Crash ==
    /\ RouterCrash
    /\ acked' = [i \in Interceptors |-> FALSE]
    /\ UNCHANGED <<interlockVars, ruled, sworn, decided>>

Router ==
    /\ \/ HandleManagerPub
       \/ \E m \in Mirrored : DispatchMirroredCommand(m)
       \/ \E p \in ProcessRpcs : DispatchProcessRpc(p)
       \/ DrainReplies
       \/ RouterRestart
    /\ UNCHANGED <<interlockVars, ghosts>>

DeviceWorker ==
    /\ \/ DriverUnavailable \/ InterceptorUnavailable \/ CallInterceptor
       \/ ReceiveDecision \/ InterceptorTimeout \/ CallDevice
    /\ UNCHANGED <<interlockVars, ghosts>>

OtherWorker(lane) ==
    /\ \/ Forward(lane)
       \/ lane = "process" /\ (CallProcess \/ ProcessTimeout)
    /\ UNCHANGED <<interlockVars, ghosts>>

Driver ==
    /\ DriverStops \/ DriverRegisters
    /\ UNCHANGED <<interlockVars, ghosts>>

Dies(lane) == WorkerDies(lane) /\ UNCHANGED <<interlockVars, ghosts>>

InterlockLoop(i) ==
    Check(i) \/ AnswerQuery(i) \/ ChangeRule(i) \/ Registered(i) \/ RegistrationTimesOut(i) \/ StopEnds(i)

Next ==
    \/ Router \/ RouterHandles \/ Crash
    \/ \E c \in Commands : Dispatch(c)
    \/ DeviceWorker \/ Driver
    \/ \E lane \in Lanes \ {"device"} : OtherWorker(lane)
    \/ \E lane \in Lanes : Dies(lane)
    \/ \E i \in Interceptors :
        InterlockLoop(i) \/ GracefulStop(i) \/ StartInterlock(i) \/ InterlockCrash(i)

Spec == Init /\ [][Next]_vars

-----------------------------------------------------------------------------
(* Properties *)

(* A command reaches the driver only after every process of the chain it was *)
(* dispatched with decided on it and let it pass, and with the parameters     *)
(* those decisions made: timeouts, late replies of an earlier call, crashes   *)
(* and re-registrations in between included (_apply_command_interceptors).    *)
CheckedByItsChain ==
    \A x \in executed :
        /\ \A n \in DOMAIN chainOf[x.req] :
              decided[x.req][chainOf[x.req][n]] \in {"allow", "transform"}
        /\ x.params = Cardinality({i \in ToSet(chainOf[x.req]) : decided[x.req][i] = "transform"})

(* A rule that was enabled when the command was dispatched, and whose routes  *)
(* the router had acknowledged since its last start, decided on the command   *)
(* before the driver saw it (_register_routes and the route cache).           *)
AcknowledgedRuleEnforced ==
    \A x \in executed : \A i \in sworn[x.req] : decided[x.req][i] # None

(* docs/interlock.md: the interlock is consulted for matching commands before *)
(* they are routed to devices.  As AcknowledgedRuleEnforced, for every rule   *)
(* the interlock itself reports as enabled.                                   *)
EnabledRuleEnforced ==
    \A x \in executed : \A i \in ruled[x.req] : decided[x.req][i] # None

HeldRequests == {r \in Requests : status[r] = "held"}

(* Every reservation belongs to a request that is queued, in a worker's hand  *)
(* or waiting to be sent back, or to one whose worker died: rejections, full  *)
(* queues, timeouts and retired workers give theirs back (_submit_with_inflight,*)
(* _drain_replies).                                                           *)
InflightAccounted == inflight = Cardinality(HeldRequests) + leaked

(* A command that reaches a driver was let through by the chain of           *)
(* interceptors that was in force for it, by its own reply and not by a late *)
(* or foreign one; once the interlock has acknowledged a rule, the rule is   *)
(* enforced; and the inflight count is that of the requests under way,       *)
(* whatever crashed or timed out.                                            *)
CommandPathSound == CheckedByItsChain /\ AcknowledgedRuleEnforced /\ InflightAccounted
=============================================================================
