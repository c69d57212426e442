-------------------------- MODULE SequencePreflight --------------------------
(***************************************************************************)
(* The preflight of a sequence: the sequencer process walks the program    *)
(* with an environment of placeholder values and the tables the manager    *)
(* answers (devices, capabilities, telemetry signals, streams) and reports *)
(* what a run would trip over.  The module holds the walk and, next to it, *)
(* what the runtime does with the same program, so that the two can be     *)
(* compared for every program that can be composed from a pool of steps.   *)
(*                                                                         *)
(* A step is a record [kind, off, dev, act, name, uses, binds, src, fit,   *)
(* body, alt]: off is "disabled", uses the variables of its templates,     *)
(* binds the variables it defines, src the live value source in its value  *)
(* (or NoSrc), fit whether the count of a repeat, the generator of a for or*)
(* the controller of an adaptive step can be built: "good", "bad", "zero"  *)
(* (a count of 0) or "value" (as the values in it are: those the sequence  *)
(* declares are good).  Dyn stands for a text that still holds a template. *)
(***************************************************************************)
EXTENDS Naturals, Sequences, FiniteSets, SequencesExt

CONSTANTS
    Dyn,          \* a name that holds a template
    Pool,         \* the steps the editor may append
    Library,      \* sequence id |-> [vars, steps]
    SpecVars,     \* the variables the sequence declares
    Devices, Members, Readable, Settable, Signals, Streams,
                  \* what really exists: a set, and functions of the device
    MaxSteps      \* bound on the length of a program

VARIABLES
    prog,     \* the sequence under edit
    seen,     \* the tables the manager answers, and "library" when the
              \* sequencer has a sequence_library_path
    checked,  \* whether the diagnostics below are those of prog
    diags,    \* the diagnostics of the last preflight, with their severity
    online,   \* the devices whose status is online at the start
    ran       \* the outcome of the last run of prog, or NotRun

preflightVars == <<prog, seen, checked, diags, online, ran>>

Tables == {"devices", "capabilities", "signals", "streams"}

NoSrc == [kind |-> "none", dev |-> "", act |-> "", name |-> ""]

NotRun == [env |-> {}, vars |-> {}, met |-> {}, addressed |-> {},
           all |-> FALSE, ended |-> TRUE]

-----------------------------------------------------------------------------
(* What the preflight knows: each table as the manager answered it. *)

KnownDevices == IF "devices" \in seen THEN Devices ELSE {}

KnownMembers(d) ==
    IF {"devices", "capabilities"} \subseteq seen /\ d \in Devices
    THEN Members[d] ELSE {}

KnownSignals(d) == IF "signals" \in seen /\ d \in Devices THEN Signals[d] ELSE {}

KnownStreams(d) == IF "streams" \in seen /\ d \in Devices THEN Streams[d] ELSE {}

Builtin == {"get", "set", "stream.context.set"}

Error(c) == {[severity |-> "error", code |-> c]}
Warning(c) == {[severity |-> "warning", code |-> c]}

HasErrors(ds) == \E d \in ds : d.severity = "error"


CheckMemberAccess(d, m, mode) ==
    IF KnownMembers(d) = {} THEN Warning("capabilities_unavailable")
    ELSE IF m \notin KnownMembers(d) THEN Error("unknown_member")
    ELSE (IF mode = "read" /\ m \notin Readable[d] THEN Error("member_not_readable") ELSE {})
         \cup (IF mode = "write" /\ m \notin Settable[d] THEN Error("member_not_settable") ELSE {})

CheckStreamName(d, s) ==
    IF KnownStreams(d) = {} THEN Warning("stream_schema_unavailable")
    ELSE IF s \notin KnownStreams(d) THEN Error("unknown_stream") ELSE {}

CheckCallAction(d, a) ==
    IF d \notin KnownDevices THEN Error("unknown_device")
    ELSE IF a \in Builtin THEN {}
    ELSE IF KnownMembers(d) = {} THEN Warning("capabilities_unavailable")
    ELSE IF a \notin KnownMembers(d) THEN Error("unknown_action") ELSE {}

CheckCallParams(d, a, name) ==
    CASE a \in {"get", "set"} /\ name = Dyn -> Warning("dynamic_member_name_unchecked")
      [] a = "get" /\ name # Dyn -> CheckMemberAccess(d, name, "read")
      [] a = "set" /\ name # Dyn -> CheckMemberAccess(d, name, "write")
      [] a = "stream.context.set" /\ name = Dyn -> Warning("dynamic_stream_name_unchecked")
      [] a = "stream.context.set" /\ name # Dyn -> CheckStreamName(d, name)
      [] OTHER -> {}

\* A call target: dynamic ones are only warned about, processes not checked.
StaticCallTarget(c) ==
    IF Dyn \in {c.dev, c.act} THEN Warning("dynamic_call_ref_unchecked")
    ELSE IF c.dev = "process" THEN {}
    ELSE CheckCallAction(c.dev, c.act) \cup CheckCallParams(c.dev, c.act, c.name)

ScanTelemetrySource(c) ==
    IF Dyn \in {c.dev, c.name} THEN Warning("dynamic_telemetry_ref_unchecked")
    ELSE IF c.dev = "process" THEN {}
    ELSE (IF c.dev \notin KnownDevices THEN Error("unknown_device") ELSE {})
         \cup (IF KnownSignals(c.dev) = {} THEN Warning("telemetry_schema_unavailable")
               ELSE IF c.name \notin KnownSignals(c.dev) THEN Error("unknown_signal") ELSE {})

\* The environment of the walk: a variable the sequence declares has its value,
\* one that a step of the run defines the placeholder 0 or {}.
Declared(env, names) == [n \in names |-> "declared"] @@ env

Bound(env, names) == [n \in names |-> "placeholder"] @@ env

Render(uses, env) == IF uses \subseteq DOMAIN env THEN {} ELSE Error("template_unresolved")

\* What is built of the rendered value cannot be: it is wrong whatever the values,
\* or it takes a placeholder for the value.
Unfit(s, env) ==
    \/ s.fit = "bad"
    \/ s.fit = "value" /\ \E n \in s.uses : env[n] = "placeholder"

\* Rendering the templates of a value, then the live sources within it.
ScanSources(s, env) ==
    Render(s.uses, env)
    \cup (CASE s.src.kind = "telemetry" -> ScanTelemetrySource(s.src)
            [] s.src.kind = "call" -> StaticCallTarget(s.src)
            [] OTHER -> {})

-----------------------------------------------------------------------------
(* The walk.  A result is [env, ds]: the environment after the steps and   *)
(* the diagnostics.                                                        *)

WalkedSteps(steps) == SelectSeq(steps, LAMBDA s : ~s.off)

EnabledSteps(steps) == SelectSeq(steps, LAMBDA s : ~s.off)

HandleAssign(s, env) == [env |-> Bound(env, s.binds), ds |-> ScanSources(s, env)]

ValidateCallStep(s) ==
    IF s.dev = "process" THEN {}
    ELSE CheckCallAction(s.dev, s.act) \cup CheckCallParams(s.dev, s.act, s.name)

HandleCall(s, env) ==
    [env |-> Bound(env, s.binds),
     ds |-> (IF Dyn \in {s.dev, s.act} THEN Warning("dynamic_call_ref_unchecked")
             ELSE ValidateCallStep(s))
            \cup ScanSources(s, env)]

HandleSet(s, env) ==
    [env |-> env,
     ds |-> (IF s.dev = Dyn THEN Warning("dynamic_action_unchecked")
             ELSE IF s.dev \notin KnownDevices THEN Error("unknown_device")
             ELSE CheckMemberAccess(s.dev, s.name, "write"))
            \cup ScanSources(s, env)]

Samples == {"sample"}

\* setdefault: a variable of that name keeps what it has.
HandleWaitUntil(s, env) ==
    LET waitEnv == env @@ Bound(<<>>, Samples)
    IN [env |-> waitEnv, ds |-> ScanSources(s, waitEnv)]

\* What keeps a stream target from being checked.
StreamTarget(s) ==
    IF Dyn \in {s.dev, s.name} THEN Warning("dynamic_stream_name_unchecked")
    ELSE IF "" \in {s.dev, s.name} THEN Error("invalid_stream_target") ELSE {}

HandleSetContext(s, env) ==
    [env |-> env,
     ds |-> (IF StreamTarget(s) # {} THEN StreamTarget(s)
             ELSE IF s.dev \notin KnownDevices THEN Error("unknown_device")
             ELSE CheckStreamName(s.dev, s.name))
            \cup ScanSources(s, env)]

BranchOperations(b) == IF b.kind \in {"atomic", "repeat"} THEN EnabledSteps(b.body) ELSE <<b>>

\* The count of a repeat branch is rendered there and then.
ParallelRepeatCount(b, env) ==
    b.uses \subseteq DOMAIN env /\ b.fit # "zero" /\ ~Unfit(b, env)

BranchSupported(b, env) ==
    /\ b.kind \in {"call", "set", "atomic", "repeat"}
    /\ b.kind = "repeat" => ParallelRepeatCount(b, env)
    /\ \A i \in DOMAIN BranchOperations(b) : BranchOperations(b)[i].kind \in {"call", "set"}

\* A target rendered from a placeholder is "0", whatever the variable; what one
\* rendered from declared values is, is left open.
OperationTarget(c, env) ==
    IF c.dev # Dyn THEN {c.dev}
    ELSE IF c.uses \subseteq DOMAIN env /\ \E n \in c.uses : env[n] = "placeholder" THEN {"0"}
    ELSE {}

BranchTargets(b, env) ==
    UNION {OperationTarget(BranchOperations(b)[i], env) : i \in DOMAIN BranchOperations(b)}

BranchOutputs(b, env) == UNION {BranchOperations(b)[i].binds : i \in DOMAIN BranchOperations(b)}

ParallelConflicts(branches, env) ==
    LET Clash(F(_, _)) == \E i, j \in DOMAIN branches :
                             i < j /\ F(branches[i], env) \cap F(branches[j], env) # {}
    IN (IF Clash(BranchOutputs) THEN Error("parallel_output_conflict") ELSE {})
       \cup (IF Clash(BranchTargets) THEN Error("parallel_target_conflict") ELSE {})

HandleParallel(branches, env) ==
    LET ok == SelectSeq(branches, LAMBDA b : BranchSupported(b, env))
    IN (IF Len(ok) < Len(branches) THEN Error("parallel_unsupported_branch") ELSE {})
       \cup ParallelConflicts(ok, env)

NestedSteps(s) ==
    CASE s.kind \in {"for", "repeat", "while", "atomic", "adaptive"} -> s.body
      [] s.kind \in {"if", "try"} -> s.body \o s.alt
      [] OTHER -> <<>>

RECURSIVE StepsContainParallel(_)
StepsContainParallel(steps) ==
    \E i \in DOMAIN EnabledSteps(steps) :
        LET s == EnabledSteps(steps)[i]
        IN s.kind = "parallel" \/ StepsContainParallel(NestedSteps(s))

Leaf(s, env) ==
    CASE s.kind = "call" -> HandleCall(s, env)
      [] s.kind = "set" -> HandleSet(s, env)
      [] s.kind = "assign" -> HandleAssign(s, env)
      [] s.kind = "wait_until" -> HandleWaitUntil(s, env)
      [] s.kind = "set_context" -> HandleSetContext(s, env)

Leaves == {"call", "set", "assign", "wait_until", "set_context"}

RECURSIVE PreflightSteps(_, _, _)

\* The bodies of a for and of an adaptive step are walked on a copy of the
\* environment: what they bind is forgotten.  The range of a for is rendered
\* outside its bindings, the controller and space of an adaptive step inside.
HandleFor(s, env, useStack) ==
    [env |-> env,
     ds |-> Render(s.uses, env)
            \cup (IF s.uses \subseteq DOMAIN env /\ Unfit(s, env)
                  THEN Error("invalid_generator") ELSE {})
            \cup PreflightSteps(s.body, Bound(env, s.binds), useStack).ds]

HandleAdaptive(s, env, useStack) ==
    LET adaptiveEnv == Bound(env, s.binds)
    IN [env |-> env,
        ds |-> (IF s.uses \subseteq DOMAIN adaptiveEnv /\ Unfit(s, adaptiveEnv)
                THEN Error("invalid_adaptive_controller") ELSE {})
               \cup ScanSources(s, adaptiveEnv)
               \cup PreflightSteps(s.body, adaptiveEnv, useStack).ds]

HandleUse(s, env, useStack) ==
    [env |-> env,
     ds |-> ScanSources(s, env)
            \cup (IF "library" \notin seen THEN Error("library_not_configured")
                  ELSE IF s.name \in useStack THEN Error("use_cycle")
                  ELSE IF s.name \notin DOMAIN Library THEN Error("unknown_use_sequence")
                  ELSE PreflightSteps(Library[s.name].steps,
                                      Declared(env, Library[s.name].vars),
                                      useStack \cup {s.name}).ds)]

\* Bodies walked on the environment itself, one after the other: what any of
\* them binds counts as defined afterwards, taken or not.  Of the steps
\* themselves only the condition of an if or a while is rendered: the count of
\* a repeat is not.
HandleStructural(s, env, useStack) ==
    LET first == PreflightSteps(s.body, env, useStack)
        second == PreflightSteps(s.alt, first.env, useStack)
    IN [env |-> second.env,
        ds |-> first.ds \cup second.ds
               \cup (IF s.kind \in {"if", "while"} THEN ScanSources(s, env) ELSE {})
               \cup (IF s.kind = "parallel" THEN HandleParallel(EnabledSteps(s.body), env) ELSE {})
               \cup (IF s.kind = "atomic" /\ StepsContainParallel(s.body)
                     THEN Error("atomic_parallel_unsupported") ELSE {})]

DispatchStep(s, env, useStack) ==
    CASE s.kind \in Leaves -> Leaf(s, env)
      [] s.kind = "for" -> HandleFor(s, env, useStack)
      [] s.kind = "adaptive" -> HandleAdaptive(s, env, useStack)
      [] s.kind = "use" -> HandleUse(s, env, useStack)
      [] OTHER -> HandleStructural(s, env, useStack)

PreflightSteps(steps, env, useStack) ==
    FoldLeft(LAMBDA r, s : LET d == DispatchStep(s, r.env, useStack)
                           IN [env |-> d.env, ds |-> r.ds \cup d.ds],
             [env |-> env, ds |-> {}],
             WalkedSteps(steps))

PreflightSequenceSpec ==
    (IF "devices" \notin seen THEN Warning("device_inventory_unavailable") ELSE {})
    \cup (IF "signals" \notin seen THEN Warning("telemetry_schema_unavailable") ELSE {})
    \cup (IF "streams" \notin seen THEN Warning("stream_schema_unavailable") ELSE {})
    \cup PreflightSteps(prog, Declared(<<>>, SpecVars), {}).ds

-----------------------------------------------------------------------------
(* What a run does.  An outcome is [env, vars, met, addressed, all, ended]:*)
(* the variables defined, the sequence variables in scope, what was met    *)
(* that is missing or wrong, the devices it sent commands to, whether every*)
(* body was entered and no device refused, whether the run ended in an     *)
(* error.  A device may also refuse any command it understands.            *)

MemberMissing(c) ==
    \/ c.act = "get" /\ c.name \notin Readable[c.dev]
    \/ c.act = "set" /\ c.name \notin Settable[c.dev]

\* The driver's answer to a command: nothing missing, or what is.
Missing(c) ==
    CASE c.dev = "process" -> {}
      [] c.dev \notin Devices \cup {"process"} -> {"unknown_device"}
      [] c.dev \in Devices /\ c.act \in {"get", "set"} /\ MemberMissing(c) -> {"bad_member"}
      [] c.dev \in Devices /\ c.act = "stream.context.set" /\ c.name \notin Streams[c.dev]
            -> {"unknown_stream"}
      [] c.dev \in Devices /\ c.act \notin Builtin \cup Members[c.dev] -> {"unknown_action"}
      [] OTHER -> {}

Fails(o, what) ==
    [o EXCEPT !.met = @ \cup what, !.ended = TRUE, !.all = @ /\ what = {"unresolved"}]

Scope(o) == o.env \cup o.vars

\* A command of the run: it fails on what is missing, or as the device pleases.
Command(o, c) ==
    LET p == [o EXCEPT !.addressed = @ \cup ({c.dev} \ {Dyn, "process"})]
    IN IF Dyn \in {c.dev, c.act, c.name} THEN {p, Fails(p, {"dynamic"})}
       ELSE IF Missing(c) # {} THEN {Fails(p, Missing(c))}
       ELSE {p, Fails(p, {})}

\* The values of the run: what a step defined may be anything.
EnvView(o) == Bound(Declared(<<>>, o.vars), o.env)

\* The parameters of a command, of a use, a generator: templates only.
RenderTemplates(o, s) ==
    {IF s.uses \subseteq Scope(o) THEN o ELSE Fails(o, {"unresolved"})}

\* A value: a call source is a command, an absent signal is silently None.
ResolveSource(o, s) ==
         CASE s.src.kind = "call" -> Command(o, s.src)
           [] s.src.kind = "telemetry" /\ s.src.dev = "process" /\ s.src.name # Dyn -> {o}
           [] s.src.kind = "telemetry" /\ Dyn \in {s.src.dev, s.src.name}
                -> {o, [o EXCEPT !.met = @ \cup {"dynamic"}]}
           [] s.src.kind = "telemetry" /\ {s.src.dev, s.src.name} \cap {Dyn, "process"} = {}
                -> {IF s.src.dev \in Devices /\ s.src.name \in Signals[s.src.dev]
                    THEN o ELSE [o EXCEPT !.met = @ \cup {"no_signal"}]}
           [] OTHER -> {o}

Binding(os, names) ==
    {IF o.ended THEN o ELSE [o EXCEPT !.env = @ \cup names] : o \in os}

Then(os, F(_)) == UNION {IF o.ended THEN {o} ELSE F(o) : o \in os}

ResolveValue(o, s) == Then(RenderTemplates(o, s), LAMBDA p : ResolveSource(p, s))

\* What is built of rendered values: wrong in any case, or as the values are.
Built(o, s) ==
    IF s.fit = "bad" THEN {Fails(o, {"bad"})}
    ELSE {o} \cup (IF Unfit(s, EnvView(o)) THEN {Fails(o, {"value"})} ELSE {})

RunLeaf(s, o) ==
    CASE s.kind = "call" -> Binding(Then(RenderTemplates(o, s), LAMBDA p : Command(p, s)), s.binds)
      [] s.kind = "set" ->
            Then(RenderTemplates(o, s), LAMBDA p : Command(p, [s EXCEPT !.act = "set"]))
      [] s.kind = "assign" -> Binding(ResolveValue(o, s), s.binds)
      [] s.kind = "wait_until" ->
            Binding(ResolveValue([o EXCEPT !.env = @ \cup Samples], s), Samples)
      [] s.kind = "set_context" ->
            Then(RenderTemplates(o, s), LAMBDA p : Command(p, [s EXCEPT !.act = "stream.context.set"]))

RECURSIVE RunSteps(_, _, _, _)

Skipping(o, steps) == IF steps = <<>> THEN o ELSE [o EXCEPT !.all = FALSE]

\* One branch, on its own copy of the environment.
RunParallelBranch(b, o) == RunSteps(BranchOperations(b), {o}, FALSE, {})

HasDynamicTarget(branches) ==
    \E i \in DOMAIN branches : \E j \in DOMAIN BranchOperations(branches[i]) :
        BranchOperations(branches[i])[j].dev = Dyn

\* The branches are planned first: refused in any case, or as the values are.
PlanParallel(branches, o, atomic, useStack) ==
    IF atomic THEN {Fails(o, {IF useStack = {} THEN "parallel" ELSE "atomic_use"})}
    ELSE IF HandleParallel(branches, Declared(<<>>, Scope(o))) # {} THEN {Fails(o, {"parallel"})}
    ELSE {o} \cup (IF HandleParallel(branches, EnvView(o)) # {} \/ HasDynamicTarget(branches)
                  THEN {Fails(o, {"value"})} ELSE {})

\* The branches run concurrently; the names they bind are merged when all succeed.
RunParallel(branches, o, atomic, useStack) ==
    Then(PlanParallel(branches, o, atomic, useStack), LAMBDA r :
         FoldLeft(LAMBDA os, b :
                   {[env |-> p.env \cup q.env, vars |-> o.vars, met |-> p.met \cup q.met,
                     addressed |-> p.addressed \cup q.addressed, all |-> p.all /\ q.all,
                     ended |-> p.ended \/ q.ended]
                       : p \in os, q \in RunParallelBranch(b, r)},
                 {r}, branches))

RunUse(s, o, atomic, useStack) ==
    IF "library" \notin seen \/ s.name \in useStack \/ s.name \notin DOMAIN Library
    THEN {Fails(o, {"use"})}
    ELSE {[p EXCEPT !.vars = o.vars] :
            p \in RunSteps(Library[s.name].steps,
                           {[o EXCEPT !.vars = @ \cup Library[s.name].vars \cup s.binds]},
                           atomic, useStack \cup {s.name})}

\* The finally body runs whether or not the body failed, and the failure stays.
RunTry(s, o, atomic, useStack) ==
    UNION {{[q EXCEPT !.ended = @ \/ p.ended, !.all = @ /\ p.all] :
              q \in RunSteps(s.alt, {[p EXCEPT !.ended = FALSE]}, atomic, useStack)}
           : p \in RunSteps(s.body, {o}, atomic, useStack)}

\* The count of a repeat must be an integer; one that is not positive runs nothing.
RepeatTimes(o, s) ==
    IF ~(s.uses \subseteq Scope(o)) \/ s.fit = "bad" THEN {Fails(o, {"times"})}
    ELSE {o} \cup (IF Unfit(s, EnvView(o)) THEN {Fails(o, {"times"})} ELSE {})

RunStep(s, o, atomic, useStack) ==
    LET Body(p) == RunSteps(s.body, {p}, atomic \/ s.kind = "atomic", useStack)
        BodyBinding(p) == Body([p EXCEPT !.env = @ \cup s.binds])
    IN CASE s.kind \in Leaves -> RunLeaf(s, o)
         [] s.kind = "repeat" ->
              Then(RepeatTimes(o, s), LAMBDA p :
                   (IF s.fit = "good" THEN {} ELSE {Skipping(p, s.body)})
                   \cup (IF s.fit = "zero" THEN {} ELSE Body(p)))
         [] s.kind = "for" ->
              Then(RenderTemplates(o, s), LAMBDA p :
                   Then(Built(p, s), LAMBDA q : {Skipping(q, s.body)} \cup BodyBinding(q)))
         [] s.kind = "adaptive" ->
              Then(RenderTemplates(o, s), LAMBDA p :
                   Then(Built(p, s), LAMBDA q :
                        {Skipping(q, s.body)}
                        \cup Then(BodyBinding(q), LAMBDA r : ResolveSource(r, s))))
         [] s.kind = "while" ->
              Then(ResolveValue(o, s), LAMBDA p : {Skipping(p, s.body)} \cup Body(p))
         [] s.kind = "if" ->
              Then(ResolveValue(o, s), LAMBDA p :
                   Body(Skipping(p, s.alt))
                   \cup RunSteps(s.alt, {Skipping(p, s.body)}, atomic, useStack))
         [] s.kind = "atomic" -> Body(o)
         [] s.kind = "parallel" -> RunParallel(EnabledSteps(s.body), o, atomic, useStack)
         [] s.kind = "try" -> RunTry(s, o, atomic, useStack)
         [] s.kind = "use" ->
              Then(RenderTemplates(o, s), LAMBDA p : RunUse(s, p, atomic, useStack))

RunSteps(steps, os, atomic, useStack) ==
    LET live == EnabledSteps(steps)
        Run[i \in 0..Len(live)] ==
            IF i = 0 THEN os
            ELSE Then(Run[i - 1], LAMBDA o : RunStep(live[i], o, atomic, useStack))
    IN Run[Len(live)]

Outcomes ==
    RunSteps(prog, {[env |-> {}, vars |-> SpecVars, met |-> {}, addressed |-> {},
                     all |-> TRUE, ended |-> FALSE]},
             FALSE, {})

-----------------------------------------------------------------------------
(* The devices a start requires to be online: a second walk, which does    *)
(* not follow use steps.                                                   *)

\* Only the resolved variables of the sequence are known; a value that holds
\* another one is given up as a whole.
ScannedKinds == Leaves \cup {"if", "while", "adaptive"}

SourceDevice(s) == IF s.src.kind = "none" THEN {} ELSE {s.src.dev} \ {Dyn, "process"}

ScanValue(s) ==
    IF s.kind \in ScannedKinds /\ s.uses \subseteq SpecVars THEN SourceDevice(s) ELSE {}

WalkedChildren(s) == s.body \o s.alt

RECURSIVE ReferencedDevices(_)
ReferencedDevices(steps) ==
    UNION {LET s == steps[i]
               own == IF s.kind \in {"call", "set", "set_context"}
                      THEN {s.dev} \ {Dyn, "process"} ELSE {}
           IN IF s.off \/ s.kind = "use" THEN {}
              ELSE own \cup ScanValue(s) \cup ReferencedDevices(WalkedChildren(s))
           : i \in DOMAIN steps}

\* A device the status list does not know counts as a problem too.
DeviceStartProblems == {d \in ReferencedDevices(prog) : d \notin online}

-----------------------------------------------------------------------------
Init ==
    /\ prog = <<>>
    /\ seen \in LET all == Tables \cup {"library"} IN {all} \cup {all \ {t} : t \in all}
    /\ checked = FALSE
    /\ diags = {}
    /\ online \in {Devices} \cup {Devices \ {d} : d \in Devices}
    /\ ran = NotRun

\* The operator edits the sequence: earlier diagnostics are of another text.
EditSequence ==
    /\ Len(prog) < MaxSteps
    /\ \E s \in Pool : prog' = Append(prog, s)
    /\ checked' = FALSE
    /\ diags' = {}
    /\ ran' = NotRun
    /\ UNCHANGED <<seen, online>>

PreflightSequence ==
    /\ ~checked
    /\ prog # <<>>
    /\ diags' = PreflightSequenceSpec
    /\ checked' = TRUE
    /\ UNCHANGED <<prog, seen, online, ran>>

RunSequence ==
    /\ checked
    /\ ran = NotRun
    /\ DeviceStartProblems = {}
    /\ \E o \in Outcomes : ran' = o
    /\ UNCHANGED <<prog, seen, checked, diags, online>>

Next == EditSequence \/ PreflightSequence \/ RunSequence

Spec == Init /\ [][Next]_preflightVars

-----------------------------------------------------------------------------
(* Correctness. *)

\* The enabled steps of a program, nested ones too, but not those of used sequences.
RECURSIVE AllSteps(_)
AllSteps(steps) ==
    UNION {{s} \cup AllSteps(s.body \o s.alt) : s \in ToSet(EnabledSteps(steps))}

HasStep(kinds) == \E s \in AllSteps(prog) : s.kind \in kinds

\* A run of a program the preflight has nothing to say about never addresses
\* a device, member, action, stream, signal or sequence that does not exist,
\* and never builds a generator, a controller or a parallel step that cannot be
\* (_preflight_sequence_spec against _dispatch_call and run_parallel_branch).
\* Not promised, for the code does not look: variables on every path, the count
\* of a repeat, values the run computes, and a parallel step within a sequence
\* used in an atomic block.
CleanRunMeetsItsTargets ==
    checked /\ diags = {} => ran.met \subseteq {"unresolved", "times", "value", "atomic_use"}

\* With every table answered, an error is never a false alarm: some run of the
\* program does meet something missing or wrong.  Excepted are bodies that are
\* repeated zero times, and variables where a for, an adaptive or a use step is
\* in the program, whose bindings the walk forgets.
ErrorsAreReal ==
    /\ checked
    /\ Tables \subseteq seen
    /\ ~\E s \in AllSteps(prog) : s.kind = "repeat" /\ s.fit = "zero"
    /\ HasErrors(IF HasStep({"for", "adaptive", "use"})
                 THEN diags \ Error("template_unresolved") ELSE diags)
    => \E o \in Outcomes : o.met # {}

\* A run that enters every body and meets no refusal never meets a variable
\* the preflight took to be defined: walking bodies in order on one
\* environment is right on that run, and only on that run (the outputs of
\* sibling parallel branches are not visible to each other and are left out).
ResolvedAsWalked ==
    checked /\ Error("template_unresolved") \cap diags = {} /\ ~StepsContainParallel(prog)
        => ~("unresolved" \in ran.met /\ ran.all)

\* The sources whose value holds a variable that only the run defines.
HiddenDevices ==
    UNION {SourceDevice(s) : s \in {t \in AllSteps(prog) : ~(t.uses \subseteq SpecVars)}}

\* A started sequence only ever commands devices that were online at the
\* start, unless the device is behind a use step or in a value the check gives
\* up on (_check_devices_connected against the runtime).
StartChecksItsDevices ==
    \A d \in ran.addressed : d \in online \cup HiddenDevices \/ HasStep({"use"})
=============================================================================
