---------------------------- MODULE MCExperiment ----------------------------
(* What an experiment runs on and what its data goes through, checked in one   *)
(* run: the sequencer's interpreter, the workspaces of the stream analysis and *)
(* the operators of their graphs.  A behaviour is one of one `part'; the other *)
(* parts stay in their initial states.                                         *)
EXTENDS StreamAnalysis

CONSTANTS Programs,   \* the sequences of the run
          NoSeq

VARIABLES part,
          root, state, phase, stack, wait, pauseReq, stopReq, pending, cleanupFailed,
          depth, scope, useStack, parFault, loopsLeft, completed, commands,
          offered, fixedHist, autoHist, ratioHist, mapHist, rolling, blockAvg, blocks, history

sequencerVars == <<root, state, phase, stack, wait, pauseReq, stopReq, pending, cleanupFailed,
                   depth, scope, useStack, parFault, loopsLeft, completed, commands>>
operatorVars == <<offered, fixedHist, autoHist, ratioHist, mapHist, rolling, blockAvg, blocks, history>>

-----------------------------------------------------------------------------
(* Small sequences: every kind of step, nested in the ways that interact       *)
(* (loops and atomic blocks in a protected body, control flow, waits and a     *)
(* used sequence in a finally body).                                           *)

Call     == [k |-> "call"]
Set      == [k |-> "set"]
Assign   == [k |-> "assign"]
Sleep    == [k |-> "sleep"]
Until(c) == [k |-> "until", condition |-> c, timeout |-> c = "good"]
While(b, raises) == [k |-> "while", body |-> b, raises |-> raises]
Adaptive(b, strict, async, raises) ==
    [k |-> "adaptive", body |-> b, n |-> 2, strict |-> strict, async |-> async, raises |-> raises]

MCBlocks ==
    [empty   |-> <<>>,
     one     |-> <<Call>>,
     nap     |-> <<Sleep>>,
     burst   |-> <<[k |-> "atomic", body |-> "nap"], [k |-> "disabled"], Set>>,
     cleanup |-> <<[k |-> "use", body |-> "helper"], [k |-> "for", n |-> 2, body |-> "one"]>>,
     helper  |-> <<[k |-> "context"]>>,
     guarded |-> <<[k |-> "try", body |-> "scan", finally |-> "cleanup"], Assign>>,
     scan    |-> <<[k |-> "repeat", n |-> 2, body |-> "burst"], [k |-> "parallel"]>>,
     nested  |-> <<[k |-> "atomic", body |-> "inner"], [k |-> "if", then |-> "one", else |-> "empty"],
                   While("nap", FALSE)>>,
     inner   |-> <<[k |-> "try", body |-> "asker", finally |-> "empty"]>>,
     asker   |-> <<[k |-> "pause"], [k |-> "try", body |-> "nap", finally |-> "burst"]>>,
     lonely  |-> <<[k |-> "use", body |-> "again"], Until("good")>>,
     again   |-> <<[k |-> "use", body |-> "again"]>>,
     tuning  |-> <<[k |-> "try", body |-> "study", finally |-> "checks"]>>,
     study   |-> <<Adaptive("one", FALSE, TRUE, TRUE)>>,
     checks  |-> <<Until("good"), Adaptive("nap", FALSE, FALSE, FALSE), [k |-> "atomic", body |-> "packed"]>>,
     packed  |-> <<[k |-> "parallel"], Call>>,
     plain   |-> <<Until("bad"), Sleep>>,
     hanging |-> <<[k |-> "try", body |-> "one", finally |-> "plain"]>>,
     failing |-> <<[k |-> "try", body |-> "strict", finally |-> "one"]>>,
     strict  |-> <<Adaptive("one", TRUE, FALSE, FALSE)>>,
     broken  |-> <<[k |-> "try", body |-> "lost", finally |-> "trials"]>>,
     lost    |-> <<While("one", TRUE)>>,
     trials  |-> <<While("empty", TRUE), Adaptive("one", FALSE, FALSE, TRUE)>>]

MCExact == {"empty", "one", "nap", "burst", "cleanup", "helper", "guarded", "scan"}

Sequencer == INSTANCE SequencerRuntime WITH
    Blocks <- MCBlocks, Roots <- Programs, ExactBlocks <- MCExact, MaxWhile <- 1, MaxCommands <- 5

ASSUME ProgramsWellFormed == Sequencer!WellFormed

-----------------------------------------------------------------------------
(* Graphs of a workspace: an edit upstream of the accumulator, one that stops  *)
(* publishing it, and a cyclic one that does not compile.                      *)

NodeOf(op, par, ins, kind) == [op |-> op, par |-> par, ins |-> ins, kind |-> kind]

Chain(p) == [s |-> NodeOf("source.stream", 0, {}, "trace"),
             g |-> NodeOf("threshold", p, {"s"}, "scalar"),
             a |-> NodeOf("aggregate", 1, {"g"}, "hist")]

Version(nodes, outs) == [enabled |-> TRUE, key |-> "k1", nodes |-> nodes, outs |-> outs]

MCGraph == [c1  |-> Version(Chain(1), [o |-> "a", t |-> "s"]),
            c2  |-> Version(Chain(2), [o |-> "a"]),
            c3  |-> Version(Chain(2), [t |-> "s"]),
            bad |-> Version([s |-> NodeOf("threshold", 0, {"s"}, "scalar")], [t |-> "s"])]

MCConfigs == DOMAIN MCGraph

-----------------------------------------------------------------------------
(* Four samples in, at and beyond the edges of two bins (-99 is Absent).       *)

Operators == INSTANCE AnalysisOps WITH
    Xs <- {-99, 1, 2, 3}, Sizes <- {2, 3}, XMin <- 1, XMax <- 2, BinCount <- 2, Window <- 2,
    Block <- 2, TargetPoints <- 4, MaxAge <- 1, MaxPoints <- 2, PrunePeriod <- 1, Delays <- {0, 2},
    MaxDts <- {-99, 0, 1}, MaxSamples <- 4

-----------------------------------------------------------------------------

ExperimentInit ==
    part \in {"sequencer", "analysis", "operators"} /\ Sequencer!Init /\ Init /\ Operators!Init

ExperimentNext ==
    \/ part = "sequencer" /\ Sequencer!Next /\ UNCHANGED <<part, analysisVars, operatorVars>>
    \/ part = "analysis" /\ Next /\ UNCHANGED <<part, sequencerVars, operatorVars>>
    \/ part = "operators" /\ Operators!Next /\ UNCHANGED <<part, sequencerVars, analysisVars>>

\* The fairness is the sequencer's; its Tick is disabled where the part is another.
ExperimentSpec ==
    /\ ExperimentInit
    /\ [][ExperimentNext]_<<part, sequencerVars, analysisVars, operatorVars>>
    /\ WF_sequencerVars(Sequencer!Tick)

-----------------------------------------------------------------------------
(* Properties *)

\* Sequencer: when a run ends, by its last step, a stop, a failure, a timeout or
\* an external fault, every finally body it owed has run; the atomic depth, the
\* variables and the use stack are those of the blocks that are open; and the
\* progress shown adds up to the plan.
RunSound ==
    part = "sequencer" =>
        Sequencer!FinallyBeforeEnd /\ Sequencer!OpenBlocksAccounted /\ Sequencer!ProgressExact

\* Sequencer: a terminal unwind that began comes to its end although steps of the
\* cleanup fail or raise (a pause step of the cleanup waits for the operator; a
\* while condition, study or wait_until of the cleanup that keeps raising blocks it).
CleanupEnds == Sequencer!CleanupEnds

\* Sequencer: a stop of a running sequence ends the run, whatever atomic block,
\* wait, parallel group, exception or cleanup it meets, unless another command
\* follows or the cleanup is blocked by what keeps raising in it.
StopEndsRun == Sequencer!StopEndsRun

\* Analysis operators: each incremental accumulator equals what a batch
\* computation over the samples since the last reset gives (bins, quotients,
\* averages), the telemetry looked up is the nearest within its limit, and
\* decimation keeps the extremes of a trace.
OperatorsExact ==
    part = "operators" =>
        /\ Operators!BinsHoldTheirShots /\ Operators!QuotientAligned /\ Operators!AveragesExact
        /\ Operators!NearestTelemetry /\ Operators!DecimationKeepsExtremes
=============================================================================
