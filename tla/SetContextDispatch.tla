------------------------- MODULE SetContextDispatch -------------------------
(***************************************************************************)
(* The fan-out of set_context steps over the sequencer's thread pool.  A   *)
(* step submits one job that registers the streams with the HDF writer     *)
(* and, once that succeeded, submits one job per stream that switches the  *)
(* device to the new context, retrying transient errors.  The tick loop    *)
(* polls the dispatch; a stop, a pause, a failure or the dispatch deadline *)
(* cancels it, which reaches only jobs that are submitted and not running. *)
(***************************************************************************)
EXTENDS Naturals, FiniteSets, Sequences, SequencesExt

CONSTANTS
    Streams,      \* the streams every step sets
    Workers,      \* threads of the pool
    MaxContext    \* bound on the set_context steps executed

VARIABLES
    step,      \* the context id of the last set_context step, 0 before any
    waiting,   \* whether the run is waiting for that step's dispatch
    job,       \* context id |-> kind |-> state of the job
    queue,     \* the pool's queue of <<context id, kind>>
    expected,  \* the <<stream, context id>> registered with the writer
    context,   \* stream |-> the context its device stamps on frames
    acked,     \* the <<stream, context id>> the device acknowledged
    succeeded, \* the context ids whose step ended well
    gone,      \* the context ids whose dispatch was cancelled
    late       \* the jobs that started after their dispatch was cancelled

dispatchVars == <<step, waiting, job, queue, expected, context, acked, succeeded, gone, late>>

Kinds == Streams \cup {"expect"}
Contexts == 1..MaxContext
Done == {"ok", "failed", "cancelled"}

Running == {p \in Contexts \X Kinds : job[p[1]][p[2]] = "running"}

Init ==
    /\ step = 0
    /\ waiting = FALSE
    /\ job = [c \in Contexts |-> [k \in Kinds |-> "none"]]
    /\ queue = <<>>
    /\ expected = {}
    /\ context = [s \in Streams |-> 0]
    /\ acked = {}
    /\ succeeded = {}
    /\ gone = {}
    /\ late = {}

\* Jobs of one context id joining the pool's queue, in the order of the steps.
Submit(c, kinds, jobs) ==
    /\ queue' = queue \o SetToSeq({c} \X kinds)
    /\ job' = [jobs EXCEPT ![c] = [k \in Kinds |-> IF k \in kinds THEN "queued" ELSE @[k]]]

\* Mutant: the context switches are submitted together with the registration.
BeginAllAtOnce ==
    /\ ~waiting
    /\ step < MaxContext
    /\ step' = step + 1
    /\ waiting' = TRUE
    /\ Submit(step + 1, Kinds, job)
    /\ UNCHANGED <<expected, context, acked, succeeded, gone, late>>

BeginSetContext ==
    /\ ~waiting
    /\ step < MaxContext
    /\ step' = step + 1
    /\ waiting' = TRUE
    /\ Submit(step + 1, {"expect"}, job)
    /\ UNCHANGED <<expected, context, acked, succeeded, gone, late>>

\* A worker takes the next job; a cancelled one is passed over.
Take ==
    /\ queue # <<>>
    /\ Cardinality(Running) < Workers
    /\ LET c == Head(queue)[1]
           k == Head(queue)[2]
       IN IF job[c][k] = "queued"
          THEN /\ job' = [job EXCEPT ![c][k] = "running"]
               /\ late' = IF c \in gone THEN late \cup {<<c, k>>} ELSE late
          ELSE UNCHANGED <<job, late>>
    /\ queue' = Tail(queue)
    /\ UNCHANGED <<step, waiting, expected, context, acked, succeeded, gone>>

\* hdf.streams.expect answered: only then are the context switches submitted,
\* by the same worker, whether or not the step still waits for them.
ExpectStreams(c) ==
    /\ job[c]["expect"] = "running"
    /\ expected' = expected \cup (Streams \X {c})
    /\ Submit(c, Streams, [job EXCEPT ![c]["expect"] = "ok"])
    /\ UNCHANGED <<step, waiting, context, acked, succeeded, gone, late>>

\* The writer refuses, or its answer does not arrive although it registered.
ExpectFails(c) ==
    /\ job[c]["expect"] = "running"
    /\ job' = [job EXCEPT ![c]["expect"] = "failed"]
    /\ \/ expected' = expected
       \/ expected' = expected \cup (Streams \X {c})
    /\ UNCHANGED <<step, waiting, queue, context, acked, succeeded, gone, late>>

\* One attempt of stream.context.set: acknowledged; applied and not
\* acknowledged, or refused for now, and tried again; or refused for good.
SetStreamContext(c, s) ==
    /\ job[c][s] = "running"
    /\ \/ /\ context' = [context EXCEPT ![s] = c]
          /\ acked' = acked \cup {<<s, c>>}
          /\ job' = [job EXCEPT ![c][s] = "ok"]
       \/ /\ context' = [context EXCEPT ![s] = c]
          /\ UNCHANGED <<acked, job>>
       \/ /\ job' = [job EXCEPT ![c][s] = "failed"]
          /\ UNCHANGED <<acked, context>>
    /\ UNCHANGED <<step, waiting, queue, expected, succeeded, gone, late>>

Finished(c, k) == job[c][k] \in Done

\* Mutant: the step ends with the first switch that completed.
PollFirstDone ==
    /\ waiting
    /\ Finished(step, "expect")
    /\ job[step]["expect"] = "ok" => \E s \in Streams : Finished(step, s)
    /\ waiting' = FALSE
    /\ succeeded' = IF \E k \in Kinds : job[step][k] \in {"failed", "cancelled"}
                    THEN succeeded ELSE succeeded \cup {step}
    /\ UNCHANGED <<step, job, queue, expected, context, acked, gone, late>>

\* The poll ends the step: when the registration failed, or when every call
\* has completed, with an error if one of them failed.
PollSetContext ==
    /\ waiting
    /\ Finished(step, "expect")
    /\ job[step]["expect"] = "ok" => \A s \in Streams : Finished(step, s)
    /\ waiting' = FALSE
    /\ succeeded' = IF \E k \in Kinds : job[step][k] \in {"failed", "cancelled"}
                    THEN succeeded ELSE succeeded \cup {step}
    /\ UNCHANGED <<step, job, queue, expected, context, acked, gone, late>>

\* The step is abandoned: a stop, a pause, a failure or the deadline.
Cancel ==
    /\ waiting
    /\ \E k \in Kinds : ~Finished(step, k)
    /\ waiting' = FALSE
    /\ gone' = gone \cup {step}
    /\ job' = [job EXCEPT ![step] =
                 [k \in Kinds |-> IF @[k] = "queued" THEN "cancelled" ELSE @[k]]]
    /\ UNCHANGED <<step, queue, expected, context, acked, succeeded, late>>

Next ==
    \/ BeginSetContext \/ Take \/ PollSetContext \/ Cancel
    \/ \E c \in Contexts : ExpectStreams(c) \/ ExpectFails(c)
                           \/ \E s \in Streams : SetStreamContext(c, s)

Spec == Init /\ [][Next]_dispatchVars

-----------------------------------------------------------------------------
(* Correctness. *)

\* No device stamps a context the writer was not told to expect: the strict
\* registration would reject its frames (_begin_set_context).
ExpectBeforeSwitch ==
    \A s \in Streams : context[s] # 0 => <<s, context[s]>> \in expected

\* A step ends well only when every stream acknowledged its context, and then
\* the devices are in it unless an abandoned step was still at work
\* (_poll_set_context).
SuccessMeansAcknowledged ==
    \A c \in succeeded : \A s \in Streams :
        /\ <<s, c>> \in acked
        /\ c = step /\ gone = {} => context[s] = c

\* The registration comes before the switches, and success after all of them.
DispatchSound == ExpectBeforeSwitch /\ SuccessMeansAcknowledged

\* Cancelling a dispatch keeps its queued work from starting later, as the
\* docstring of _SetContextDispatch.cancel has it.
NoWorkAfterCancel == late = {}
=============================================================================
