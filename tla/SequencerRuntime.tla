-------------------------- MODULE SequencerRuntime --------------------------
(***************************************************************************)
(* The sequencer's interpreter (sequencer/runtime.py) and the RPC commands *)
(* that drive it (sequencer/sequencer.py).                                 *)
(*                                                                         *)
(* A sequence is a table of blocks of steps.  The interpreter keeps an     *)
(* explicit stack of frames; tick() resolves what the run waits for, then  *)
(* executes steps until one blocks, the tick's budget is spent or an       *)
(* atomic block ends.  The process loop is one thread: RPC commands and    *)
(* external faults are handled only between two ticks (phase = "poll").    *)
(* A stop, an error or a fault starts a terminal unwind that runs the      *)
(* `finally' bodies found on the stack before the run ends.                *)
(*                                                                         *)
(* What a step computes is abstracted to whether it succeeds.  Times are   *)
(* abstracted to whether a wait is over.                                   *)
(***************************************************************************)
EXTENDS Integers, Sequences, FiniteSets

CONSTANTS
    Blocks,        \* block name -> sequence of steps
    Roots,         \* the blocks that are loadable sequences
    ExactBlocks,   \* the blocks whose step count is known before they run
    MaxWhile,      \* bound: passes of a while loop
    MaxCommands,   \* bound: RPC commands and external faults
    NoSeq          \* no sequence is loaded

VARIABLES
    root,          \* _spec: the loaded sequence
    state,         \* _state
    phase,         \* "poll": between ticks; "loop": top of tick's loop; "next": in _next_step
    stack,         \* _stack
    wait,          \* the step in flight: _sleep_until, _wait_state, _set_context_state, ...
    pauseReq,      \* _pause_requested
    stopReq,       \* _stop_requested
    pending,       \* _pending_terminal_state
    cleanupFailed, \* _cleanup_failed
    depth,         \* _atomic_depth
    scope,         \* _vars: the sequence whose variables are in effect
    useStack,      \* _use_stack
    parFault,      \* _parallel_pending_failure is set
    loopsLeft,     \* _loops_target - _loops_completed, or -1 for continuous
    completed,     \* _completed_steps - _loop_started_completed
    commands       \* commands received so far

control  == <<root, scope, useStack, loopsLeft, completed>>
requests == <<pauseReq, stopReq>>
terminal == <<pending, cleanupFailed>>
vars == <<root, state, phase, stack, wait, pauseReq, stopReq, pending, cleanupFailed,
          depth, scope, useStack, parFault, loopsLeft, completed, commands>>

NoWait == [k |-> "none"]

(* The steps of a block; n is the number of passes or trials.  What decides *)
(* on a further pass of a while, or on a trial of a study, may raise: a     *)
(* condition with an unknown name, a controller that cannot propose.        *)
StepForms ==
         [k : {"call", "set", "assign", "sleep", "context", "parallel", "pause", "disabled"}]
    \cup [k : {"until"}, condition : {"good", "bad"}, timeout : BOOLEAN]
    \cup [k : {"for", "repeat"}, n : Nat, body : DOMAIN Blocks]
    \cup [k : {"atomic", "use"}, body : DOMAIN Blocks]
    \cup [k : {"while"}, body : DOMAIN Blocks, raises : BOOLEAN]
    \cup [k : {"if"}, then : DOMAIN Blocks, else : DOMAIN Blocks]
    \cup [k : {"try"}, body : DOMAIN Blocks, finally : DOMAIN Blocks]
    \cup [k : {"adaptive"}, body : DOMAIN Blocks, n : Nat, strict : BOOLEAN, async : BOOLEAN,
          raises : BOOLEAN]

Bodies(s) ==
    CASE s.k \in {"for", "repeat", "atomic", "use"} -> {s.body}
      [] s.k = "try" -> {s.body, s.finally}
      [] OTHER -> {}

(* What the parser and the library let through.  The steps of a block can  *)
(* be counted in advance if it has no condition and no study in it; bodies *)
(* nest, and a library with sequences that use each other in a circle      *)
(* does not load.                                                          *)
WellFormed ==
    /\ \A b \in DOMAIN Blocks : Blocks[b] \in Seq(StepForms)
    /\ Roots \subseteq DOMAIN Blocks /\ ExactBlocks \subseteq DOMAIN Blocks /\ MaxWhile \in Nat
    /\ \A b \in ExactBlocks : \A i \in DOMAIN Blocks[b] :
          Blocks[b][i].k \notin {"if", "while", "adaptive"} /\ Bodies(Blocks[b][i]) \subseteq ExactBlocks
    /\ \A S \in SUBSET ExactBlocks : S # {} =>
          \E b \in S : \A i \in DOMAIN Blocks[b] : Bodies(Blocks[b][i]) \cap S = {}

(* The frames of the stack.  `exit' names the on_exit callback of a frame. *)
StepFrame(b, exit, unwind, saved) ==
    [k |-> "steps", blk |-> b, i |-> 1, exit |-> exit, unwind |-> unwind, saved |-> saved]
\* A record of a `for' may lack a field that is bound; a repeat only counts.
LoopFrame(s)         == [k |-> "loop", blk |-> s.body, left |-> s.n, raises |-> s.k = "for"]
WhileFrame(s)        == [k |-> "while", blk |-> s.body, left |-> MaxWhile, raises |-> s.raises]
TryFrame(b)          == [k |-> "try", blk |-> b, finalizing |-> FALSE]
AdaptiveFrame(s)     == [k |-> "adaptive", blk |-> s.body, busy |-> FALSE, left |-> s.n,
                         strict |-> s.strict, async |-> s.async, raises |-> s.raises]

Top       == stack[Len(stack)]
Pop       == SubSeq(stack, 1, Len(stack) - 1)
SetTop(f) == [stack EXCEPT ![Len(stack)] = f]
Steps(f)  == Blocks[f.blk]
Spent(f)  == f.i > Len(Steps(f))

(* A frame whose `finally' steps have not all run. *)
OwesFinally(f) ==
    \/ f.k = "try" /\ ~f.finalizing /\ Blocks[f.blk] # <<>>
    \/ f.k = "steps" /\ f.unwind
\* Mutant: only on_exit callbacks count as unwind work.
UnwindWorkOnExit(st) == \E j \in DOMAIN st : st[j].k = "steps" /\ st[j].exit # "none"

HasUnwindWork(st) ==
    \E j \in DOMAIN st : OwesFinally(st[j]) \/ (st[j].k = "steps" /\ st[j].exit # "none")

(* Pause and stop are deferred inside an atomic block and a parallel group. *)
Interruptible == depth = 0 /\ wait.k # "parallel"

Active == state \in {"RUNNING", "PAUSED"}

-----------------------------------------------------------------------------
(* Ends of a run, and the terminal unwind. *)

(* _begin_terminal_unwind: what was waited for is dropped (a set_context   *)
(* dispatch and a parallel group get their best-effort cancel).            *)
BeginUnwind(target) ==
    /\ pending' = target
    /\ cleanupFailed' = FALSE
    /\ wait' = NoWait
    /\ parFault' = FALSE
    /\ UNCHANGED <<state, completed>>

(* _fail_step and _handle_runtime_exception: a failure in the cleanup is   *)
(* noted, any other one starts the unwind or ends the run.  `w' is what is *)
(* left in flight when the unwind does not clear it, n the number of steps *)
(* counted as completed.                                                   *)
Fails(w, n) ==
    \/ /\ pending # "none"
       /\ cleanupFailed' = TRUE
       /\ wait' = w
       /\ parFault' = FALSE
       /\ completed' = completed + n
       /\ UNCHANGED <<state, pending>>
    \/ /\ pending = "none"
       /\ HasUnwindWork(stack')
       /\ BeginUnwind("ERROR")
    \/ /\ pending = "none"
       /\ ~HasUnwindWork(stack')
       /\ state' = "ERROR"
       /\ wait' = w
       /\ parFault' = FALSE
       /\ completed' = completed + n
       /\ UNCHANGED terminal

(* _fail_step: the step is over. *)
StepFails == Fails(NoWait, 1)

(* An exception out of tick(): no step is counted, and the tick is over. *)
Raises(w) == Fails(w, 0) /\ phase' = "poll"

\* Mutant: a run whose cleanup failed is not finished.
FinishCleanOnly ==
    /\ (state = "RUNNING" /\ phase = "poll") \/ phase = "next"
    /\ pending # "none" /\ stack = <<>> /\ ~cleanupFailed
    /\ state' = pending /\ pending' = "none"
    /\ wait' = NoWait /\ parFault' = FALSE /\ phase' = "poll"
    /\ UNCHANGED <<control, stack, requests, depth, commands, cleanupFailed>>

(* A cleanup failure makes the run an ERROR. *)
FinishPending ==
    /\ (state = "RUNNING" /\ phase = "poll") \/ phase = "next"
    /\ pending # "none" /\ stack = <<>>
    /\ state' = IF cleanupFailed THEN "ERROR" ELSE pending
    /\ pending' = "none" /\ cleanupFailed' = FALSE
    /\ wait' = NoWait /\ parFault' = FALSE
    /\ phase' = "poll"
    /\ UNCHANGED <<control, stack, requests, depth, commands>>

-----------------------------------------------------------------------------
(* RPC commands, between ticks. *)

Command ==
    /\ phase = "poll"
    /\ commands < MaxCommands
    /\ commands' = commands + 1

(* runtime.load: refused only while RUNNING, so a paused run is dropped. *)
Reset ==
    /\ stack' = <<>> /\ wait' = NoWait /\ parFault' = FALSE
    /\ pauseReq' = FALSE /\ stopReq' = FALSE
    /\ pending' = "none" /\ cleanupFailed' = FALSE
    /\ depth' = 0 /\ useStack' = <<>> /\ completed' = 0

Load(r) ==
    /\ Command
    /\ state # "RUNNING"
    /\ Reset
    /\ root' = r /\ scope' = r
    /\ state' = "IDLE" /\ loopsLeft' = 0
    /\ UNCHANGED phase

\* Mutant: start does not reset _atomic_depth.
StartKeepsDepth(n) ==
    /\ Command
    /\ root # NoSeq
    /\ pauseReq' = FALSE /\ stopReq' = FALSE
    /\ pending' = "none" /\ cleanupFailed' = FALSE
    /\ wait' = NoWait /\ parFault' = FALSE
    /\ stack' = <<StepFrame(root, "none", FALSE, root)>>
    /\ scope' = root /\ useStack' = <<>> /\ completed' = 0
    /\ loopsLeft' = n
    /\ state' = "RUNNING"
    /\ UNCHANGED <<root, phase, depth>>

(* runtime.start: allowed in every state once a sequence is loaded. *)
Start(n) ==
    /\ Command
    /\ root # NoSeq
    /\ pauseReq' = FALSE /\ stopReq' = FALSE
    /\ pending' = "none" /\ cleanupFailed' = FALSE
    /\ wait' = NoWait /\ parFault' = FALSE
    /\ stack' = <<StepFrame(root, "none", FALSE, root)>>
    /\ scope' = root /\ useStack' = <<>> /\ depth' = 0 /\ completed' = 0
    /\ loopsLeft' = n
    /\ state' = "RUNNING"
    /\ UNCHANGED <<root, phase>>

(* A start whose `requires' preconditions do not hold: the runtime is      *)
(* started and failed at once, before any tick.                            *)
StartRefused ==
    /\ Command
    /\ root # NoSeq
    /\ pauseReq' = FALSE /\ stopReq' = FALSE
    /\ pending' = "none" /\ cleanupFailed' = FALSE
    /\ wait' = NoWait /\ parFault' = FALSE
    /\ stack' = <<StepFrame(root, "none", FALSE, root)>>
    /\ scope' = root /\ useStack' = <<>> /\ depth' = 0 /\ completed' = 0
    /\ loopsLeft' = 1
    /\ state' = "ERROR"
    /\ UNCHANGED <<root, phase>>

RequestPause ==
    /\ Command
    /\ pauseReq' = TRUE
    /\ UNCHANGED <<control, state, phase, stack, wait, stopReq, terminal, depth, parFault>>

Resume ==
    /\ Command
    /\ state = "PAUSED"
    /\ state' = "RUNNING" /\ pauseReq' = FALSE
    /\ UNCHANGED <<control, phase, stack, wait, stopReq, terminal, depth, parFault>>

(* A stop of a paused run makes it RUNNING again so that a tick takes the  *)
(* stop request.                                                           *)
RequestStop ==
    /\ Command
    /\ stopReq' = TRUE
    /\ state' = IF state = "PAUSED" THEN "RUNNING" ELSE state
    /\ pauseReq' = (pauseReq /\ state # "PAUSED")
    /\ UNCHANGED <<control, phase, stack, wait, terminal, depth, parFault>>

(* runtime.fail.  A parallel group is joined before the fault acts; a      *)
(* fault during the cleanup only ends the wait of the cleanup step.        *)
Fail ==
    /\ pauseReq' = FALSE /\ stopReq' = FALSE
    /\ \/ /\ wait.k = "parallel"
          /\ parFault' = TRUE
          /\ UNCHANGED <<state, wait, completed, terminal>>
       \/ /\ wait.k # "parallel" /\ pending # "none"
          /\ wait' = NoWait
          /\ UNCHANGED <<state, completed, parFault, terminal>>
       \/ /\ wait.k # "parallel" /\ pending = "none" /\ HasUnwindWork(stack)
          /\ BeginUnwind("ERROR")
       \/ /\ wait.k # "parallel" /\ pending = "none" /\ ~HasUnwindWork(stack)
          /\ state' = "ERROR" /\ wait' = NoWait
          /\ UNCHANGED <<completed, parFault, terminal>>
    /\ UNCHANGED <<root, phase, stack, depth, scope, useStack, loopsLeft>>

(* _drain_external_fault_logs: an error log of a driver or of the HDF      *)
(* writer; it is dropped unless the run is RUNNING.                        *)
ExternalFault == Command /\ state = "RUNNING" /\ Fail

-----------------------------------------------------------------------------
(* tick() up to its loop. *)

\* Mutant: a stop with nothing to unwind only clears the request.
HonourStopUnwindOnly ==
    /\ state = "RUNNING" /\ phase \in {"poll", "loop"}
    /\ ~(pending # "none" /\ stack = <<>>)
    /\ stopReq /\ Interruptible
    /\ stopReq' = FALSE
    /\ phase' = "poll"
    /\ \/ /\ pending # "none" \/ ~HasUnwindWork(stack)
          /\ UNCHANGED <<state, wait, parFault, completed, terminal>>
       \/ /\ pending = "none" /\ HasUnwindWork(stack)
          /\ BeginUnwind("STOPPED")
    /\ UNCHANGED <<root, stack, pauseReq, depth, scope, useStack, loopsLeft, commands>>

(* _check_stop_pause: a stop goes before a pause. *)
HonourStop ==
    /\ state = "RUNNING" /\ phase \in {"poll", "loop"}
    /\ ~(pending # "none" /\ stack = <<>>)
    /\ stopReq /\ Interruptible
    /\ stopReq' = FALSE
    /\ phase' = "poll"
    /\ \/ /\ pending # "none"
          /\ UNCHANGED <<state, wait, parFault, completed, terminal>>
       \/ /\ pending = "none" /\ HasUnwindWork(stack)
          /\ BeginUnwind("STOPPED")
       \/ /\ pending = "none" /\ ~HasUnwindWork(stack)
          /\ state' = "STOPPED"
          /\ wait' = IF wait.k = "context" THEN NoWait ELSE wait
          /\ UNCHANGED <<parFault, completed, terminal>>
    /\ UNCHANGED <<root, stack, pauseReq, depth, scope, useStack, loopsLeft, commands>>

HonourPause ==
    /\ state = "RUNNING" /\ phase \in {"poll", "loop"}
    /\ ~(pending # "none" /\ stack = <<>>)
    /\ ~stopReq /\ pauseReq /\ Interruptible
    /\ state' = "PAUSED"
    /\ phase' = "poll"
    /\ UNCHANGED <<control, stack, wait, requests, terminal, depth, parFault, commands>>

CanProceed == state = "RUNNING" /\ ~((stopReq \/ pauseReq) /\ Interruptible)

(* What was waited for has come, or has failed, when the tick looks. *)
WaitOver ==
    /\ wait' = NoWait
    /\ completed' = completed + 1
    /\ phase' = "loop"
    /\ UNCHANGED <<root, state, stack, requests, terminal, depth, scope, useStack,
                   parFault, loopsLeft, commands>>
WaitFailed ==
    /\ stack' = stack
    /\ StepFails
    /\ phase' = IF state' = "RUNNING" THEN "loop" ELSE "poll"
    /\ UNCHANGED <<root, depth, scope, useStack, loopsLeft, commands>>

SleepEnds ==
    /\ phase = "poll" /\ CanProceed /\ wait.k = "sleep"
    /\ WaitOver

(* _step_wait_until: the condition holds and is stable, or the timeout     *)
(* passes or a sample call fails for good.                                 *)
WaitUntilEnds ==
    /\ phase = "poll" /\ CanProceed /\ wait.k = "until"
    /\ \/ wait.condition = "good" /\ WaitOver
       \/ wait.timeout /\ WaitFailed /\ UNCHANGED requests

(* _step_set_context: every stream has acknowledged the new context, or    *)
(* the dispatch failed or passed its deadline.                             *)
ContextAcknowledged ==
    /\ phase = "poll" /\ CanProceed /\ wait.k = "context"
    /\ WaitOver \/ (WaitFailed /\ UNCHANGED requests)

(* _step_parallel: all branches have joined.  A fault that was waiting for *)
(* it overrides the requests made meanwhile.                               *)
ParallelJoined ==
    /\ phase = "poll" /\ CanProceed /\ wait.k = "parallel"
    /\ \/ ~parFault /\ WaitOver
       \/ ~parFault /\ WaitFailed /\ UNCHANGED requests
       \/ parFault /\ WaitFailed /\ pauseReq' = FALSE /\ stopReq' = FALSE

(* The condition of a wait_until cannot be evaluated: the exception leaves *)
(* _step_wait_until with _wait_state still set.                            *)
WaitRaises ==
    /\ phase = "poll" /\ CanProceed
    /\ wait.k = "until" /\ wait.condition = "bad"
    /\ stack' = stack
    /\ Raises(wait)
    /\ UNCHANGED <<root, requests, depth, scope, useStack, loopsLeft, commands>>

(* _finalize_adaptive_trial: told to the controller, stored, and closed. *)
TrialClosed(st, at) == [st EXCEPT ![at].busy = FALSE, ![at].left = @ - 1]

(* _step_adaptive_observation: the trial's metrics arrived, or timed out.  *)
(* A failed trial of a strict study sets ERROR without an unwind.          *)
ObservationEnds ==
    /\ phase = "poll" /\ CanProceed
    /\ wait.k = "observe"
    /\ wait' = NoWait
    /\ stack' = TrialClosed(stack, wait.at)
    /\ \/ phase' = "loop" /\ UNCHANGED state
       \/ stack[wait.at].strict /\ state' = "ERROR" /\ phase' = "poll"
    /\ UNCHANGED <<control, requests, terminal, depth, parFault, commands>>

(* The controller refuses the result, or it cannot be stored. *)
ObservationRaises ==
    /\ phase = "poll" /\ CanProceed
    /\ wait.k = "observe" /\ stack[wait.at].raises
    /\ stack' = TrialClosed(stack, wait.at)
    /\ Raises(NoWait)
    /\ UNCHANGED <<root, requests, depth, scope, useStack, loopsLeft, commands>>

EnterLoop ==
    /\ phase = "poll" /\ CanProceed
    /\ wait = NoWait /\ ~(pending # "none" /\ stack = <<>>)
    /\ phase' = "next"
    /\ UNCHANGED <<control, state, stack, wait, requests, terminal, depth, parFault, commands>>

Continue ==
    /\ phase = "loop" /\ CanProceed
    /\ wait = NoWait
    /\ phase' = "next"
    /\ UNCHANGED <<control, state, stack, wait, requests, terminal, depth, parFault, commands>>

-----------------------------------------------------------------------------
(* _next_step: frames that yield no step. *)

(* The innermost `finally' body being run; the frames above it were pushed *)
(* by its own steps and run normally even during a terminal unwind.        *)
Floor ==
    LET bodies == {j \in DOMAIN stack : stack[j].k = "steps" /\ stack[j].unwind}
    IN  IF bodies = {} THEN 0 ELSE CHOOSE j \in bodies : \A m \in bodies : m <= j
Normally == pending = "none" \/ (Floor > 0 /\ Floor < Len(stack))

InNext == phase = "next" /\ stack # <<>>

(* The body of an adaptive trial is over: its metrics are read now, or     *)
(* awaited.  Index of the adaptive frame: the one below the body.          *)
AfterAdaptiveBody ==
    LET at == Len(stack) - 1
        fr == stack[at]
    IN  \/ /\ fr.async
           /\ wait' = IF Normally THEN [k |-> "observe", at |-> at] ELSE NoWait
           /\ stack' = Pop
           /\ UNCHANGED state
        \/ /\ stack' = TrialClosed(Pop, at)
           /\ UNCHANGED <<state, wait>>
        \/ /\ fr.strict
           /\ stack' = TrialClosed(Pop, at)
           /\ state' = "ERROR"
           /\ UNCHANGED wait

(* A block is over, or is discarded by the unwind. *)
BlockOver ==
    /\ InNext /\ Top.k = "steps"
    /\ IF Normally \/ Top.unwind THEN Spent(Top) ELSE TRUE

(* Its on_exit runs.  In normal execution the tick ends at the outermost   *)
(* atomic boundary.                                                        *)
LeaveBlock ==
    /\ BlockOver
    /\ CASE Top.exit = "none" ->
              /\ stack' = Pop
              /\ UNCHANGED <<state, wait, depth, scope, useStack, phase>>
         [] Top.exit = "atomic" ->
              /\ stack' = Pop
              /\ depth' = depth - 1
              /\ phase' = IF Normally /\ depth' = 0 THEN "poll" ELSE "next"
              /\ UNCHANGED <<state, wait, scope, useStack>>
         [] Top.exit = "use" ->
              /\ stack' = Pop
              /\ scope' = Top.saved
              /\ useStack' = SubSeq(useStack, 1, Len(useStack) - 1)
              /\ UNCHANGED <<state, wait, depth, phase>>
         [] Top.exit = "adaptive" ->
              /\ AfterAdaptiveBody
              /\ phase' = IF Normally /\ (state' # "RUNNING" \/ wait'.k = "observe")
                          THEN "poll" ELSE "next"
              /\ UNCHANGED <<depth, scope, useStack>>
    /\ UNCHANGED <<root, requests, terminal, parFault, loopsLeft, completed, commands>>

(* The on_exit of a trial raises: before it is closed (the observation     *)
(* cannot begin), or when the controller is told or the trial is stored.   *)
TrialEndRaises ==
    /\ BlockOver /\ Top.exit = "adaptive"
    /\ stack[Len(stack) - 1].raises
    /\ stack' \in {Pop, TrialClosed(Pop, Len(stack) - 1)}
    /\ Raises(NoWait)
    /\ UNCHANGED <<root, requests, depth, scope, useStack, loopsLeft, commands>>

SkipDisabled ==
    /\ InNext /\ Top.k = "steps" /\ ~Spent(Top)
    /\ Normally \/ Top.unwind
    /\ Steps(Top)[Top.i].k = "disabled"
    /\ stack' = SetTop([Top EXCEPT !.i = @ + 1])
    /\ UNCHANGED <<control, state, phase, wait, requests, terminal, depth, parFault, commands>>

(* for and repeat take their next pass or end; the condition of a while is *)
(* evaluated.                                                              *)
NextPass ==
    /\ InNext /\ Normally /\ Top.k \in {"loop", "while"}
    /\ \/ /\ Top.left > 0
          /\ stack' = Append(SetTop([Top EXCEPT !.left = @ - 1]),
                             StepFrame(Top.blk, "none", FALSE, scope))
       \/ /\ Top.left <= 0 \/ Top.k = "while"
          /\ stack' = Pop
    /\ UNCHANGED <<control, state, phase, wait, requests, terminal, depth, parFault, commands>>

(* A record of a `for' that cannot be bound is passed over; the condition  *)
(* of a while that cannot be evaluated stays on top of the stack.          *)
PassRaises ==
    /\ InNext /\ Normally /\ Top.k \in {"loop", "while"}
    /\ Top.raises
    /\ \/ Top.k = "while" /\ stack' = stack
       \/ Top.k = "loop" /\ Top.left > 0 /\ stack' = SetTop([Top EXCEPT !.left = @ - 1])
    /\ Raises(NoWait)
    /\ UNCHANGED <<root, requests, depth, scope, useStack, loopsLeft, commands>>

(* Also what the unwind does with a try frame: its `finally' body is run   *)
(* once, and marked to be run during an unwind.                            *)
NextTry ==
    /\ InNext /\ Top.k = "try"
    /\ stack' = CASE Top.finalizing -> Pop
                  [] ~Top.finalizing /\ Blocks[Top.blk] = <<>> ->
                        SetTop([Top EXCEPT !.finalizing = TRUE])
                  [] OTHER -> Append(SetTop([Top EXCEPT !.finalizing = TRUE]),
                                     StepFrame(Top.blk, "none", TRUE, scope))
    /\ UNCHANGED <<control, state, phase, wait, requests, terminal, depth, parFault, commands>>

(* The next trial, unless a stopping rule holds; nothing is ready while a  *)
(* trial is open.                                                          *)
NextTrial ==
    /\ InNext /\ Normally /\ Top.k = "adaptive"
    /\ \/ /\ ~Top.busy /\ Top.left > 0
          /\ stack' = Append(SetTop([Top EXCEPT !.busy = TRUE]),
                             StepFrame(Top.blk, "adaptive", FALSE, scope))
          /\ UNCHANGED phase
       \/ /\ ~Top.busy /\ Top.left <= 0
          /\ stack' = Pop
          /\ UNCHANGED phase
       \/ /\ Top.busy
          /\ phase' = "poll"
          /\ UNCHANGED stack
    /\ UNCHANGED <<control, state, wait, requests, terminal, depth, parFault, commands>>

(* A stopping rule, the controller or the binding of its proposal raises;  *)
(* a proposal that cannot be bound leaves the trial open without a body.   *)
TrialRaises ==
    /\ InNext /\ Normally /\ Top.k = "adaptive"
    /\ Top.raises /\ ~Top.busy
    /\ \/ stack' = stack
       \/ Top.left > 0 /\ stack' = SetTop([Top EXCEPT !.busy = TRUE])
    /\ Raises(NoWait)
    /\ UNCHANGED <<root, requests, depth, scope, useStack, loopsLeft, commands>>

(* The unwind drops every other frame of the interrupted body. *)
Discard ==
    /\ InNext /\ ~Normally /\ Top.k \in {"loop", "while", "adaptive"}
    /\ stack' = Pop
    /\ UNCHANGED <<control, state, phase, wait, requests, terminal, depth, parFault, commands>>

(* The sequence is over: the next run loop, or the end of the run. *)
RunEnds ==
    /\ phase = "next" /\ state = "RUNNING" /\ stack = <<>> /\ pending = "none"
    /\ IF loopsLeft = -1 \/ loopsLeft > 1
       THEN /\ loopsLeft' = IF loopsLeft = -1 THEN -1 ELSE loopsLeft - 1
            /\ stack' = <<StepFrame(root, "none", FALSE, root)>>
            /\ completed' = 0
            /\ phase' = "loop"
            /\ depth' = 0 /\ useStack' = <<>>
            /\ UNCHANGED state
       ELSE /\ loopsLeft' = 0
            /\ state' = "STOPPED"
            /\ phase' = "poll"
            /\ UNCHANGED <<stack, depth, useStack, completed>>
    /\ UNCHANGED <<root, scope, wait, requests, terminal, parFault, commands>>

-----------------------------------------------------------------------------
(* _execute_step: one action per family of handlers. *)

Taking(kinds) ==
    /\ InNext /\ Top.k = "steps" /\ ~Spent(Top)
    /\ Normally \/ Top.unwind
    /\ Steps(Top)[Top.i].k \in kinds

Step == Steps(Top)[Top.i]
Advanced == SetTop([Top EXCEPT !.i = @ + 1])

(* A step that ends at once: the tick goes on, or its budget is spent. *)
StepEnds ==
    /\ completed' = completed + 1
    /\ \/ state = "RUNNING" /\ phase' = "loop"
       \/ (Interruptible \/ state # "RUNNING") /\ phase' = "poll"

(* A blocking request to a device or a process, which fails or not. *)
Request(kind) ==
    /\ Taking({kind})
    /\ stack' = Advanced
    /\ \/ StepEnds /\ UNCHANGED <<state, wait, terminal, parFault>>
       \/ StepFails /\ phase' = "poll"
    /\ UNCHANGED <<root, requests, depth, scope, useStack, loopsLeft, commands>>

ExecuteSet    == Request("set")
ExecuteCall   == Request("call")     \* its outputs are stored in the environment
ExecuteAssign == Request("assign")   \* a value may need telemetry or a call

(* A step whose expressions cannot be rendered, whose iterable, times,     *)
(* condition, library sequence or controller cannot be had: its handler    *)
(* raises before it changes anything, past the step's index.               *)
StepRaises ==
    /\ Taking({"sleep", "until", "context", "parallel", "pause",
               "for", "repeat", "if", "use", "adaptive"})
    /\ stack' = Advanced
    /\ Raises(NoWait)
    /\ UNCHANGED <<root, requests, depth, scope, useStack, loopsLeft, commands>>

(* A step that leaves something in flight ends the tick. *)
Await(kind) ==
    /\ Taking({kind})
    /\ stack' = Advanced
    /\ phase' = "poll"
    /\ wait' = Step
    /\ UNCHANGED <<root, state, requests, terminal, depth, scope, useStack, parFault,
                   loopsLeft, completed, commands>>

ExecuteSleep      == Await("sleep")
ExecuteWaitUntil  == Await("until")
ExecuteSetContext == Await("context")

(* Refused inside an atomic block; the branches are handed to the workers. *)
ExecuteParallel ==
    \/ depth = 0 /\ Await("parallel")
    \/ /\ depth > 0 /\ Taking({"parallel"})
       /\ stack' = Advanced
       /\ StepFails
       /\ phase' = "poll"
       /\ UNCHANGED <<root, requests, depth, scope, useStack, loopsLeft, commands>>

ExecutePause ==
    /\ Taking({"pause"})
    /\ stack' = Advanced
    /\ pauseReq' = TRUE /\ state' = "PAUSED"
    /\ phase' = "poll"
    /\ completed' = completed + 1
    /\ UNCHANGED <<root, wait, stopReq, terminal, depth, scope, useStack, parFault,
                   loopsLeft, commands>>

(* A step with a body pushes the frames that run it. *)
Push(frames) ==
    /\ stack' = Advanced \o frames
    /\ completed' = completed + 1
    /\ phase' \in (IF state = "RUNNING" THEN {"loop"} ELSE {"poll"})
                 \cup (IF depth' = 0 THEN {"poll"} ELSE {})
    /\ UNCHANGED <<root, state, wait, requests, terminal, scope, useStack, parFault,
                   loopsLeft, commands>>

ExecuteFor      == Taking({"for"}) /\ UNCHANGED depth /\ Push(<<LoopFrame(Step)>>)
ExecuteRepeat   == Taking({"repeat"}) /\ UNCHANGED depth /\ Push(<<LoopFrame(Step)>>)
ExecuteWhile    == Taking({"while"}) /\ UNCHANGED depth /\ Push(<<WhileFrame(Step)>>)
ExecuteAdaptive == Taking({"adaptive"}) /\ UNCHANGED depth /\ Push(<<AdaptiveFrame(Step)>>)
ExecuteIf ==
    /\ Taking({"if"})
    /\ UNCHANGED depth
    /\ \E b \in {Step.then, Step.else} : Push(<<StepFrame(b, "none", FALSE, scope)>>)
ExecuteAtomic ==
    /\ Taking({"atomic"})
    /\ depth' = depth + 1
    /\ Push(<<StepFrame(Step.body, "atomic", FALSE, scope)>>)
ExecuteTry ==
    /\ Taking({"try"})
    /\ UNCHANGED depth
    /\ Push(<<TryFrame(Step.finally), StepFrame(Step.body, "none", FALSE, scope)>>)

(* A sequence of the library runs with its own variables; a sequence that  *)
(* is already being used is refused.                                       *)
ExecuteUse ==
    /\ Taking({"use"})
    /\ IF \E j \in DOMAIN useStack : useStack[j] = Step.body
       THEN /\ stack' = Advanced
            /\ Raises(NoWait)
            /\ UNCHANGED <<scope, useStack>>
       ELSE /\ stack' = Append(Advanced, StepFrame(Step.body, "use", FALSE, scope))
            /\ scope' = Step.body
            /\ useStack' = Append(useStack, Step.body)
            /\ StepEnds
            /\ UNCHANGED <<state, wait, terminal, parFault>>
    /\ UNCHANGED <<root, requests, depth, loopsLeft, commands>>

-----------------------------------------------------------------------------
Init ==
    /\ root = NoSeq /\ state = "IDLE" /\ phase = "poll" /\ stack = <<>>
    /\ wait = NoWait /\ pauseReq = FALSE /\ stopReq = FALSE
    /\ pending = "none" /\ cleanupFailed = FALSE
    /\ depth = 0 /\ scope = NoSeq /\ useStack = <<>> /\ parFault = FALSE
    /\ loopsLeft = 0 /\ completed = 0 /\ commands = 0

Tick ==
    \/ FinishPending \/ HonourStop \/ HonourPause
    \/ SleepEnds \/ WaitUntilEnds \/ WaitRaises \/ ContextAcknowledged \/ ParallelJoined
    \/ ObservationEnds \/ ObservationRaises
    \/ EnterLoop \/ Continue
    \/ LeaveBlock \/ TrialEndRaises \/ SkipDisabled \/ NextPass \/ PassRaises \/ NextTry
    \/ NextTrial \/ TrialRaises \/ Discard \/ RunEnds
    \/ StepRaises
    \/ ExecuteSet \/ ExecuteCall \/ ExecuteAssign
    \/ ExecuteSleep \/ ExecuteWaitUntil \/ ExecuteSetContext \/ ExecuteParallel
    \/ ExecutePause \/ ExecuteFor \/ ExecuteRepeat \/ ExecuteIf \/ ExecuteWhile
    \/ ExecuteAtomic \/ ExecuteTry \/ ExecuteUse \/ ExecuteAdaptive

Rpc ==
    \/ \E r \in Roots : Load(r)
    \/ \E n \in {1, 2, -1} : Start(n)
    \/ StartRefused \/ RequestPause \/ Resume \/ RequestStop \/ ExternalFault

Next == Tick \/ Rpc

(* The process loop ticks forever, and every sleep, timeout, RPC deadline  *)
(* and dispatch deadline passes.                                           *)
Spec == Init /\ [][Next]_vars /\ WF_vars(Tick)

-----------------------------------------------------------------------------
(* The progress walk: step executions ahead, counted block by block. *)

StepCount(s, count) ==
    CASE s.k = "disabled"         -> 0
      [] s.k \in {"for", "repeat"} -> 1 + s.n * count[s.body]
      [] s.k \in {"atomic", "use"} -> 1 + count[s.body]
      [] s.k = "try"              -> 1 + count[s.body] + count[s.finally]
      [] OTHER                    -> 1

(* f[1] + ... + f[n] *)
SumTo(f, n) ==
    LET upto[j \in 0..n] == IF j = 0 THEN 0 ELSE upto[j - 1] + f[j]
    IN  upto[n]

CountFrom(s, i, count) ==
    SumTo([j \in 1..Len(s) |-> IF j < i THEN 0 ELSE StepCount(s[j], count)], Len(s))

(* _walk_steps on a whole block. *)
BlockCount[b \in ExactBlocks] == CountFrom(Blocks[b], 1, BlockCount)

\* Mutant: the finally body of an open try is not counted.
FrameCountNoFinally(f) ==
    CASE f.k = "steps" -> CountFrom(Steps(f), f.i, BlockCount)
      [] f.k = "loop"  -> f.left * BlockCount[f.blk]
      [] OTHER         -> 0

(* _walk_remaining on one live frame, outside a terminal unwind. *)
FrameCount(f) ==
    CASE f.k = "steps" -> CountFrom(Steps(f), f.i, BlockCount)
      [] f.k = "loop"  -> f.left * BlockCount[f.blk]
      [] f.k = "try"   -> IF f.finalizing THEN 0 ELSE BlockCount[f.blk]
      [] OTHER         -> 0

RemainingWork == SumTo([j \in 1..Len(stack) |-> FrameCount(stack[j])], Len(stack))

InFlight == IF wait = NoWait THEN 0 ELSE 1

(* _progress_core: the total shown for the current run loop. *)
TotalSteps == completed + InFlight + RemainingWork

-----------------------------------------------------------------------------
(* Properties. *)

(* A run that has ended, by its last step, a stop, a failed step, a timeout *)
(* or an external fault, has run every `finally' body it had entered a try  *)
(* for (terminal unwind of runtime.py).                                     *)
FinallyBeforeEnd ==
    state \in {"STOPPED", "ERROR"} => \A j \in DOMAIN stack : ~OwesFinally(stack[j])

(* Whatever path the run leaves a block by, _atomic_depth counts the atomic *)
(* blocks that are open, and _use_stack and _vars name the innermost used   *)
(* sequence: stop and pause are deferred exactly inside atomic blocks, and  *)
(* a finally body sees the variables of its own sequence.                   *)
OpenBlocksAccounted ==
    LET with(e) == {j \in DOMAIN stack : stack[j].k = "steps" /\ stack[j].exit = e}
    IN  /\ depth = Cardinality(with("atomic"))
        /\ Len(useStack) = Cardinality(with("use"))
        /\ scope = IF useStack = <<>> THEN root ELSE useStack[Len(useStack)]

(* For a sequence whose step count is known, the steps completed, the step  *)
(* in flight and the steps the progress walk finds on the stack always add  *)
(* up to the total the plan announced (progress never jumps).               *)
ProgressExact ==
    (Active /\ root \in ExactBlocks /\ pending = "none" /\ wait.k # "observe") =>
        TotalSteps = BlockCount[root]

(* The cleanup has met what it cannot get past: a while condition, a study  *)
(* or a wait_until that raises is tried again by every tick.                *)
CleanupBlocked ==
    /\ pending # "none"
    /\ \/ wait.k = "until" /\ wait.condition = "bad"
       \/ Floor > 0 /\ \E j \in (Floor + 1)..Len(stack) :
                            stack[j].k \in {"while", "adaptive"} /\ stack[j].raises

(* A terminal unwind that began comes to its end: a cleanup step that fails *)
(* or raises does not keep the remaining cleanup from running (a pause step *)
(* of the cleanup itself waits for the operator).                           *)
CleanupEnds == (pending # "none") ~> (pending = "none" \/ state = "PAUSED" \/ CleanupBlocked)

(* A stop request of a running sequence is taken at the next interruptible  *)
(* point and ends the run, whatever atomic block, wait, parallel group,     *)
(* exception or cleanup it meets, unless another command (a new start)      *)
(* follows it or the cleanup is blocked.                                    *)
StopEndsRun ==
    (stopReq /\ state = "RUNNING" /\ commands = MaxCommands) ~> (state # "RUNNING" \/ CleanupBlocked)

=============================================================================
