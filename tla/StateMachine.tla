---------------------------- MODULE StateMachine ----------------------------
(***************************************************************************)
(* StateMachineProcessBase (processes/state_machine_base.py): a process    *)
(* whose state moves along a graph.  It plans paths through the graph,     *)
(* makes or forces transitions, runs the subclass's exit and enter hooks   *)
(* (which may raise), tells the manager's bus about each transition and    *)
(* keeps the last error; its history is only for display.                  *)
(***************************************************************************)
EXTENDS Integers, Sequences, SequencesExt, FiniteSets

CONSTANTS MachineStates,    \* the states of the subclass
          InitialState,
          GivenTransitions, \* bound: the tables a subclass may pass as allowed_transitions
          MaxEdges          \* bound: edges of a graph

VARIABLES edges,      \* _graph_edges
          allowed,    \* _allowed_transitions
          at,         \* _state
          lastError,  \* _last_error: "none", "publish" or "operational"
          noted,      \* the operational error the subclass last reported and has not cleared
          goal,       \* the targets a subclass works towards, and what is left of the path planned
          running     \* ~_stop_evt

machineVars == <<edges, allowed, at, lastError, noted, goal, running>>

Edge == MachineStates \X MachineStates
NoPath == <<"none">>
NoGoal == [targets |-> {}, path |-> <<>>, active |-> FALSE]

\* Without a table of its own a machine may move along its graph
\* (_derive_allowed_transitions_from_graph_edges).
Derived(es) == {es[i] : i \in DOMAIN es}

Init ==
    /\ edges \in UNION {[1..n -> Edge] : n \in 0..MaxEdges}
    /\ allowed \in GivenTransitions \cup {Derived(edges)}
    /\ at = InitialState /\ lastError = "none" /\ noted = FALSE
    /\ goal = NoGoal /\ running = TRUE

\* can_transition.
CanTransition(src, dst) == <<src, dst>> \in allowed

-----------------------------------------------------------------------------
(* Planning *)

\* One state is taken from the queue and its edges are followed in order.
Expand(b) ==
    LET cur == Head(b.queue)
        Follow(acc, e) ==
            IF e[1] # cur \/ e[2] \in DOMAIN acc.parent THEN acc
            ELSE [queue |-> Append(acc.queue, e[2]),
                  parent |-> [s \in DOMAIN acc.parent \cup {e[2]} |-> IF s = e[2] THEN cur ELSE acc.parent[s]]]
    IN FoldLeft(Follow, [b EXCEPT !.queue = Tail(@)], edges)

RECURSIVE Search(_, _)
Search(b, target) ==
    IF b.queue = <<>> \/ target \in DOMAIN b.parent THEN b ELSE Search(Expand(b), target)

RECURSIVE PathTo(_, _, _)
PathTo(b, start, s) == IF s = start THEN <<>> ELSE Append(PathTo(b, start, b.parent[s]), s)

\* plan_state_path: the states to go through, NoPath if there is no way.
PlanStatePath(start, target) ==
    LET found == Search([queue |-> <<start>>, parent |-> [s \in {start} |-> start]], target)
    IN IF start = target THEN <<>>
       ELSE IF target \in DOMAIN found.parent THEN PathTo(found, start, target) ELSE NoPath

\* Mutant: the longest of the paths.
PlanLongestPath(start, targets) ==
    LET paths == {PlanStatePath(start, t) : t \in targets} \ {NoPath}
    IN IF start \in targets THEN <<>>
       ELSE IF paths = {} THEN NoPath
       ELSE CHOOSE p \in paths : \A q \in paths : Len(p) >= Len(q)
\* plan_state_path_to_any: the shortest of the paths to the targets.
PlanStatePathToAny(start, targets) ==
    LET paths == {PlanStatePath(start, t) : t \in targets} \ {NoPath}
    IN IF start \in targets THEN <<>>
       ELSE IF paths = {} THEN NoPath
       ELSE CHOOSE p \in paths : \A q \in paths : Len(p) <= Len(q)

-----------------------------------------------------------------------------
(* Transitions *)

\* publish_transition_event: a failure is recorded only when no error is, and a
\* success clears only such a record.
Publish(ok) ==
    lastError' = IF ok THEN IF lastError = "publish" THEN "none" ELSE lastError
                 ELSE IF lastError = "none" THEN "publish" ELSE lastError

Move(dst) ==
    /\ at' = dst
    /\ \E ok \in BOOLEAN : Publish(ok)

\* transition: refused off the graph; an exit hook that raises leaves the state
\* as it was, an enter hook that raises comes too late to.
Transition(dst) ==
    /\ running /\ at # dst
    /\ \/ Move(dst) /\ CanTransition(at, dst)
       \/ UNCHANGED <<at, lastError>>
    /\ goal' = IF goal.active /\ goal.path # <<>> /\ Head(goal.path) = dst /\ at' = dst
               THEN [goal EXCEPT !.path = Tail(@)] ELSE [goal EXCEPT !.active = @ /\ at' = at]
    /\ UNCHANGED <<edges, allowed, noted, running>>

\* force_transition: no check, no hooks.
ForceTransition(dst) ==
    /\ running /\ at # dst
    /\ Move(dst)
    /\ goal' = NoGoal
    /\ UNCHANGED <<edges, allowed, noted, running>>

\* A subclass plans its way to one of several states (plan_state_path_to_any).
Plan(targets) ==
    LET p == PlanStatePathToAny(at, targets) IN
    /\ running /\ targets # {}
    /\ goal' = IF p = NoPath THEN NoGoal
               ELSE [targets |-> targets, path |-> p, active |-> TRUE]
    /\ UNCHANGED <<edges, allowed, at, lastError, noted, running>>

\* _set_last_error: a command failed (SequenceError), or the subclass clears it.
SetLastError(failed) ==
    /\ running /\ noted # failed
    /\ lastError' = IF failed THEN "operational" ELSE "none"
    /\ noted' = failed
    /\ UNCHANGED <<edges, allowed, at, goal, running>>

\* <namespace>.stop.
Stop ==
    /\ running
    /\ running' = FALSE
    /\ UNCHANGED <<edges, allowed, at, lastError, noted, goal>>

Next ==
    \/ \E s \in MachineStates : Transition(s) \/ ForceTransition(s)
    \/ \E targets \in SUBSET MachineStates : Plan(targets)
    \/ \E failed \in BOOLEAN : SetLastError(failed)
    \/ Stop

Spec == Init /\ [][Next]_machineVars

-----------------------------------------------------------------------------

\* The states reached from S along at most n edges of the graph.
RECURSIVE Within(_, _)
Within(S, n) == IF n = 0 THEN S ELSE Within(S \cup {s \in MachineStates : \E r \in S : <<r, s>> \in Derived(edges)}, n - 1)

\* A plan is a walk along the graph that ends at one of its targets, and no
\* target is nearer; when the machine has no table of its own, every step of the
\* walk is a transition it may make (breadth-first search of plan_state_path,
\* plan_state_path_to_any).
PlanIsShortestWalk ==
    LET step(i) == <<IF i = 1 THEN at ELSE goal.path[i - 1], goal.path[i]>>
    IN goal.active =>
        /\ \A i \in DOMAIN goal.path : step(i) \in Derived(edges)
        /\ allowed = Derived(edges) => \A i \in DOMAIN goal.path : CanTransition(step(i)[1], step(i)[2])
        /\ (IF goal.path = <<>> THEN at ELSE Last(goal.path)) \in goal.targets
        /\ goal.path # <<>> => goal.targets \cap Within({at}, Len(goal.path) - 1) = {}

\* An error the subclass reported stays visible until the subclass clears it,
\* whatever becomes of the events of later transitions (publish_transition_event).
OperationalErrorKept == noted <=> lastError = "operational"
=============================================================================
