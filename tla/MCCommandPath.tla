--------------------------- MODULE MCCommandPath ---------------------------
(* The router with one interlock, two commands and one interlock RPC. *)
EXTENDS Interlock

CONSTANTS c1, c2, m1, p1

Scenario(sends, f, s, d) == [sends |-> sends, faults |-> f, starts |-> s, drivers |-> d]

(* Two commands around a change of the rules; a restart of the interlock and *)
(* of the driver; a mirrored command.                                        *)
MCScenarios ==
    {Scenario({c1, c2, p1}, 1, 1, 1), Scenario({c1, p1}, 1, 2, 2), Scenario({c1, m1}, 1, 1, 1)}

MCKeyOf == [c \in Commands |-> "hv.set"]
MCPatternOf == [i \in Interceptors |-> "*"]
MCTargetOf == [p \in ProcessRpcs |-> CHOOSE i \in Interceptors : TRUE]
=============================================================================
