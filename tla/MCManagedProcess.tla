-------------------------- MODULE MCManagedProcess --------------------------
(* Instances of ManagedProcess for TLC.                                        *)
EXTENDS ManagedProcess

MC_AllSpecs == SpecType

\* The device router's policy (build_router_spec).
MC_Router == {s \in SpecType : s.policy = "ALWAYS" /\ ~s.limited /\ ~s.eager}
=============================================================================
