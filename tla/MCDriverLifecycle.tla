------------------------- MODULE MCDriverLifecycle -------------------------
(* Instances of DriverLifecycle for TLC.                                       *)
EXTENDS DriverLifecycle, TLC

\* Automatic restarts with a budget, with and without auto_connect_on_register.
MC_Recover == {s \in SpecType : s.recover /\ s.limited}

\* Automatic restarts, with and without a budget.
MC_Restarted == {s \in SpecType : s.recover /\ ~s.auto}

MC_Symmetry == Permutations(Workers)
=============================================================================
