---------------------------- MODULE MCScheduler ----------------------------
(***************************************************************************)
(* Values of the Scheduler's constants for TLC.                            *)
(***************************************************************************)
EXTENDS Scheduler, TLC

CONSTANTS s1, s2, c1, c2

OneSLO == {s1}
TwoSLOs == {s1, s2}

\* Every interval parses and is positive.
AllPositive == [s \in SLOs |-> "positive"]

\* One SLO with an interval of "0s", or one that wraps around, beside a sound one.
NonpositiveBesidePositive == (s1 :> "positive") @@ (s2 :> "nonpositive")

CallerSymmetry == Permutations(Callers)

=============================================================================
