---------------------------- MODULE MCGateAPI ----------------------------
(***************************************************************************)
(* Values of the gate API's constants for TLC.                             *)
(***************************************************************************)
EXTENDS GateAPI, TLC

CONSTANTS s1, s2, c1

TwoSLOs == {s1, s2}

\* A second SLO, whose interval does not parse: its loop ends at once, and
\* EvaluateNow refuses it.
UnparsableBesidePositive == (s1 :> "positive") @@ (s2 :> "unparsable")

=============================================================================
