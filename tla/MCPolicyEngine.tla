--------------------------- MODULE MCPolicyEngine ---------------------------
(* Values of the policy engine's constants for TLC: a rate below both      *)
(* thresholds, one that meets a threshold exactly, and NaN.                *)
EXTENDS PolicyEngine

MCThresholds == {Over(1, 1), Over(2, 1)}
MCRates == {Over(1, 2), Over(4, 2), NotANumber}

=============================================================================
