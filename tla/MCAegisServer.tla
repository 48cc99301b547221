---------------------------- MODULE MCAegisServer ----------------------------
(***************************************************************************)
(* Values of the server's constants for TLC.                             *)
(***************************************************************************)
EXTENDS AegisServer

CONSTANTS s1, c1

OneSLO == {s1}

\* Every interval parses and is positive.
AllPositive == [s \in SLOs |-> "positive"]

=============================================================================
