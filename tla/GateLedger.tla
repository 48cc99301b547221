----------------------------- MODULE GateLedger -----------------------------
(***************************************************************************)
(* What AegisSLO promises about its decisions, without schedulers, caches  *)
(* or databases.                                                           *)
(*                                                                         *)
(* There is a board with the decision in force for each SLO and a trail of *)
(* the decisions that have been recorded.  Publishing a decision puts it   *)
(* on the board and makes its writer owe it to the trail.  A writer pays   *)
(* each debt once, by recording the decision or, when the record cannot be *)
(* written, by losing it.  A restart wipes the board and the debts.        *)
(*                                                                         *)
(* So the trail only grows; it holds nothing that was not on the board     *)
(* first; and it misses a decision only when its record could not be       *)
(* written or the process died in between.                                 *)
(***************************************************************************)
CONSTANTS
  SLOs, Writers, Decided,   \* Decided: the decisions that can be published
  NoState,
  Audited                   \* FALSE when no database is configured

VARIABLES board, owed, trail

vars == <<board, owed, trail>>

Init ==
  /\ board = [s \in SLOs |-> NoState]
  /\ owed = {}
  /\ trail = {}

Publish(w, row) ==
  /\ board' = [board EXCEPT ![row.slo] = row]
  /\ owed' = IF Audited THEN owed \cup {<<w, row>>} ELSE owed
  /\ UNCHANGED trail

Settle(debt) ==
  /\ owed' = owed \ {debt}
  /\ \/ trail' = trail \cup {debt[2]}
     \/ UNCHANGED trail
  /\ UNCHANGED board

Restart ==
  /\ board' = [s \in SLOs |-> NoState]
  /\ owed' = {}
  /\ UNCHANGED trail

Next ==
  \/ \E w \in Writers, row \in Decided : Publish(w, row)
  \/ \E debt \in owed : Settle(debt)
  \/ Restart

Spec == Init /\ [][Next]_vars

=============================================================================
