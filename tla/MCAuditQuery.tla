---------------------------- MODULE MCAuditQuery ----------------------------
(* Two kinds of rows, two zones an hour apart; time in hours.              *)
EXTENDS AuditQuery, TLC

CONSTANTS allow, block

MCZones == {0, -1}
T(at, z) == [at |-> at, zone |-> z]

MCRequests ==
  {[kind |-> AnyKind, start |-> NoBound, end |-> NoBound, limit |-> 1],
   [kind |-> AnyKind, start |-> Unparsable, end |-> T(1, 0), limit |-> 2],
   [kind |-> block, start |-> T(1, 0), end |-> T(2, 0), limit |-> Unparsable],
   [kind |-> block, start |-> T(1, -1), end |-> NoBound, limit |-> -1]}
=============================================================================
