----------------------------- MODULE AuditQuery -----------------------------
(***************************************************************************)
(* Reading the audit trail: GET /v1/audit and sqlite.Store.QueryAudit, one *)
(* SELECT over the evaluations table per request, while evaluations insert *)
(* rows and the cleanup of the runbook deletes old ones.  A client walks   *)
(* through the matching rows page by page: the handler offers it limit and *)
(* offset and answers with the length of the page (AuditResponse.Total).   *)
(*                                                                         *)
(* Timestamps are stored and compared as text, the wall clock in the zone  *)
(* of whoever wrote them followed by that zone: a row is stamped in the    *)
(* zone of the process, a bound in the zone the client wrote it in.        *)
(***************************************************************************)
EXTENDS Integers, FiniteSets

CONSTANTS
  Kinds,         \* what filters tell apart: SLO, service, environment, decision
  AnyKind,       \* no filter on the kind
  Zones,         \* offsets from UTC of the zones in use
  MaxTime,       \* bound: the last instant
  MaxRows,       \* bound: evaluations inserted
  Requests,      \* what clients ask: kind, start, end and limit
  NoBound,       \* an absent startTime or endTime
  Unparsable,    \* a parameter that does not parse
  DefaultLimit   \* 100

Instants == 0 .. MaxTime
Times    == [at : Instants, zone : Zones]
Row      == [id : 1 .. MaxRows, kind : Kinds, at : Instants, zone : Zones]
Request  == [kind : Kinds \cup {AnyKind}, start : Times \cup {NoBound, Unparsable},
             end : Times \cup {NoBound, Unparsable}, limit : Int \cup {Unparsable}]

ASSUME AuditAssumption ==
  /\ Zones \subseteq -24 .. 24
  /\ MaxTime \in Nat /\ MaxRows \in Nat
  /\ DefaultLimit \in Nat \ {0}
  /\ Requests \subseteq Request
  /\ NoBound # Unparsable /\ {NoBound, Unparsable} \cap Times = {}
  /\ Unparsable \notin Int

VARIABLES
  rows,       \* the evaluations table
  nextId,     \* its AUTOINCREMENT
  zone,       \* the zone the process is in
  request,    \* what the client asks, page after page
  paging,     \* the client is "off", "on" its way, or "done"
  offset,     \* the offset of its next request
  delivered,  \* the rows it has got
  atStart,    \* history: the rows that matched when it started
  inserted,   \* history: matching rows inserted since
  deleted,    \* history: matching rows deleted since
  repeats     \* history: rows it got again

tableVars  == <<rows, nextId, zone>>
clientVars == <<request, paging, offset, delivered, atStart, inserted, deleted, repeats>>
vars       == <<tableVars, clientVars>>

----------------------------------------------------------------------------
(* The query.                                                              *)

\* A timestamp as text, as a number that orders the way the texts do: the wall
\* clock first, then the zone, where '+' sorts before '-'.
Text(time) ==
  (time.at + time.zone) * 64 + (IF time.zone >= 0 THEN time.zone ELSE 32 - time.zone)

\* handleAudit ignores a parameter that does not parse.
BoundOf(parameter) == IF parameter = Unparsable THEN NoBound ELSE parameter

\* Fault: the interval is open.
MatchesInside(row, req) ==
  /\ req.kind = AnyKind \/ row.kind = req.kind
  /\ BoundOf(req.start) = NoBound \/ Text(row) > Text(req.start)
  /\ BoundOf(req.end) = NoBound \/ Text(row) < Text(req.end)

\* The WHERE clause.
Matches(row, req) ==
  /\ req.kind = AnyKind \/ row.kind = req.kind
  /\ BoundOf(req.start) = NoBound \/ Text(row) >= Text(req.start)
  /\ BoundOf(req.end) = NoBound \/ Text(row) <= Text(req.end)

Matching(table, req) == {row \in table : Matches(row, req)}

\* Fault: ORDER BY timestamp.
OldestFirst(r, s) == Text(r) < Text(s) \/ (Text(r) = Text(s) /\ r.id <= s.id)

\* ORDER BY timestamp DESC: r is s or comes before it.  Equal texts are left in
\* the order of the index, by id.
NotAfter(r, s) == Text(r) > Text(s) \/ (Text(r) = Text(s) /\ r.id <= s.id)

Rank(row, table) == Cardinality({r \in table : NotAfter(r, row)})

\* LIMIT: no limit, one that does not parse and one below 1 are the default.
LimitOf(parameter) ==
  IF parameter # Unparsable /\ parameter > 0 THEN parameter ELSE DefaultLimit

\* Fault: pages are numbered from the limit on.
PageAfterNext(table, req, from) ==
  {row \in Matching(table, req) :
     LET rank == Rank(row, Matching(table, req))
     IN  from + 1 < rank /\ rank <= from + 1 + LimitOf(req.limit)}

\* Fault: no OFFSET.
FirstPage(table, req, from) ==
  {row \in Matching(table, req) : Rank(row, Matching(table, req)) <= LimitOf(req.limit)}

\* QueryAudit: the rows after the first `from` of those that match.
Page(table, req, from) ==
  {row \in Matching(table, req) :
     LET rank == Rank(row, Matching(table, req))
     IN  from < rank /\ rank <= from + LimitOf(req.limit)}

----------------------------------------------------------------------------

Init ==
  /\ rows = {} /\ nextId = 1 /\ zone \in Zones
  /\ request \in Requests
  /\ paging = "off" /\ offset = 0 /\ delivered = {}
  /\ atStart = {} /\ inserted = 0 /\ deleted = 0 /\ repeats = 0

\* Fault: rows are inserted with the id of the row before them.
InsertUnnumbered ==
  /\ nextId <= MaxRows
  /\ \E kind \in Kinds, at \in Instants :
       rows' = rows \cup {[id |-> nextId, kind |-> kind, at |-> at, zone |-> zone]}
  /\ \E next \in {nextId, nextId + 1} : nextId' = next
  /\ UNCHANGED <<zone, clientVars>>

\* StoreEvaluation.  Its timestamp is when the evaluation began: evaluations that
\* overtake each other insert out of order.
InsertEvaluation ==
  /\ nextId <= MaxRows
  /\ \E kind \in Kinds, at \in Instants :
       LET row == [id |-> nextId, kind |-> kind, at |-> at, zone |-> zone]
       IN  /\ rows' = rows \cup {row}
           /\ inserted' = IF paging = "on" /\ Matches(row, request)
                            THEN inserted + 1 ELSE inserted
  /\ nextId' = nextId + 1
  /\ UNCHANGED <<zone, request, paging, offset, delivered, atStart, deleted, repeats>>

\* The nightly DELETE of the runbook: by created_at, hence the oldest ids.
Cleanup ==
  /\ \E kept \in 2 .. nextId :
       LET gone == {row \in rows : row.id < kept}
       IN  /\ gone # {}
           /\ rows' = rows \ gone
           /\ deleted' = IF paging = "on"
                           THEN deleted + Cardinality(Matching(gone, request)) ELSE deleted
  /\ UNCHANGED <<nextId, zone, request, paging, offset, delivered, atStart, inserted, repeats>>

\* Daylight saving, or a restart in another zone.
ZoneChanges ==
  /\ zone' \in Zones \ {zone}
  /\ UNCHANGED <<rows, nextId, clientVars>>

PagingStarts ==
  /\ paging # "on"
  /\ paging' = "on"
  /\ request' \in Requests
  /\ offset' = 0 /\ delivered' = {}
  /\ atStart' = Matching(rows, request')
  /\ inserted' = 0 /\ deleted' = 0 /\ repeats' = 0
  /\ UNCHANGED tableVars

\* handleAudit for the next page.  All the client learns of the trail's length is
\* that a page was empty.
NextPage ==
  /\ paging = "on"
  /\ LET page == Page(rows, request, offset)
     IN  /\ delivered' = delivered \cup page
         /\ offset' = offset + Cardinality(page)
         /\ repeats' = repeats + Cardinality(page \cap delivered)
         /\ paging' = IF page = {} THEN "done" ELSE "on"
  /\ UNCHANGED <<tableVars, request, atStart, inserted, deleted>>

Next == InsertEvaluation \/ Cleanup \/ ZoneChanges \/ PagingStarts \/ NextPage

Spec == Init /\ [][Next]_vars

----------------------------------------------------------------------------

TypeOK ==
  /\ rows \subseteq Row /\ IsFiniteSet(rows)
  /\ nextId \in 1 .. MaxRows + 1 /\ zone \in Zones
  /\ \A row \in rows : row.id < nextId
  /\ \A r, s \in rows : r.id = s.id => r = s
  /\ request \in Requests
  /\ paging \in {"off", "on", "done"}
  /\ offset \in Nat /\ inserted \in Nat /\ deleted \in Nat /\ repeats \in Nat
  /\ delivered \subseteq Row /\ atStart \subseteq Row

\* Who reads the trail page by page misses at most as many rows as a cleanup took
\* away meanwhile: rows inserted between two pages, out of order or in another
\* zone, hide none of those that matched at the start (store.go:233-246).
NothingSkipped ==
  paging = "done" => Cardinality((atStart \cap rows) \ delivered) <= deleted

\* It gets a row again only where an insertion has pushed it onto a later page,
\* one row for each at most.
RepeatsAreInsertions == repeats <= inserted

InRange(row, req) ==
  /\ BoundOf(req.start) # NoBound => req.start.at <= row.at
  /\ BoundOf(req.end) # NoBound => row.at <= req.end.at

\* "Query by time range" (README.md:173): the texts select exactly the instants of
\* the range, its ends included, among the rows stamped in the zone the client
\* writes its bounds in.  In any other zone they do not.
RangeExactInOneZone ==
  \A row \in rows :
    (\A bound \in {request.start, request.end} \cap Times : bound.zone = row.zone) =>
      (Matches(row, request) <=>
         (request.kind = AnyKind \/ row.kind = request.kind) /\ InRange(row, request))

\* While nothing is inserted or deleted, the pages go back in time.
PagesGoBack ==
  [][inserted' = 0 /\ deleted' = 0 /\ offset' > offset =>
       \A r \in delivered' \ delivered, s \in delivered : r.zone = s.zone => r.at <= s.at]_vars

=============================================================================
