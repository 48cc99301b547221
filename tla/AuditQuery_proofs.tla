--------------------------- MODULE AuditQuery_proofs ---------------------------
(***************************************************************************)
(* Theorems about AuditQuery, for any requests, any limits, any zones and  *)
(* any number of rows: what a range of instants selects, and what a client *)
(* misses or gets twice when the table changes between its pages.          *)
(***************************************************************************)
EXTENDS AuditQuery, FiniteSetTheorems, FunctionTheorems, TLAPS

----------------------------------------------------------------------------
(* The order of the rows and their ranks in a table.                       *)

IsTable(M) ==
  /\ M \subseteq Row /\ IsFiniteSet(M)
  /\ \A r, s \in M : r.id = s.id => r = s

LEMMA RowTypes ==
  ASSUME NEW r \in Row
  PROVE  r.id \in Int /\ r.at \in Int /\ r.zone \in Int /\ r.zone \in Zones /\ Text(r) \in Int
<1>1. /\ r.id \in 1 .. MaxRows /\ r.at \in 0 .. MaxTime /\ r.zone \in Zones
  BY DEF Row, Instants
<1>2. r.zone \in -24 .. 24
  BY <1>1, AuditAssumption
<1>3. r.id \in Int /\ r.at \in Int /\ r.zone \in Int
  BY <1>1, <1>2, AuditAssumption
<1>4. Text(r) \in Int
  BY <1>3 DEF Text
<1>. QED BY <1>1, <1>3, <1>4

LEMMA OrderIsTotal ==
  ASSUME NEW M, IsTable(M), NEW r \in M, NEW s \in M
  PROVE  /\ NotAfter(r, r)
         /\ NotAfter(r, s) \/ NotAfter(s, r)
         /\ NotAfter(r, s) /\ NotAfter(s, r) => r = s
         /\ \A q \in M : NotAfter(q, r) /\ NotAfter(r, s) => NotAfter(q, s)
<1>1. \A q \in M : q.id \in Int /\ Text(q) \in Int
  BY RowTypes DEF IsTable
<1>. QED BY <1>1 DEF IsTable, NotAfter

\* The rows up to r.
UpTo(r, M) == {q \in M : NotAfter(q, r)}

LEMMA RankTypes ==
  ASSUME NEW M, IsTable(M), NEW r
  PROVE  /\ IsFiniteSet(UpTo(r, M)) /\ Rank(r, M) = Cardinality(UpTo(r, M))
         /\ Rank(r, M) \in Nat /\ Cardinality(M) \in Nat /\ Rank(r, M) <= Cardinality(M)
         /\ r \in M => Rank(r, M) \in 1 .. Cardinality(M)
<1>1. UpTo(r, M) \in SUBSET M /\ Rank(r, M) = Cardinality(UpTo(r, M))
  BY DEF UpTo, Rank
<1>2. IsFiniteSet(UpTo(r, M)) /\ Cardinality(UpTo(r, M)) <= Cardinality(M)
  BY <1>1, FS_Subset DEF IsTable
<1>3. Rank(r, M) \in Nat /\ Cardinality(M) \in Nat
  BY <1>1, <1>2, FS_CardinalityType DEF IsTable
<1>4. r \in M => Rank(r, M) # 0
  <2>1. r \in M => r \in UpTo(r, M)
    BY OrderIsTotal DEF UpTo
  <2>. QED BY <1>1, <1>2, <2>1, FS_EmptySet
<1>. QED BY <1>1, <1>2, <1>3, <1>4

\* Ranks grow strictly along the order.
LEMMA RankGrows ==
  ASSUME NEW M, IsTable(M), NEW r \in M, NEW s \in M, NotAfter(r, s), r # s
  PROVE  Rank(r, M) < Rank(s, M)
<1>1. UpTo(r, M) \in SUBSET UpTo(s, M)
  BY OrderIsTotal DEF UpTo
<1>2. s \in UpTo(s, M) /\ s \notin UpTo(r, M)
  BY OrderIsTotal DEF UpTo
<1>3. IsFiniteSet(UpTo(s, M))
  BY RankTypes
<1>4. /\ Cardinality(UpTo(r, M)) <= Cardinality(UpTo(s, M))
      /\ Cardinality(UpTo(s, M)) # Cardinality(UpTo(r, M))
  BY <1>1, <1>2, <1>3, FS_Subset
<1>. QED BY <1>4, RankTypes

LEMMA RankIsInjective ==
  ASSUME NEW M, IsTable(M), NEW r \in M, NEW s \in M, Rank(r, M) = Rank(s, M)
  PROVE  r = s
<1>1. CASE NotAfter(r, s)
  BY <1>1, RankGrows, RankTypes
<1>2. CASE NotAfter(s, r)
  BY <1>2, RankGrows, RankTypes
<1>. QED BY <1>1, <1>2, OrderIsTotal

\* Every rank up to the length of the table is somebody's.
LEMMA RanksHaveNoGaps ==
  ASSUME NEW M, IsTable(M), NEW n \in 1 .. Cardinality(M)
  PROVE  \E r \in M : Rank(r, M) = n
<1>. DEFINE f == [r \in M |-> Rank(r, M)]
            T == 1 .. Cardinality(M)
<1>1. IsFiniteSet(M) /\ Cardinality(M) \in Nat
  BY RankTypes DEF IsTable
<1>2. f \in [M -> T]
  BY RankTypes
<1>3. f \in Injection(M, T)
  BY <1>2, RankIsInjective DEF Injection, IsInjective
<1>4. IsFiniteSet(T) /\ Cardinality(T) = Cardinality(M)
  BY <1>1, FS_Interval
<1>5. f \in Surjection(M, T)
  BY <1>3, <1>4, FS_Injection
<1>. QED BY <1>5 DEF Surjection

LEMMA IntervalSize ==
  ASSUME NEW a \in Nat, NEW d \in Nat
  PROVE  IsFiniteSet(a + 1 .. a + d) /\ Cardinality(a + 1 .. a + d) = d
<1>1. Cardinality(a + 1 .. a + d) = IF a + 1 > a + d THEN 0 ELSE a + d - (a + 1) + 1
  BY FS_Interval
<1>. QED BY <1>1, FS_Interval

\* No more rows than ranks.
LEMMA RanksBound ==
  ASSUME NEW M, IsTable(M), NEW a \in Nat, NEW d \in Nat,
         NEW S \in SUBSET M, \A r \in S : Rank(r, M) \in a + 1 .. a + d
  PROVE  IsFiniteSet(S) /\ Cardinality(S) <= d
<1>. DEFINE f == [r \in S |-> Rank(r, M)]
            T == a + 1 .. a + d
<1>1. f \in Injection(S, T)
  BY RankIsInjective DEF Injection, IsInjective
<1>2. IsFiniteSet(T) /\ Cardinality(T) = d
  BY IntervalSize
<1>. QED BY <1>1, <1>2, FS_Injection

\* A new row moves the others by one at most, and up.
LEMMA RankAfterInsert ==
  ASSUME NEW M, NEW x, IsTable(M \cup {x}), NEW r
  PROVE  Rank(r, M) <= Rank(r, M \cup {x}) /\ Rank(r, M \cup {x}) <= Rank(r, M) + 1
<1>1. IsTable(M)
  <2>1. M \in SUBSET (M \cup {x})
    OBVIOUS
  <2>2. IsFiniteSet(M)
    BY <2>1, FS_Subset DEF IsTable
  <2>. QED BY <2>2 DEF IsTable
<1>2. UpTo(r, M) \in SUBSET UpTo(r, M \cup {x})
  BY DEF UpTo
<1>3. UpTo(r, M \cup {x}) \in SUBSET (UpTo(r, M) \cup {x})
  BY DEF UpTo
<1>4. /\ IsFiniteSet(UpTo(r, M)) /\ IsFiniteSet(UpTo(r, M \cup {x}))
      /\ Cardinality(UpTo(r, M)) \in Nat
  BY <1>1, RankTypes
<1>5. /\ IsFiniteSet(UpTo(r, M) \cup {x})
      /\ Cardinality(UpTo(r, M) \cup {x}) <= Cardinality(UpTo(r, M)) + 1
  <2>1. /\ IsFiniteSet(UpTo(r, M) \cup {x})
        /\ Cardinality(UpTo(r, M) \cup {x}) =
             IF x \in UpTo(r, M) THEN Cardinality(UpTo(r, M)) ELSE Cardinality(UpTo(r, M)) + 1
    BY <1>4, FS_AddElement
  <2>. QED BY <1>4, <2>1
<1>6. Cardinality(UpTo(r, M)) <= Cardinality(UpTo(r, M \cup {x}))
  BY <1>2, <1>4, FS_Subset
<1>7. Cardinality(UpTo(r, M \cup {x})) <= Cardinality(UpTo(r, M) \cup {x})
  BY <1>3, <1>5, FS_Subset
<1>8. Cardinality(UpTo(r, M) \cup {x}) \in Nat /\ Cardinality(UpTo(r, M \cup {x})) \in Nat
  BY <1>4, <1>5, FS_CardinalityType
<1>. QED BY <1>1, <1>4, <1>5, <1>6, <1>7, <1>8, RankTypes

\* Rows that go move the others by as many at most, and down.
LEMMA RankAfterDelete ==
  ASSUME NEW M, IsTable(M), NEW X \in SUBSET M, NEW r
  PROVE  /\ IsTable(M \ X) /\ IsFiniteSet(X) /\ Cardinality(X) \in Nat
         /\ Rank(r, M \ X) <= Rank(r, M)
         /\ Rank(r, M) <= Rank(r, M \ X) + Cardinality(X)
<1>1. IsTable(M \ X) /\ IsFiniteSet(X) /\ Cardinality(X) \in Nat
  BY FS_Subset, FS_CardinalityType DEF IsTable
<1>2. UpTo(r, M \ X) \in SUBSET UpTo(r, M)
  BY DEF UpTo
<1>3. UpTo(r, M) \in SUBSET (UpTo(r, M \ X) \cup X)
  BY DEF UpTo
<1>4. IsFiniteSet(UpTo(r, M)) /\ IsFiniteSet(UpTo(r, M \ X))
  BY <1>1, RankTypes
<1>5. Cardinality(UpTo(r, M \ X)) <= Cardinality(UpTo(r, M))
  BY <1>2, <1>4, FS_Subset
<1>6. /\ IsFiniteSet(UpTo(r, M \ X) \cup X)
      /\ Cardinality(UpTo(r, M)) <= Cardinality(UpTo(r, M \ X) \cup X)
  BY <1>1, <1>3, <1>4, FS_Union, FS_Subset
<1>7. Cardinality(UpTo(r, M \ X) \cup X) <= Cardinality(UpTo(r, M \ X)) + Cardinality(X)
  <2>1. /\ Cardinality(UpTo(r, M \ X) \cup X) =
             Cardinality(UpTo(r, M \ X)) + Cardinality(X) - Cardinality(UpTo(r, M \ X) \cap X)
        /\ IsFiniteSet(UpTo(r, M \ X) \cap X)
    BY <1>1, <1>4, FS_Union, FS_Intersection
  <2>2. /\ Cardinality(UpTo(r, M \ X) \cap X) \in Nat /\ Cardinality(UpTo(r, M \ X)) \in Nat
        /\ Cardinality(X) \in Nat
    BY <1>1, <1>4, <2>1, FS_CardinalityType
  <2>. QED BY <2>1, <2>2
<1>8. /\ Cardinality(UpTo(r, M)) \in Nat /\ Cardinality(UpTo(r, M \ X)) \in Nat
      /\ Cardinality(UpTo(r, M \ X) \cup X) \in Nat
  BY <1>4, <1>6, FS_CardinalityType
<1>. QED BY <1>1, <1>5, <1>6, <1>7, <1>8, RankTypes

\* Among the rows of one zone the texts order the instants.
LEMMA TextsOrderInstants ==
  ASSUME NEW a \in Int, NEW b \in Int, NEW z \in Int, z \in -24 .. 24,
         NEW s, s.at = a, s.zone = z, NEW t, t.at = b, t.zone = z
  PROVE  Text(s) <= Text(t) <=> a <= b
BY DEF Text

----------------------------------------------------------------------------
(* Pages.                                                                  *)

LEMMA LimitIsPositive ==
  ASSUME NEW req \in Requests
  PROVE  LimitOf(req.limit) \in Nat \ {0}
BY AuditAssumption DEF LimitOf, Request

LEMMA MatchingIsTable ==
  ASSUME NEW table, IsTable(table), NEW req
  PROVE  IsTable(Matching(table, req)) /\ Matching(table, req) \in SUBSET table
<1>1. Matching(table, req) \in SUBSET table
  BY DEF Matching
<1>2. IsFiniteSet(Matching(table, req))
  BY <1>1, FS_Subset DEF IsTable
<1>. QED BY <1>1, <1>2 DEF IsTable

\* A page has the rows whose ranks follow the offset, without a gap, and is empty
\* only behind the last row.
LEMMA PageIsDense ==
  ASSUME NEW table, IsTable(table), NEW req \in Requests, NEW from \in Nat
  PROVE  LET M    == Matching(table, req)
             page == Page(table, req, from)
         IN  /\ page \subseteq M /\ IsFiniteSet(page) /\ Cardinality(page) \in Nat
             /\ \A r \in M : r \in page <=>
                               from < Rank(r, M) /\ Rank(r, M) <= from + Cardinality(page)
             /\ page = {} => \A r \in M : Rank(r, M) <= from
<1>. DEFINE M    == Matching(table, req)
            page == Page(table, req, from)
            L    == LimitOf(req.limit)
<1>1. IsTable(M)
  BY MatchingIsTable
<1>2. L \in Nat \ {0}
  BY LimitIsPositive
<1>3. \A r \in M : Rank(r, M) \in 1 .. Cardinality(M) /\ Rank(r, M) \in Nat
  BY <1>1, RankTypes
<1>4. page = {r \in M : from < Rank(r, M) /\ Rank(r, M) <= from + L}
  BY DEF Page
<1>5. IsFiniteSet(page) /\ Cardinality(page) <= L
  <2>1. page \in SUBSET M /\ \A r \in page : Rank(r, M) \in from + 1 .. from + L
    BY <1>2, <1>3, <1>4
  <2>. QED BY <1>1, <1>2, <2>1, RanksBound
<1>6. Cardinality(page) \in Nat
  BY <1>5, FS_CardinalityType
<1>7. ASSUME NEW r \in page
      PROVE  Rank(r, M) <= from + Cardinality(page)
  <2>. DEFINE k == Rank(r, M) - from
              T == from + 1 .. from + k
              Q == {q \in M : from < Rank(q, M) /\ Rank(q, M) <= Rank(r, M)}
              g == [q \in Q |-> Rank(q, M)]
  <2>1. k \in Nat /\ r \in M
    BY <1>3, <1>4
  <2>2. Q \in SUBSET page
    BY <1>2, <1>3, <1>4
  <2>3. IsFiniteSet(Q) /\ Cardinality(Q) <= Cardinality(page)
    BY <1>5, <2>2, FS_Subset
  <2>4. g \in Surjection(Q, T)
    <3>1. g \in [Q -> T]
      BY <1>3, <2>1
    <3>2. ASSUME NEW i \in T PROVE \E q \in Q : g[q] = i
      <4>1. i \in 1 .. Cardinality(M)
        BY <1>1, <1>3, <2>1, RankTypes
      <4>2. PICK q \in M : Rank(q, M) = i
        BY <1>1, <4>1, RanksHaveNoGaps
      <4>3. q \in Q /\ g[q] = i
        BY <1>3, <2>1, <4>2
      <4>. QED BY <4>3
    <3>. HIDE DEF T, Q, g
    <3>. QED BY <3>1, <3>2 DEF Surjection
  <2>5. IsFiniteSet(T) /\ Cardinality(T) = k
    BY <2>1, IntervalSize
  <2>6. Cardinality(T) <= Cardinality(Q)
    BY <2>3, <2>4, FS_Surjection
  <2>7. Cardinality(Q) \in Nat
    BY <2>3, FS_CardinalityType
  <2>. HIDE DEF T, Q, g
  <2>. QED BY <1>3, <1>6, <2>1, <2>3, <2>5, <2>6, <2>7
<1>8. page = {} => \A r \in M : Rank(r, M) <= from
  <2>. SUFFICES ASSUME page = {}, NEW r \in M, Rank(r, M) > from
                PROVE  FALSE
    BY <1>3
  <2>1. from + 1 \in 1 .. Cardinality(M)
    BY <1>1, <1>3, RankTypes
  <2>2. PICK q \in M : Rank(q, M) = from + 1
    BY <1>1, <2>1, RanksHaveNoGaps
  <2>3. q \in page
    BY <1>2, <1>4, <2>2
  <2>. QED BY <2>3
<1>9. \A r \in M : r \in page <=>
        from < Rank(r, M) /\ Rank(r, M) <= from + Cardinality(page)
  <2>. HIDE DEF M, page, L
  <2>. QED BY <1>2, <1>3, <1>4, <1>5, <1>6, <1>7
<1>. QED BY <1>4, <1>5, <1>6, <1>8, <1>9

----------------------------------------------------------------------------
(* The invariant.                                                          *)

\* The rows that matched at the start, are still there and lie before the offset.
Passed == {r \in atStart \cap rows : Rank(r, Matching(rows, request)) <= offset}

\* The rows delivered that lie behind the offset and will be delivered again.
Pushed == {r \in delivered \cap rows : Rank(r, Matching(rows, request)) > offset}

TableInv ==
  /\ IsTable(rows)
  /\ nextId \in 1 .. MaxRows + 1 /\ zone \in Zones
  /\ \A r \in rows : r.id < nextId

ClientInv ==
  /\ request \in Requests /\ paging \in {"off", "on", "done"}
  /\ offset \in Nat /\ inserted \in Nat /\ deleted \in Nat /\ repeats \in Nat
  /\ \A r \in atStart \cup delivered : r \in Row /\ r.id < nextId /\ Matches(r, request)

\* Of the rows passed only as many are missing as were deleted.
SkipInv ==
  /\ paging = "on" => Cardinality(Passed \ delivered) <= deleted
  /\ paging = "done" => Cardinality((atStart \cap rows) \ delivered) <= deleted
  /\ paging = "off" => atStart = {}

\* An insertion pays for each row that was or will be delivered again.
RepeatInv ==
  /\ paging = "on" => Cardinality(Pushed) + repeats <= inserted
  /\ repeats <= inserted

\* What was delivered disappears only with a cleanup.
KeptInv == paging = "on" /\ deleted = 0 => delivered \subseteq rows

AuditInv == TableInv /\ ClientInv /\ SkipInv /\ RepeatInv /\ KeptInv

LEMMA AuditInvTypes ==
  ASSUME TableInv, ClientInv
  PROVE  /\ IsTable(Matching(rows, request)) /\ Matching(rows, request) \in SUBSET rows
         /\ atStart \cap rows \subseteq Matching(rows, request)
         /\ delivered \cap rows \subseteq Matching(rows, request)
         /\ \A S \in SUBSET rows : IsFiniteSet(S) /\ Cardinality(S) \in Nat
<1>1. IsTable(Matching(rows, request)) /\ Matching(rows, request) \in SUBSET rows
  BY MatchingIsTable DEF TableInv
<1>2. \A S \in SUBSET rows : IsFiniteSet(S) /\ Cardinality(S) \in Nat
  BY FS_Subset, FS_CardinalityType DEF TableInv, IsTable
<1>. QED BY <1>1, <1>2 DEF ClientInv, Matching

LEMMA AuditInit == Init => AuditInv
<1>. SUFFICES ASSUME Init PROVE AuditInv
  OBVIOUS
<1>1. IsFiniteSet({}) /\ Cardinality({}) = 0
  BY FS_EmptySet
<1>2. TableInv /\ ClientInv
  BY <1>1, AuditAssumption DEF Init, TableInv, ClientInv, IsTable
<1>. QED BY <1>2 DEF Init, AuditInv, SkipInv, RepeatInv, KeptInv

\* Neither the process nor its zone disturbs a client between two pages.
LEMMA ZoneChangesKeeps == AuditInv /\ ZoneChanges => AuditInv'
<1>. SUFFICES ASSUME AuditInv, ZoneChanges PROVE AuditInv'
  OBVIOUS
<1>1. UNCHANGED <<rows, nextId, request, paging, offset, delivered, atStart, inserted, deleted, repeats>>
  BY DEF ZoneChanges, clientVars
<1>2. Passed' = Passed /\ Pushed' = Pushed
  BY <1>1 DEF Passed, Pushed
<1>3. TableInv'
  BY <1>1 DEF ZoneChanges, AuditInv, TableInv
<1>. QED BY <1>1, <1>2, <1>3 DEF AuditInv, ClientInv, SkipInv, RepeatInv, KeptInv

LEMMA StutterKeeps == AuditInv /\ UNCHANGED vars => AuditInv'
<1>. SUFFICES ASSUME AuditInv, UNCHANGED vars PROVE AuditInv'
  OBVIOUS
<1>1. /\ UNCHANGED <<rows, nextId, zone>>
      /\ UNCHANGED <<request, paging, offset, delivered, atStart, inserted, deleted, repeats>>
  BY DEF vars, tableVars, clientVars
<1>2. Passed' = Passed /\ Pushed' = Pushed
  BY <1>1 DEF Passed, Pushed
<1>. QED BY <1>1, <1>2 DEF AuditInv, TableInv, ClientInv, SkipInv, RepeatInv, KeptInv

LEMMA PagingStartsKeeps == AuditInv /\ PagingStarts => AuditInv'
<1>. SUFFICES ASSUME AuditInv, PagingStarts PROVE AuditInv'
  OBVIOUS
<1>1. UNCHANGED <<rows, nextId, zone>>
  BY DEF PagingStarts, tableVars
<1>2. TableInv'
  BY <1>1 DEF AuditInv, TableInv
<1>3. ClientInv'
  BY <1>1 DEF PagingStarts, AuditInv, TableInv, ClientInv, Matching, IsTable
<1>4. \A r \in rows : Rank(r, Matching(rows, request)') \in Nat
  <2>1. IsTable(Matching(rows, request)')
    BY <1>2, <1>3, MatchingIsTable, <1>1 DEF TableInv
  <2>. QED BY <2>1, RankTypes
<1>5. Passed' = {}
  <2>1. IsTable(Matching(rows, request)') /\ atStart' = Matching(rows, request)'
    BY <1>1, <1>2, MatchingIsTable DEF TableInv, PagingStarts
  <2>2. \A r \in atStart' : Rank(r, Matching(rows, request)') \in 1 .. Cardinality(atStart')
    BY <2>1, RankTypes
  <2>. QED BY <1>1, <2>1, <2>2 DEF PagingStarts, Passed
<1>6. Pushed' = {}
  BY DEF PagingStarts, Pushed
<1>7. Cardinality({}) = 0
  BY FS_EmptySet
<1>8. SkipInv' /\ RepeatInv' /\ KeptInv'
  BY <1>5, <1>6, <1>7 DEF PagingStarts, SkipInv, RepeatInv, KeptInv
<1>. QED BY <1>2, <1>3, <1>8 DEF AuditInv

LEMMA InsertKeeps == AuditInv /\ InsertEvaluation => AuditInv'
<1>. SUFFICES ASSUME AuditInv, InsertEvaluation PROVE AuditInv'
  OBVIOUS
<1>. DEFINE M == Matching(rows, request)
<1>1. PICK kind \in Kinds, at \in Instants :
        LET row == [id |-> nextId, kind |-> kind, at |-> at, zone |-> zone]
        IN  /\ rows' = rows \cup {row}
            /\ inserted' = IF paging = "on" /\ Matches(row, request)
                             THEN inserted + 1 ELSE inserted
  BY DEF InsertEvaluation
<1>. DEFINE x == [id |-> nextId, kind |-> kind, at |-> at, zone |-> zone]
<1>2. /\ rows' = rows \cup {x} /\ nextId' = nextId + 1 /\ nextId <= MaxRows
      /\ inserted' = IF paging = "on" /\ Matches(x, request) THEN inserted + 1 ELSE inserted
      /\ UNCHANGED <<zone, request, paging, offset, delivered, atStart, deleted, repeats>>
  BY <1>1 DEF InsertEvaluation
<1>3. nextId \in 1 .. MaxRows /\ MaxRows \in Nat
  BY <1>2, AuditAssumption DEF AuditInv, TableInv
<1>4. x \in Row /\ x.id = nextId
  BY <1>3 DEF AuditInv, TableInv, Row
<1>. HIDE DEF x
<1>5. TableInv'
  <2>1. IsFiniteSet(rows \cup {x})
    BY FS_AddElement DEF AuditInv, TableInv, IsTable
  <2>2. \A r \in rows : r.id \in Int /\ r.id < nextId
    BY RowTypes DEF AuditInv, TableInv, IsTable
  <2>3. IsTable(rows')
    BY <1>2, <1>3, <1>4, <2>1, <2>2 DEF AuditInv, TableInv, IsTable
  <2>4. \A r \in rows' : r.id < nextId'
    BY <1>2, <1>3, <1>4, <2>2
  <2>. QED BY <1>2, <1>3, <2>3, <2>4 DEF AuditInv, TableInv
<1>6. ClientInv'
  <2>1. \A r \in atStart \cup delivered : r.id \in Int /\ r.id < nextId
    BY RowTypes DEF AuditInv, ClientInv
  <2>. QED BY <1>2, <1>3, <2>1 DEF AuditInv, ClientInv
<1>7. x \notin atStart /\ x \notin delivered /\ x \notin rows
  BY <1>3, <1>4 DEF AuditInv, ClientInv, TableInv
<1>8. M' = IF Matches(x, request) THEN M \cup {x} ELSE M
  BY <1>2 DEF Matching
<1>9. IsTable(M') /\ IsTable(M)
  BY <1>5, MatchingIsTable DEF AuditInv, TableInv
<1>10. ASSUME NEW r \in M
       PROVE  /\ Rank(r, M) \in Nat /\ Rank(r, M') \in Nat
              /\ Rank(r, M) <= Rank(r, M') /\ Rank(r, M') <= Rank(r, M) + 1
              /\ ~ Matches(x, request) => Rank(r, M') = Rank(r, M)
  <2>1. Rank(r, M) \in Nat /\ Rank(r, M') \in Nat
    BY <1>9, RankTypes
  <2>2. CASE Matches(x, request)
    BY <1>8, <1>9, <2>1, <2>2, RankAfterInsert
  <2>3. CASE ~ Matches(x, request)
    BY <1>8, <2>1, <2>3
  <2>. QED BY <2>1, <2>2, <2>3
<1>11. /\ atStart \cap rows' = atStart \cap rows /\ delivered \cap rows' = delivered \cap rows
       /\ atStart \cap rows \in SUBSET M /\ delivered \cap rows \in SUBSET M
  BY <1>2, <1>7, AuditInvTypes DEF AuditInv
<1>. DEFINE P  == Passed \ delivered
            Q  == Pushed
<1>12. P' \in SUBSET P
  <2>1. ASSUME NEW r \in Passed'
        PROVE  r \in Passed
    <3>1. r \in atStart \cap rows /\ r \in M /\ Rank(r, M') <= offset
      BY <1>2, <1>11 DEF Passed
    <3>2. Rank(r, M) <= offset
      BY <1>10, <3>1 DEF AuditInv, ClientInv
    <3>. QED BY <3>1, <3>2 DEF Passed
  <2>. QED BY <1>2, <2>1
<1>13. /\ IsFiniteSet(P) /\ Cardinality(P) \in Nat
       /\ IsFiniteSet(P') /\ Cardinality(P') \in Nat
       /\ IsFiniteSet(Q) /\ Cardinality(Q) \in Nat
       /\ IsFiniteSet(Q') /\ Cardinality(Q') \in Nat
  <2>1. P \in SUBSET rows /\ Q \in SUBSET rows /\ P' \in SUBSET rows' /\ Q' \in SUBSET rows'
    BY DEF Passed, Pushed
  <2>2. \A S \in SUBSET rows : IsFiniteSet(S) /\ Cardinality(S) \in Nat
    BY AuditInvTypes DEF AuditInv
  <2>3. \A S \in SUBSET rows' : IsFiniteSet(S) /\ Cardinality(S) \in Nat
    BY <1>5, FS_Subset, FS_CardinalityType DEF TableInv, IsTable
  <2>. QED BY <2>1, <2>2, <2>3
<1>14. Cardinality(P') <= Cardinality(P)
  BY <1>12, <1>13, FS_Subset
<1>15. SkipInv'
  <2>1. paging = "on" => Cardinality(P) <= deleted
    BY DEF AuditInv, SkipInv
  <2>2. (atStart \cap rows') \ delivered = (atStart \cap rows) \ delivered
    BY <1>11
  <2>3. paging = "done" => Cardinality((atStart \cap rows') \ delivered) <= deleted
    BY <2>2 DEF AuditInv, SkipInv
  <2>4. paging = "off" => atStart = {}
    BY DEF AuditInv, SkipInv
  <2>5. Cardinality(P') <= Cardinality(P) /\ deleted \in Nat
    BY <1>14 DEF AuditInv, ClientInv
  <2>6. paging = "on" => Cardinality(P') <= deleted
    <3>. HIDE DEF P
    <3>. QED BY <1>13, <2>1, <2>5
  <2>. QED BY <1>2, <2>3, <2>4, <2>6 DEF SkipInv
<1>16. /\ Cardinality(Q') <= Cardinality(Q) + 1
       /\ ~ Matches(x, request) => Q' = Q
  <2>. DEFINE E == {r \in delivered \cap rows : Rank(r, M) = offset}
  <2>1. ASSUME NEW r \in Q'
        PROVE  r \in Q \cup E
    <3>1. r \in delivered \cap rows /\ r \in M /\ Rank(r, M') > offset
      BY <1>2, <1>11 DEF Pushed
    <3>2. Rank(r, M) > offset \/ Rank(r, M) = offset
      BY <1>10, <3>1 DEF AuditInv, ClientInv
    <3>. QED BY <3>1, <3>2 DEF Pushed
  <2>2. E \in SUBSET M /\ IsFiniteSet(E) /\ Cardinality(E) \in Nat
    BY <1>11, AuditInvTypes DEF AuditInv
  <2>3. Cardinality(E) <= 1
    <3>1. CASE E = {}
      BY <3>1, FS_EmptySet
    <3>2. CASE \E r \in E : TRUE
      <4>1. PICK r \in E : TRUE
        BY <3>2
      <4>2. E \in SUBSET {r}
        BY <1>9, <2>2, RankIsInjective
      <4>3. IsFiniteSet({r}) /\ Cardinality({r}) = 1
        BY FS_Singleton
      <4>. QED BY <2>2, <4>2, <4>3, FS_Subset
    <3>. QED BY <3>1, <3>2
  <2>4. /\ IsFiniteSet(Q \cup E) /\ Cardinality(Q \cup E) \in Nat
        /\ Cardinality(Q \cup E) <= Cardinality(Q) + Cardinality(E)
    <3>1. /\ IsFiniteSet(Q \cup E) /\ IsFiniteSet(Q \cap E)
          /\ Cardinality(Q \cup E) = Cardinality(Q) + Cardinality(E) - Cardinality(Q \cap E)
      BY <1>13, <2>2, FS_Union, FS_Intersection
    <3>2. Cardinality(Q \cap E) \in Nat /\ Cardinality(Q \cup E) \in Nat
      BY <3>1, FS_CardinalityType
    <3>. HIDE DEF Q, E
    <3>. QED BY <1>13, <2>2, <3>1, <3>2
  <2>5. Cardinality(Q') <= Cardinality(Q \cup E)
    BY <2>1, <2>4, FS_Subset
  <2>6. ~ Matches(x, request) => Q' = Q
    BY <1>2, <1>10, <1>11 DEF Pushed
  <2>. HIDE DEF Q, E
  <2>. QED BY <1>13, <2>2, <2>3, <2>4, <2>5, <2>6
<1>17. RepeatInv'
  <2>. HIDE DEF Q
  <2>1. CASE Matches(x, request) /\ paging = "on"
    <3>1. Cardinality(Q) + repeats <= inserted /\ inserted' = inserted + 1
      BY <1>2, <2>1 DEF AuditInv, RepeatInv, Q
    <3>2. Cardinality(Q') + repeats' <= inserted' /\ repeats' <= inserted'
      BY <1>2, <1>13, <1>16, <3>1 DEF AuditInv, ClientInv
    <3>. QED BY <3>2 DEF RepeatInv, Q
  <2>2. CASE paging # "on"
    BY <1>2, <2>2 DEF AuditInv, RepeatInv
  <2>3. CASE ~ Matches(x, request)
    BY <1>2, <1>16, <2>3 DEF AuditInv, RepeatInv, Q
  <2>. QED BY <2>1, <2>2, <2>3
<1>18. KeptInv'
  BY <1>2 DEF AuditInv, KeptInv
<1>. QED BY <1>5, <1>6, <1>15, <1>17, <1>18 DEF AuditInv

LEMMA CleanupKeeps == AuditInv /\ Cleanup => AuditInv'
<1>. SUFFICES ASSUME AuditInv, Cleanup PROVE AuditInv'
  OBVIOUS
<1>. DEFINE M == Matching(rows, request)
<1>1. PICK kept \in 2 .. nextId :
        LET gone == {row \in rows : row.id < kept}
        IN  /\ gone # {}
            /\ rows' = rows \ gone
            /\ deleted' = IF paging = "on"
                            THEN deleted + Cardinality(Matching(gone, request)) ELSE deleted
  BY DEF Cleanup
<1>. DEFINE gone == {row \in rows : row.id < kept}
            X    == Matching(gone, request)
<1>2. /\ rows' = rows \ gone /\ gone \in SUBSET rows
      /\ deleted' = IF paging = "on" THEN deleted + Cardinality(X) ELSE deleted
      /\ UNCHANGED <<nextId, zone, request, paging, offset, delivered, atStart, inserted, repeats>>
  BY <1>1 DEF Cleanup
<1>. HIDE DEF gone
<1>3. TableInv'
  BY <1>2, RankAfterDelete DEF AuditInv, TableInv
<1>4. ClientInv' /\ Cardinality(X) \in Nat /\ deleted' >= deleted
  <2>1. X \in SUBSET rows
    BY <1>2 DEF Matching
  <2>2. Cardinality(X) \in Nat
    BY <2>1, AuditInvTypes DEF AuditInv
  <2>. HIDE DEF X
  <2>3. deleted' \in Nat /\ deleted' >= deleted
    BY <1>2, <2>2 DEF AuditInv, ClientInv
  <2>. QED BY <1>2, <2>2, <2>3 DEF AuditInv, ClientInv
<1>5. M' = M \ X /\ X \in SUBSET M /\ IsTable(M)
  <2>1. M' = M \ X /\ X \in SUBSET M
    BY <1>2 DEF Matching
  <2>. QED BY <2>1, AuditInvTypes DEF AuditInv
<1>6. ASSUME NEW r
      PROVE  /\ Rank(r, M) \in Nat /\ Rank(r, M') \in Nat
             /\ Rank(r, M') <= Rank(r, M) /\ Rank(r, M) <= Rank(r, M') + Cardinality(X)
  BY <1>5, RankAfterDelete, RankTypes
<1>7. /\ atStart \cap rows' \in SUBSET (atStart \cap rows) /\ atStart \cap rows \in SUBSET M
      /\ delivered \cap rows' \in SUBSET (delivered \cap rows) /\ delivered \cap rows \in SUBSET M
      /\ \A S \in SUBSET rows : IsFiniteSet(S) /\ Cardinality(S) \in Nat
  BY <1>2, AuditInvTypes DEF AuditInv
<1>. HIDE DEF X
<1>. DEFINE P == Passed \ delivered
            Q == Pushed
            U == {r \in M : Rank(r, M) \in offset + 1 .. offset + Cardinality(X)}
<1>8. Cardinality(P') <= Cardinality(P) + Cardinality(X) /\ Cardinality(P') \in Nat
  <2>1. ASSUME NEW r \in P'
        PROVE  r \in P \cup U
    <3>1. r \in atStart \cap rows /\ r \notin delivered /\ r \in M /\ Rank(r, M') <= offset
      BY <1>2, <1>7 DEF Passed
    <3>2. Rank(r, M) \in offset + 1 .. offset + Cardinality(X) \/ Rank(r, M) <= offset
      BY <1>4, <1>6, <3>1 DEF AuditInv, ClientInv
    <3>. QED BY <3>1, <3>2 DEF Passed
  <2>2. IsFiniteSet(U) /\ Cardinality(U) <= Cardinality(X)
    <3>1. U \in SUBSET M /\ \A r \in U : Rank(r, M) \in offset + 1 .. offset + Cardinality(X)
      OBVIOUS
    <3>2. offset \in Nat
      BY DEF AuditInv, ClientInv
    <3>. HIDE DEF U, M
    <3>. QED BY <1>4, <1>5, <3>1, <3>2, RanksBound
  <2>3. IsFiniteSet(P) /\ Cardinality(P) \in Nat
    <3>1. P \in SUBSET rows
      BY DEF Passed
    <3>. QED BY <1>7, <3>1
  <2>4. /\ IsFiniteSet(P \cup U) /\ Cardinality(P \cup U) \in Nat
        /\ Cardinality(P \cup U) <= Cardinality(P) + Cardinality(U) /\ Cardinality(U) \in Nat
    <3>1. /\ IsFiniteSet(P \cup U) /\ IsFiniteSet(P \cap U)
          /\ Cardinality(P \cup U) = Cardinality(P) + Cardinality(U) - Cardinality(P \cap U)
      BY <2>2, <2>3, FS_Union, FS_Intersection
    <3>2. Cardinality(P \cap U) \in Nat /\ Cardinality(P \cup U) \in Nat /\ Cardinality(U) \in Nat
      BY <2>2, <3>1, FS_CardinalityType
    <3>. HIDE DEF P, U
    <3>. QED BY <2>3, <3>1, <3>2
  <2>5. /\ IsFiniteSet(P') /\ Cardinality(P') <= Cardinality(P \cup U)
    <3>1. P' \in SUBSET (P \cup U)
      BY <2>1
    <3>. HIDE DEF P, U
    <3>. QED BY <2>4, <3>1, FS_Subset
  <2>6. Cardinality(P') \in Nat
    BY <2>5, FS_CardinalityType
  <2>. HIDE DEF P, U
  <2>. QED BY <1>4, <2>2, <2>3, <2>4, <2>5, <2>6
<1>9. Cardinality(Q') <= Cardinality(Q) /\ Cardinality(Q') \in Nat /\ Cardinality(Q) \in Nat
  <2>1. Q' \in SUBSET Q
    <3>1. ASSUME NEW r \in Q'
          PROVE  r \in Q
      <4>1. r \in delivered \cap rows /\ r \in M /\ Rank(r, M') > offset
        BY <1>2, <1>7 DEF Pushed
      <4>2. Rank(r, M) > offset
        BY <1>6, <4>1 DEF AuditInv, ClientInv
      <4>. QED BY <4>1, <4>2 DEF Pushed
    <3>. QED BY <3>1
  <2>2. Q \in SUBSET rows
    BY DEF Pushed
  <2>3. IsFiniteSet(Q) /\ Cardinality(Q) \in Nat
    BY <1>7, <2>2
  <2>. QED BY <2>1, <2>3, FS_Subset, FS_CardinalityType
<1>10. SkipInv'
  <2>1. paging = "on" => Cardinality(P') <= deleted'
    <3>1. /\ paging = "on" => Cardinality(P) <= deleted /\ deleted' = deleted + Cardinality(X)
          /\ deleted \in Nat
      BY <1>2 DEF AuditInv, SkipInv, ClientInv
    <3>2. Cardinality(P) \in Nat
      <4>1. P \in SUBSET rows
        BY DEF Passed
      <4>. QED BY <1>7, <4>1
    <3>. HIDE DEF P
    <3>. QED BY <1>4, <1>8, <3>1, <3>2
  <2>2. paging = "done" => Cardinality((atStart \cap rows') \ delivered) <= deleted'
    <3>. DEFINE A == (atStart \cap rows) \ delivered
                B == (atStart \cap rows') \ delivered
    <3>1. B \in SUBSET A /\ A \in SUBSET rows
      BY <1>7
    <3>2. IsFiniteSet(A) /\ Cardinality(A) \in Nat /\ IsFiniteSet(B) /\ Cardinality(B) \in Nat
      BY <1>7, <3>1, FS_Subset, FS_CardinalityType
    <3>3. Cardinality(B) <= Cardinality(A)
      BY <3>1, <3>2, FS_Subset
    <3>4. paging = "done" => Cardinality(A) <= deleted /\ deleted' = deleted
      BY <1>2 DEF AuditInv, SkipInv
    <3>5. deleted \in Nat
      BY DEF AuditInv, ClientInv
    <3>. HIDE DEF A
    <3>. QED BY <3>2, <3>3, <3>4, <3>5
  <2>. QED BY <1>2, <2>1, <2>2 DEF AuditInv, SkipInv
<1>11. RepeatInv'
  <2>1. /\ paging = "on" => Cardinality(Q) + repeats <= inserted
        /\ repeats <= inserted /\ repeats \in Nat /\ inserted \in Nat
    BY DEF AuditInv, RepeatInv, ClientInv
  <2>2. paging = "on" => Cardinality(Q') + repeats <= inserted
    <3>. HIDE DEF Q
    <3>. QED BY <1>9, <2>1
  <2>. QED BY <1>2, <2>1, <2>2 DEF RepeatInv
<1>12. KeptInv'
  <2>. SUFFICES ASSUME paging' = "on", deleted' = 0 PROVE delivered' \subseteq rows'
    BY DEF KeptInv
  <2>1. deleted = 0 /\ Cardinality(X) = 0
    BY <1>2, <1>4 DEF AuditInv, ClientInv
  <2>2. delivered \subseteq M
    BY <1>2, <1>7, <2>1 DEF AuditInv, KeptInv
  <2>3. X = {}
    BY <1>5, <1>7, <2>1, FS_EmptySet, AuditInvTypes DEF AuditInv
  <2>4. delivered \subseteq M'
    BY <1>5, <2>2, <2>3
  <2>. QED BY <1>2, <2>4 DEF Matching
<1>. QED BY <1>3, <1>4, <1>10, <1>11, <1>12 DEF AuditInv

LEMMA NextPageKeeps == AuditInv /\ NextPage => AuditInv'
<1>. SUFFICES ASSUME AuditInv, NextPage PROVE AuditInv'
  OBVIOUS
<1>. DEFINE M    == Matching(rows, request)
            page == Page(rows, request, offset)
            n    == Cardinality(page)
<1>1. /\ delivered' = delivered \cup page /\ offset' = offset + n
      /\ repeats' = repeats + Cardinality(page \cap delivered)
      /\ paging = "on" /\ paging' = IF page = {} THEN "done" ELSE "on"
      /\ UNCHANGED <<rows, nextId, zone, request, atStart, inserted, deleted>>
  BY DEF NextPage, tableVars
<1>2. /\ page \subseteq M /\ IsFiniteSet(page) /\ n \in Nat
      /\ \A r \in M : r \in page <=> offset < Rank(r, M) /\ Rank(r, M) <= offset + n
      /\ page = {} => \A r \in M : Rank(r, M) <= offset
  BY PageIsDense DEF AuditInv, TableInv, ClientInv
<1>. HIDE DEF page
<1>3. /\ atStart \cap rows \in SUBSET M /\ delivered \cap rows \in SUBSET M
      /\ \A S \in SUBSET rows : IsFiniteSet(S) /\ Cardinality(S) \in Nat
      /\ IsTable(M) /\ M \in SUBSET rows
  BY AuditInvTypes DEF AuditInv
<1>4. M' = M /\ \A r \in M : Rank(r, M) \in Nat
  BY <1>1, <1>3, RankTypes
<1>5. TableInv'
  BY <1>1 DEF AuditInv, TableInv
<1>6. ClientInv'
  <2>1. Cardinality(page \cap delivered) \in Nat
    BY <1>2, FS_Intersection, FS_CardinalityType
  <2>2. offset' \in Nat /\ repeats' \in Nat
    BY <1>1, <1>2, <2>1 DEF AuditInv, ClientInv
  <2>3. \A r \in page : r \in Row /\ r.id < nextId /\ Matches(r, request)
    BY <1>2 DEF Matching, AuditInv, TableInv, IsTable
  <2>4. page = {} \/ page # {}
    OBVIOUS
  <2>. QED BY <1>1, <2>2, <2>3, <2>4 DEF AuditInv, ClientInv
<1>. DEFINE P == Passed \ delivered
            Q == Pushed
<1>7. IsFiniteSet(P) /\ Cardinality(P) \in Nat /\ Cardinality(P) <= deleted
  <2>1. P \in SUBSET rows
    BY DEF Passed
  <2>. QED BY <1>1, <1>3, <2>1 DEF AuditInv, SkipInv
<1>8. SkipInv'
  <2>1. CASE page = {}
    <3>1. (atStart \cap rows) \ delivered' \in SUBSET P
      BY <1>1, <1>2, <1>3, <2>1 DEF Passed
    <3>2. /\ Cardinality((atStart \cap rows) \ delivered') <= Cardinality(P)
          /\ IsFiniteSet((atStart \cap rows) \ delivered')
      BY <1>7, <3>1, FS_Subset
    <3>3. Cardinality((atStart \cap rows) \ delivered') \in Nat
      BY <3>2, FS_CardinalityType
    <3>4. deleted \in Nat
      BY DEF AuditInv, ClientInv
    <3>5. Cardinality((atStart \cap rows) \ delivered') <= deleted
      <4>. HIDE DEF P
      <4>. QED BY <1>7, <3>2, <3>3, <3>4
    <3>. QED BY <1>1, <2>1, <3>5 DEF SkipInv
  <2>2. CASE page # {}
    <3>1. P' \in SUBSET P
      <4>1. ASSUME NEW r \in P'
            PROVE  r \in P
        <5>1. r \in atStart \cap rows /\ r \in M /\ r \notin delivered /\ r \notin page
              /\ Rank(r, M) <= offset + n
          BY <1>1, <1>3, <1>4 DEF Passed
        <5>2. Rank(r, M) <= offset
          BY <1>2, <1>4, <5>1 DEF AuditInv, ClientInv
        <5>. QED BY <5>1, <5>2 DEF Passed
      <4>. QED BY <4>1
    <3>2. Cardinality(P') <= Cardinality(P) /\ IsFiniteSet(P')
      BY <1>7, <3>1, FS_Subset
    <3>3. Cardinality(P') \in Nat /\ deleted \in Nat
      BY <3>2, FS_CardinalityType DEF AuditInv, ClientInv
    <3>4. Cardinality(P') <= deleted
      <4>. HIDE DEF P
      <4>. QED BY <1>7, <3>2, <3>3
    <3>. QED BY <1>1, <2>2, <3>4 DEF SkipInv
  <2>. QED BY <2>1, <2>2
<1>9. RepeatInv'
  <2>. DEFINE G == page \cap delivered
  <2>1. Q' \subseteq Q \ G /\ G \subseteq Q
    <3>1. ASSUME NEW r \in Q'
          PROVE  r \in Q \ G
      <4>1. r \in delivered \cup page /\ r \in rows /\ Rank(r, M) > offset + n
        BY <1>1, <1>4 DEF Pushed
      <4>2. r \notin page
        BY <1>2, <1>4, <4>1 DEF AuditInv, ClientInv
      <4>3. r \in delivered \cap rows /\ r \in M
        BY <1>3, <4>1, <4>2
      <4>4. Rank(r, M) > offset
        BY <1>2, <1>4, <4>1, <4>3 DEF AuditInv, ClientInv
      <4>. QED BY <4>2, <4>3, <4>4 DEF Pushed
    <3>2. ASSUME NEW r \in G
          PROVE  r \in Q
      <4>1. r \in M /\ offset < Rank(r, M) /\ r \in delivered \cap rows
        BY <1>2, <1>3
      <4>2. Rank(r, M) > offset
        BY <1>4, <4>1 DEF AuditInv, ClientInv
      <4>. QED BY <4>1, <4>2 DEF Pushed
    <3>. QED BY <3>1, <3>2
  <2>2. IsFiniteSet(Q) /\ Cardinality(Q) \in Nat /\ Q \subseteq rows
    <3>1. Q \in SUBSET rows
      BY DEF Pushed
    <3>. QED BY <1>3, <3>1
  <2>3. /\ IsFiniteSet(G) /\ Cardinality(G) \in Nat /\ IsFiniteSet(Q \ G)
        /\ Cardinality(Q \ G) = Cardinality(Q) - Cardinality(G)
    <3>1. IsFiniteSet(Q \cap G) /\ IsFiniteSet(Q \ G)
          /\ Cardinality(Q \ G) = Cardinality(Q) - Cardinality(Q \cap G)
      BY <2>2, FS_Difference, FS_Intersection
    <3>2. Q \cap G = G
      BY <2>1
    <3>. QED BY <3>1, <3>2, FS_CardinalityType
  <2>4. Cardinality(Q') <= Cardinality(Q \ G) /\ IsFiniteSet(Q')
    BY <2>1, <2>3, FS_Subset
  <2>5. Cardinality(Q') \in Nat
    BY <2>4, FS_CardinalityType
  <2>6. Cardinality(Q) + repeats <= inserted /\ repeats \in Nat /\ inserted \in Nat
    BY <1>1 DEF AuditInv, RepeatInv, ClientInv
  <2>7. repeats' = repeats + Cardinality(G) /\ inserted' = inserted
    BY <1>1
  <2>. HIDE DEF Q, G
  <2>8. Cardinality(Q') + repeats' <= inserted' /\ repeats' <= inserted'
    BY <2>2, <2>3, <2>4, <2>5, <2>6, <2>7
  <2>. QED BY <2>8 DEF RepeatInv, Q
<1>10. KeptInv'
  BY <1>1, <1>2, <1>3 DEF AuditInv, KeptInv
<1>. QED BY <1>5, <1>6, <1>8, <1>9, <1>10 DEF AuditInv

\* The inductive invariant, for any requests, limits and zones: a client on its way
\* through the trail has missed no more than was deleted and was given again no more
\* than was inserted (store.go:208-257, server.go:292-363).
THEOREM AuditInvariant == Spec => []AuditInv
<1>1. AuditInv /\ [Next]_vars => AuditInv'
  BY InsertKeeps, CleanupKeeps, ZoneChangesKeeps, PagingStartsKeeps, NextPageKeeps, StutterKeeps
  DEF Next
<1>. QED BY <1>1, AuditInit, PTL DEF Spec

----------------------------------------------------------------------------
(* What it is for.                                                         *)

\* Type correctness; ids are never reused (migrations.go:21).
THEOREM AuditIsTyped == Spec => []TypeOK
<1>1. AuditInv => TypeOK
  BY DEF AuditInv, TableInv, ClientInv, IsTable, TypeOK
<1>. QED BY <1>1, AuditInvariant, PTL

\* A client that has walked through the trail misses no more of the rows that
\* matched at the start and are still there than were deleted on its way.
THEOREM NothingIsSkipped == Spec => []NothingSkipped
<1>1. AuditInv => NothingSkipped
  BY DEF AuditInv, SkipInv, NothingSkipped
<1>. QED BY <1>1, AuditInvariant, PTL

\* It gets no more rows a second time than were inserted on its way.
THEOREM InsertionsPayForRepeats == Spec => []RepeatsAreInsertions
<1>1. AuditInv => RepeatsAreInsertions
  BY DEF AuditInv, RepeatInv, RepeatsAreInsertions
<1>. QED BY <1>1, AuditInvariant, PTL

\* Compared as texts, bounds in the zone of a row select it exactly if its instant
\* lies between theirs.
THEOREM RangesAreExactInOneZone == Spec => []RangeExactInOneZone
<1>1. ASSUME AuditInv, NEW row \in rows,
             \A bound \in {request.start, request.end} \cap Times : bound.zone = row.zone
      PROVE  Matches(row, request) <=>
               (request.kind = AnyKind \/ row.kind = request.kind) /\ InRange(row, request)
  <2>1. /\ request.start \in Times \cup {NoBound, Unparsable}
        /\ request.end \in Times \cup {NoBound, Unparsable}
    BY <1>1, AuditAssumption DEF AuditInv, ClientInv, Request
  <2>2. row.at \in Int /\ row.zone \in Int /\ row.zone \in -24 .. 24
    BY <1>1, RowTypes, AuditAssumption DEF AuditInv, TableInv, IsTable
  <2>3. \A bound \in Times : bound.at \in Int
    BY DEF Times, Instants
  <2>4. ASSUME NEW bound \in {request.start, request.end}, BoundOf(bound) # NoBound
        PROVE  /\ bound \in Times
               /\ Text(bound) <= Text(row) <=> bound.at <= row.at
               /\ Text(row) <= Text(bound) <=> row.at <= bound.at
    <3>1. bound \in Times
      BY <2>1, <2>4 DEF BoundOf
    <3>2. bound.zone = row.zone /\ bound.at \in Int
      BY <1>1, <2>3, <2>4, <3>1
    <3>3. Text(bound) <= Text(row) <=> bound.at <= row.at
      BY <2>2, <3>2, TextsOrderInstants
    <3>4. Text(row) <= Text(bound) <=> row.at <= bound.at
      BY <2>2, <3>2, TextsOrderInstants
    <3>. QED BY <3>1, <3>3, <3>4
  <2>5. Text(row) \in Int /\ \A bound \in Times : bound.zone = row.zone => Text(bound) \in Int
    BY <2>2, <2>3 DEF Text
  <2>6. BoundOf(request.start) # NoBound =>
          (Text(row) >= Text(request.start) <=> request.start.at <= row.at)
    BY <1>1, <2>2, <2>3, <2>4, <2>5
  <2>7. BoundOf(request.end) # NoBound =>
          (Text(row) <= Text(request.end) <=> row.at <= request.end.at)
    BY <2>4
  <2>. QED BY <2>6, <2>7 DEF Matches, InRange
<1>2. AuditInv => RangeExactInOneZone
  BY <1>1 DEF RangeExactInOneZone
<1>. QED BY <1>2, AuditInvariant, PTL

\* While the table stands still, each page lies before the pages delivered already.
THEOREM PagesGoBackInTime == Spec => PagesGoBack
<1>. DEFINE Back == inserted' = 0 /\ deleted' = 0 /\ offset' > offset =>
                      \A r \in delivered' \ delivered, s \in delivered : r.zone = s.zone => r.at <= s.at
<1>1. ASSUME AuditInv, NextPage PROVE Back
  <2>. SUFFICES ASSUME inserted' = 0, deleted' = 0,
                       NEW r \in delivered' \ delivered, NEW s \in delivered, r.zone = s.zone
                PROVE  r.at <= s.at
    OBVIOUS
  <2>. DEFINE M == Matching(rows, request)
  <2>1. inserted = 0 /\ deleted = 0 /\ r \in Page(rows, request, offset) /\ paging = "on"
    BY <1>1 DEF NextPage
  <2>2. r \in M /\ offset < Rank(r, M)
    BY <2>1 DEF Page
  <2>3. /\ IsTable(M) /\ delivered \cap rows \subseteq M
        /\ \A S \in SUBSET rows : IsFiniteSet(S) /\ Cardinality(S) \in Nat
    BY <1>1, AuditInvTypes DEF AuditInv
  <2>4. s \in M /\ Rank(s, M) \in Nat /\ Rank(r, M) \in Nat
    BY <1>1, <2>1, <2>3, RankTypes DEF AuditInv, KeptInv
  <2>5. Rank(s, M) <= offset
    <3>1. Pushed \in SUBSET rows
      BY DEF Pushed
    <3>2. IsFiniteSet(Pushed) /\ Cardinality(Pushed) \in Nat
      BY <2>3, <3>1
    <3>3. Cardinality(Pushed) = 0
      BY <1>1, <2>1, <3>2 DEF AuditInv, RepeatInv, ClientInv
    <3>4. Pushed = {}
      BY <3>2, <3>3, FS_EmptySet
    <3>5. s \in rows
      BY <2>4 DEF Matching
    <3>. QED BY <1>1, <2>4, <3>4, <3>5 DEF Pushed, AuditInv, ClientInv
  <2>6. NotAfter(s, r)
    <3>1. Rank(s, M) < Rank(r, M)
      BY <1>1, <2>2, <2>4, <2>5 DEF AuditInv, ClientInv
    <3>2. CASE NotAfter(r, s)
      <4>1. r = s \/ Rank(r, M) < Rank(s, M)
        BY <2>2, <2>3, <2>4, <3>2, RankGrows
      <4>. QED BY <2>4, <3>1, <4>1
    <3>. QED BY <2>2, <2>3, <2>4, <3>2, OrderIsTotal
  <2>7. r \in Row /\ s \in Row
    BY <2>2, <2>3, <2>4 DEF IsTable
  <2>8. /\ r.at \in Int /\ s.at \in Int /\ r.zone \in Int /\ r.zone \in -24 .. 24
        /\ Text(r) \in Int /\ Text(s) \in Int
    BY <2>7, RowTypes, AuditAssumption
  <2>9. Text(r) <= Text(s)
    BY <2>6, <2>8 DEF NotAfter
  <2>. QED BY <2>8, <2>9, TextsOrderInstants
<1>2. ASSUME AuditInv, [Next]_vars PROVE [Back]_vars
  <2>1. CASE InsertEvaluation \/ Cleanup
    <3>1. offset' = offset /\ offset \in Nat
      BY <1>2, <2>1 DEF InsertEvaluation, Cleanup, AuditInv, ClientInv
    <3>. QED BY <3>1
  <2>2. CASE ZoneChanges
    <3>1. offset' = offset /\ offset \in Nat
      BY <1>2, <2>2 DEF ZoneChanges, clientVars, AuditInv, ClientInv
    <3>. QED BY <3>1
  <2>3. CASE PagingStarts
    <3>1. offset' = 0 /\ offset \in Nat
      BY <1>2, <2>3 DEF PagingStarts, AuditInv, ClientInv
    <3>. QED BY <3>1
  <2>. QED BY <1>1, <1>2, <2>1, <2>2, <2>3 DEF Next
<1>3. [][Back]_vars <=> PagesGoBack
  BY PTL DEF PagesGoBack
<1>. QED BY <1>2, <1>3, AuditInvariant, PTL DEF Spec

=============================================================================
