-------------------------- MODULE PromAdapter_proofs --------------------------
(***************************************************************************)
(* Theorems about PromAdapter: however many goroutines query, however many *)
(* permits and retries there are, no permit is lost or made up, and every  *)
(* query takes boundedly many steps.                                       *)
(***************************************************************************)
EXTENDS PromAdapter, FiniteSetTheorems, TLAPS

----------------------------------------------------------------------------
(* A queue without repetitions, as the set of who is in it.                *)

Queued(s) == {s[i] : i \in DOMAIN s}

Distinct(s) == \A i, j \in DOMAIN s : s[i] = s[j] => i = j

\* Weighted.Acquire queues behind the others.
LEMMA AppendQueue ==
  ASSUME NEW S, NEW s \in Seq(S), NEW e \in S, Distinct(s), e \notin Queued(s)
  PROVE  /\ Append(s, e) \in Seq(S) /\ Append(s, e) # <<>>
         /\ Distinct(Append(s, e))
         /\ Queued(Append(s, e)) = Queued(s) \cup {e}
<1>1. /\ Append(s, e) \in Seq(S) /\ Len(Append(s, e)) = Len(s) + 1
      /\ DOMAIN Append(s, e) = 1 .. Len(s) + 1 /\ DOMAIN s = 1 .. Len(s)
      /\ Len(s) \in Nat
  OBVIOUS
<1>2. \A i \in 1 .. Len(s) : Append(s, e)[i] = s[i]
  OBVIOUS
<1>3. Append(s, e)[Len(s) + 1] = e
  OBVIOUS
<1>4. Distinct(Append(s, e))
  BY <1>1, <1>2, <1>3 DEF Distinct, Queued
<1>5. Queued(Append(s, e)) = Queued(s) \cup {e}
  BY <1>1, <1>2, <1>3 DEF Queued
<1>. QED BY <1>1, <1>4, <1>5

\* Release hands its permit to the first.
LEMMA TailQueue ==
  ASSUME NEW S, NEW s \in Seq(S), Distinct(s), s # <<>>
  PROVE  /\ Tail(s) \in Seq(S) /\ Head(s) \in Queued(s) /\ Head(s) \in S
         /\ Distinct(Tail(s))
         /\ Queued(Tail(s)) = Queued(s) \ {Head(s)}
<1>1. /\ Tail(s) \in Seq(S) /\ Len(s) \in Nat \ {0} /\ Head(s) = s[1] /\ Head(s) \in S
      /\ DOMAIN s = 1 .. Len(s) /\ DOMAIN Tail(s) = 1 .. Len(s) - 1
  OBVIOUS
<1>2. \A i \in 1 .. Len(s) - 1 : Tail(s)[i] = s[i + 1]
  OBVIOUS
<1>3. Distinct(Tail(s))
  BY <1>1, <1>2 DEF Distinct
<1>4. Queued(Tail(s)) \subseteq Queued(s) \ {Head(s)}
  BY <1>1, <1>2 DEF Distinct, Queued
<1>5. ASSUME NEW x \in Queued(s) \ {Head(s)} PROVE x \in Queued(Tail(s))
  <2>1. PICK i \in 1 .. Len(s) : x = s[i]
    BY <1>1 DEF Queued
  <2>2. i - 1 \in 1 .. Len(s) - 1 /\ Tail(s)[i - 1] = x
    BY <1>1, <1>2, <1>5, <2>1
  <2>. QED BY <1>1, <2>2 DEF Queued
<1>6. Queued(Tail(s)) = Queued(s) \ {Head(s)}
  BY <1>4, <1>5
<1>7. Head(s) \in Queued(s)
  BY <1>1 DEF Queued
<1>. QED BY <1>1, <1>3, <1>6, <1>7

LEMMA JoinedSecond ==
  ASSUME NEW S, NEW a \in Seq(S), NEW b \in Seq(S),
         NEW i \in Len(a) + 1 .. Len(a) + Len(b)
  PROVE  (a \o b)[i] = b[i - Len(a)]
OBVIOUS

LEMMA JoinedLength ==
  ASSUME NEW S, NEW a \in Seq(S), NEW b \in Seq(S)
  PROVE  a \o b \in Seq(S) /\ Len(a \o b) = Len(a) + Len(b) /\ DOMAIN (a \o b) = 1 .. Len(a \o b)
OBVIOUS

\* A waiter that gives up leaves from anywhere.
LEMMA RemoveQueue ==
  ASSUME NEW S, NEW s \in Seq(S), Distinct(s), NEW k \in DOMAIN s
  PROVE  /\ RemoveAt(s, k) \in Seq(S)
         /\ Distinct(RemoveAt(s, k))
         /\ Queued(RemoveAt(s, k)) = Queued(s) \ {s[k]}
<1>. DEFINE r == RemoveAt(s, k)
<1>1. Len(s) \in Nat /\ k \in 1 .. Len(s) /\ DOMAIN s = 1 .. Len(s)
  OBVIOUS
<1>2. /\ SubSeq(s, 1, k - 1) \in Seq(S) /\ Len(SubSeq(s, 1, k - 1)) = k - 1
      /\ \A i \in 1 .. k - 1 : SubSeq(s, 1, k - 1)[i] = s[i]
  BY <1>1
<1>3. /\ SubSeq(s, k + 1, Len(s)) \in Seq(S) /\ Len(SubSeq(s, k + 1, Len(s))) = Len(s) - k
      /\ \A i \in 1 .. Len(s) - k : SubSeq(s, k + 1, Len(s))[i] = s[i + k]
  BY <1>1
<1>4. r \in Seq(S) /\ Len(r) = Len(s) - 1 /\ DOMAIN r = 1 .. Len(s) - 1
  <2>1. /\ r \in Seq(S) /\ DOMAIN r = 1 .. Len(r)
        /\ Len(r) = Len(SubSeq(s, 1, k - 1)) + Len(SubSeq(s, k + 1, Len(s)))
    BY <1>2, <1>3, JoinedLength DEF RemoveAt
  <2>2. Len(r) = Len(s) - 1
    <3>. HIDE DEF r
    <3>. QED BY <1>1, <1>2, <1>3, <2>1
  <2>. QED BY <2>1, <2>2
<1>5. ASSUME NEW i \in 1 .. Len(s) - 1
      PROVE  r[i] = IF i < k THEN s[i] ELSE s[i + 1]
  <2>1. CASE i < k
    BY <1>1, <1>2, <1>3, <2>1 DEF RemoveAt
  <2>2. CASE ~(i < k)
    <3>1. i - (k - 1) \in 1 .. Len(s) - k /\ k + (i - (k - 1)) = i + 1
      BY <1>1, <2>2
    <3>2. r[i] = SubSeq(s, k + 1, Len(s))[i - (k - 1)]
      <4>. DEFINE a == SubSeq(s, 1, k - 1)
                  b == SubSeq(s, k + 1, Len(s))
      <4>0. r = a \o b
        BY DEF RemoveAt
      <4>1. i \in Len(a) + 1 .. Len(a) + Len(b)
        BY <1>1, <1>2, <1>3, <2>2
      <4>2. a \in Seq(S) /\ b \in Seq(S) /\ Len(a) = k - 1
        BY <1>2, <1>3
      <4>. HIDE DEF a, b
      <4>3. (a \o b)[i] = b[i - (k - 1)]
        BY <4>1, <4>2, JoinedSecond
      <4>. HIDE DEF r
      <4>4. r[i] = b[i - (k - 1)]
        BY <4>0, <4>3
      <4>. QED BY <4>4 DEF b
    <3>3. SubSeq(s, k + 1, Len(s))[i - (k - 1)] = s[i - (k - 1) + k]
      BY <1>3, <3>1
    <3>4. i - (k - 1) + k = i + 1
      BY <1>1
    <3>. HIDE DEF r
    <3>. QED BY <2>2, <3>2, <3>3, <3>4
  <2>. QED BY <2>1, <2>2
<1>6. Distinct(r)
  <2>. SUFFICES ASSUME NEW i \in 1 .. Len(s) - 1, NEW j \in 1 .. Len(s) - 1, r[i] = r[j]
                PROVE  i = j
    BY <1>4 DEF Distinct
  <2>. DEFINE at(x) == IF x < k THEN x ELSE x + 1
  <2>1. r[i] = s[at(i)] /\ r[j] = s[at(j)]
    BY <1>5
  <2>2. at(i) \in DOMAIN s /\ at(j) \in DOMAIN s
    BY <1>1
  <2>3. at(i) = at(j)
    BY <2>1, <2>2 DEF Distinct
  <2>. QED BY <1>1, <2>3
<1>7. ASSUME NEW x \in Queued(r) PROVE x \in Queued(s) \ {s[k]}
  <2>. HIDE DEF r
  <2>1. PICK i \in 1 .. Len(s) - 1 : x = r[i]
    BY <1>4 DEF Queued
  <2>2. CASE i < k
    BY <1>1, <1>5, <2>1, <2>2 DEF Distinct, Queued
  <2>3. CASE ~(i < k)
    <3>1. x = s[i + 1] /\ i + 1 \in 1 .. Len(s) /\ i + 1 # k
      BY <1>1, <1>5, <2>1, <2>3
    <3>. QED BY <1>1, <3>1 DEF Distinct, Queued
  <2>. QED BY <2>2, <2>3
<1>8. ASSUME NEW x \in Queued(s) \ {s[k]} PROVE x \in Queued(r)
  <2>1. PICK i \in 1 .. Len(s) : x = s[i]
    BY <1>1 DEF Queued
  <2>2. CASE i < k
    BY <1>1, <1>4, <1>5, <2>1, <2>2 DEF Queued
  <2>3. CASE i > k
    <3>1. i - 1 \in 1 .. Len(s) - 1 /\ r[i - 1] = x
      BY <1>1, <1>5, <2>1, <2>3
    <3>. QED BY <1>4, <3>1 DEF Queued
  <2>. QED BY <1>1, <1>8, <2>1, <2>2, <2>3
<1>. QED BY <1>4, <1>6, <1>7, <1>8 DEF Queued

----------------------------------------------------------------------------
(* The inductive invariant is type correctness, with a retry left to       *)
(* whoever sleeps, together with what is to be shown.                      *)

AdapterInv == AdapterTypeOK /\ PermitsConserved

\* PermitsConserved in terms of the queue as a set.
LEMMA PermitsConservedAlt ==
  PermitsConserved <=>
    /\ cur = Cardinality(Holders) /\ cur <= MaxConcurrency
    /\ {g \in Goroutines : phase[g] = "waiting"} = Queued(waiters)
    /\ Distinct(waiters)
    /\ waiters # <<>> => cur = MaxConcurrency
BY DEF PermitsConserved, Queued, Distinct

LEMMA HoldersFinite ==
  ASSUME NEW S, S \subseteq Goroutines
  PROVE  IsFiniteSet(S) /\ Cardinality(S) \in Nat
BY AdapterAssumption, FS_Subset, FS_CardinalityType

LEMMA AdapterInvInit == AdapterInit => AdapterInv
<1>. SUFFICES ASSUME AdapterInit PROVE AdapterInv
  OBVIOUS
<1>1. AdapterTypeOK
  BY AdapterAssumption DEF AdapterInit, AdapterTypeOK, Phases
<1>2. Holders = {}
  BY DEF AdapterInit, Holders
<1>3. Queued(waiters) = {} /\ Distinct(waiters)
  BY DEF AdapterInit, Queued, Distinct
<1>4. PermitsConserved
  BY <1>2, <1>3, FS_EmptySet, AdapterAssumption, PermitsConservedAlt DEF AdapterInit
<1>. QED BY <1>1, <1>4 DEF AdapterInv

\* A query that keeps its place: it neither takes nor gives back a permit, nor
\* enters or leaves the queue.
LEMMA KeepsPlace ==
  ASSUME AdapterInv, UNCHANGED <<cur, waiters>>, phase' \in [Goroutines -> Phases],
         \A g \in Goroutines :
           /\ phase'[g] = "waiting" <=> phase[g] = "waiting"
           /\ g \in Holders' <=> g \in Holders
  PROVE  PermitsConserved'
<1>1. Holders' = Holders
  BY DEF Holders
<1>2. {g \in Goroutines : phase'[g] = "waiting"} = {g \in Goroutines : phase[g] = "waiting"}
  OBVIOUS
<1>. QED BY <1>1, <1>2 DEF AdapterInv, PermitsConserved

\* The deferred Release, whoever is next.
LEMMA ReturnsPermitKeeps ==
  ASSUME AdapterInv, NEW g \in Goroutines, g \in Holders, ReturnsPermit(g)
  PROVE  AdapterInv'
<1>. USE DEF AdapterInv
<1>1. /\ Cardinality(Holders) \in Nat /\ IsFiniteSet(Holders)
      /\ cur = Cardinality(Holders) /\ cur <= MaxConcurrency
      /\ MaxConcurrency \in Nat \ {0}
      /\ Cardinality(Holders \ {g}) = cur - 1 /\ cur - 1 \in Nat
  <2>1. IsFiniteSet(Holders) /\ Cardinality(Holders) \in Nat
    BY HoldersFinite DEF Holders
  <2>2. Cardinality(Holders \ {g}) = Cardinality(Holders) - 1
    BY <2>1, FS_RemoveElement
  <2>3. Cardinality(Holders \ {g}) \in Nat
    BY HoldersFinite DEF Holders
  <2>. QED BY <2>1, <2>2, <2>3, AdapterAssumption DEF PermitsConserved
<1>2. /\ attempt' \in [Goroutines -> 0 .. RetryCount] /\ expired' \in [Goroutines -> BOOLEAN]
      /\ \A h \in Goroutines : h # g => attempt'[h] = attempt[h]
  BY AdapterAssumption DEF ReturnsPermit, AdapterTypeOK
<1>3. CASE waiters = <<>>
  <2>1. /\ phase' = [phase EXCEPT ![g] = "idle"] /\ cur' = cur - 1 /\ waiters' = waiters
    BY <1>3 DEF ReturnsPermit
  <2>2. AdapterTypeOK'
    BY <1>1, <1>2, <2>1 DEF AdapterTypeOK, Phases
  <2>3. Holders' = Holders \ {g}
    BY <2>1 DEF Holders, AdapterTypeOK
  <2>4. {h \in Goroutines : phase'[h] = "waiting"} = Queued(waiters')
    BY <2>1, PermitsConservedAlt DEF Holders, AdapterTypeOK
  <2>5. Distinct(waiters')
    BY <2>1, PermitsConservedAlt
  <2>. QED
    BY <1>1, <1>3, <2>1, <2>2, <2>3, <2>4, <2>5 DEF PermitsConserved, Queued, Distinct
<1>4. CASE waiters # <<>>
  <2>. DEFINE next == Head(waiters)
  <2>1. /\ phase' = [phase EXCEPT ![g] = "idle", ![next] = "ready"]
        /\ cur' = cur /\ waiters' = Tail(waiters)
    BY <1>4 DEF ReturnsPermit
  <2>2. /\ waiters' \in Seq(Goroutines) /\ next \in Queued(waiters) /\ next \in Goroutines
        /\ Distinct(waiters') /\ Queued(waiters') = Queued(waiters) \ {next}
    BY <1>4, <2>1, TailQueue, PermitsConservedAlt DEF AdapterTypeOK
  <2>3. phase[next] = "waiting" /\ next # g
    BY <2>2, PermitsConservedAlt DEF Holders
  <2>4. /\ phase' \in [Goroutines -> Phases] /\ phase'[g] = "idle" /\ phase'[next] = "ready"
        /\ \A h \in Goroutines : h # g /\ h # next => phase'[h] = phase[h]
    BY <2>1, <2>2, <2>3 DEF AdapterTypeOK, Phases
  <2>5. AdapterTypeOK'
    <3>1. \A h \in Goroutines : phase'[h] = "sleep" => attempt'[h] < RetryCount
      BY <1>2, <2>4 DEF AdapterTypeOK
    <3>. QED BY <1>1, <1>2, <2>1, <2>2, <2>4, <3>1 DEF AdapterTypeOK
  <2>6. Holders' = (Holders \ {g}) \cup {next}
    BY <2>2, <2>4 DEF Holders
  <2>7. Cardinality(Holders') = cur
    <3>1. next \notin Holders \ {g} /\ IsFiniteSet(Holders \ {g})
      BY <1>1, <2>3, FS_RemoveElement DEF Holders
    <3>2. Cardinality(Holders') = Cardinality(Holders \ {g}) + 1
      BY <2>6, <3>1, FS_AddElement
    <3>. QED BY <1>1, <3>2
  <2>8. {h \in Goroutines : phase'[h] = "waiting"} = Queued(waiters')
    BY <2>2, <2>3, <2>4, PermitsConservedAlt DEF Holders
  <2>9. cur' = MaxConcurrency
    BY <1>4, <2>1 DEF PermitsConserved
  <2>. HIDE DEF next
  <2>. QED
    BY <1>1, <2>1, <2>2, <2>5, <2>7, <2>8, <2>9 DEF PermitsConserved, Queued, Distinct
<1>. QED BY <1>3, <1>4

LEMMA AcquireKeeps ==
  ASSUME AdapterInv, NEW g \in Goroutines, Acquire(g)
  PROVE  AdapterInv'
<1>. USE DEF AdapterInv
<1>1. phase[g] = "acquire" /\ UNCHANGED <<attempt, expired>>
  BY DEF Acquire
<1>2. /\ Cardinality(Holders) \in Nat /\ IsFiniteSet(Holders) /\ g \notin Holders
      /\ cur = Cardinality(Holders)
  BY <1>1, HoldersFinite DEF Holders, PermitsConserved
<1>3. CASE cur < MaxConcurrency /\ waiters = <<>>
  <2>1. phase' = [phase EXCEPT ![g] = "attempt"] /\ cur' = cur + 1 /\ waiters' = waiters
    BY <1>3 DEF Acquire
  <2>2. AdapterTypeOK'
    BY <1>1, <1>2, <1>3, <2>1, AdapterAssumption DEF AdapterTypeOK, Phases
  <2>3. Holders' = Holders \cup {g}
    BY <2>1 DEF Holders, AdapterTypeOK
  <2>4. Cardinality(Holders') = cur'
    BY <1>2, <2>1, <2>3, FS_AddElement
  <2>5. {h \in Goroutines : phase'[h] = "waiting"} = {h \in Goroutines : phase[h] = "waiting"}
    BY <1>1, <2>1 DEF AdapterTypeOK
  <2>. QED
    BY <1>2, <1>3, <2>1, <2>2, <2>4, <2>5, AdapterAssumption DEF PermitsConserved
<1>4. CASE ~(cur < MaxConcurrency /\ waiters = <<>>)
  <2>1. /\ phase' = [phase EXCEPT ![g] = "waiting"]
        /\ waiters' = Append(waiters, g) /\ cur' = cur
    BY <1>4 DEF Acquire
  <2>2. g \notin Queued(waiters) /\ Distinct(waiters)
    BY <1>1, PermitsConservedAlt
  <2>3. /\ waiters' \in Seq(Goroutines) /\ Distinct(waiters')
        /\ Queued(waiters') = Queued(waiters) \cup {g}
    BY <2>1, <2>2, AppendQueue DEF AdapterTypeOK
  <2>4. AdapterTypeOK'
    BY <1>1, <2>1, <2>3 DEF AdapterTypeOK, Phases
  <2>5. Holders' = Holders
    BY <1>1, <2>1 DEF Holders, AdapterTypeOK
  <2>6. {h \in Goroutines : phase'[h] = "waiting"} = Queued(waiters')
    BY <2>1, <2>3, PermitsConservedAlt DEF AdapterTypeOK
  <2>7. cur' = MaxConcurrency
    BY <1>4, <2>1, AdapterAssumption DEF PermitsConserved, AdapterTypeOK
  <2>. QED
    BY <2>1, <2>3, <2>4, <2>5, <2>6, <2>7 DEF PermitsConserved, Queued, Distinct
<1>. QED BY <1>3, <1>4

LEMMA GiveUpKeeps ==
  ASSUME AdapterInv, NEW g \in Goroutines, GiveUp(g)
  PROVE  AdapterInv'
<1>. USE DEF AdapterInv
<1>1. PICK k \in DOMAIN waiters : waiters[k] = g /\ waiters' = RemoveAt(waiters, k)
  BY DEF GiveUp
<1>2. /\ phase[g] = "waiting" /\ cur' = cur
      /\ phase' = [phase EXCEPT ![g] = "idle"]
      /\ attempt' = [attempt EXCEPT ![g] = 0] /\ expired' = [expired EXCEPT ![g] = FALSE]
  BY DEF GiveUp, Returns
<1>3. /\ waiters' \in Seq(Goroutines) /\ Distinct(waiters')
      /\ Queued(waiters') = Queued(waiters) \ {g}
  BY <1>1, RemoveQueue, PermitsConservedAlt DEF AdapterTypeOK
<1>4. AdapterTypeOK'
  BY <1>2, <1>3, AdapterAssumption DEF AdapterTypeOK, Phases
<1>5. Holders' = Holders
  BY <1>2 DEF Holders, AdapterTypeOK
<1>6. {h \in Goroutines : phase'[h] = "waiting"} = Queued(waiters')
  BY <1>2, <1>3, PermitsConservedAlt DEF AdapterTypeOK
<1>7. waiters # <<>>
  BY <1>1 DEF AdapterTypeOK
<1>. QED
  BY <1>2, <1>3, <1>4, <1>5, <1>6, <1>7 DEF PermitsConserved, Queued, Distinct

LEMMA AdapterInvStep == AdapterInv /\ [AdapterNext]_adapterVars => AdapterInv'
<1>. SUFFICES ASSUME AdapterInv, [AdapterNext]_adapterVars PROVE AdapterInv'
  OBVIOUS
<1>1. CASE UNCHANGED adapterVars
  BY <1>1 DEF adapterVars, AdapterInv, AdapterTypeOK, PermitsConserved, Holders
<1>2. ASSUME NEW g \in Goroutines, QueryWindow(g) \/ Expire(g) PROVE AdapterInv'
  <2>1. AdapterTypeOK'
    BY <1>2 DEF AdapterInv, AdapterTypeOK, Phases, QueryWindow, Expire
  <2>2. PermitsConserved'
    BY <1>2, <2>1, KeepsPlace DEF AdapterInv, AdapterTypeOK, QueryWindow, Expire, Holders
  <2>. QED BY <2>1, <2>2 DEF AdapterInv
<1>3. ASSUME NEW g \in Goroutines, AcquireFails(g) PROVE AdapterInv'
  <2>1. AdapterTypeOK'
    BY <1>3, AdapterAssumption DEF AdapterInv, AdapterTypeOK, Phases, AcquireFails, Returns
  <2>2. PermitsConserved'
    BY <1>3, <2>1, KeepsPlace DEF AdapterInv, AdapterTypeOK, AcquireFails, Returns, Holders
  <2>. QED BY <2>1, <2>2 DEF AdapterInv
<1>4. ASSUME NEW g \in Goroutines, Woken(g) PROVE AdapterInv'
  <2>1. CASE ReturnsPermit(g)
    BY <1>4, <2>1, ReturnsPermitKeeps DEF Woken, Holders
  <2>2. CASE /\ phase' = [phase EXCEPT ![g] = "attempt"]
             /\ UNCHANGED <<attempt, expired, cur, waiters>>
    <3>1. AdapterTypeOK'
      BY <2>2 DEF AdapterInv, AdapterTypeOK, Phases
    <3>2. PermitsConserved'
      BY <1>4, <2>2, <3>1, KeepsPlace DEF AdapterInv, AdapterTypeOK, Woken, Holders
    <3>. QED BY <3>1, <3>2 DEF AdapterInv
  <2>. QED BY <1>4, <2>1, <2>2 DEF Woken
<1>5. ASSUME NEW g \in Goroutines, Retry(g) PROVE AdapterInv'
  <2>1. AdapterTypeOK'
    BY <1>5, AdapterAssumption DEF AdapterInv, AdapterTypeOK, Phases, Retry
  <2>2. PermitsConserved'
    BY <1>5, <2>1, KeepsPlace DEF AdapterInv, AdapterTypeOK, Retry, Holders
  <2>. QED BY <2>1, <2>2 DEF AdapterInv
<1>6. ASSUME NEW g \in Goroutines, AttemptFails(g) PROVE AdapterInv'
  <2>1. CASE ReturnsPermit(g)
    BY <1>6, <2>1, ReturnsPermitKeeps DEF AttemptFails, Holders
  <2>2. CASE /\ attempt[g] < RetryCount /\ phase' = [phase EXCEPT ![g] = "sleep"]
             /\ UNCHANGED <<attempt, expired, cur, waiters>>
    <3>1. AdapterTypeOK'
      BY <2>2 DEF AdapterInv, AdapterTypeOK, Phases
    <3>2. PermitsConserved'
      BY <1>6, <2>2, <3>1, KeepsPlace DEF AdapterInv, AdapterTypeOK, AttemptFails, Holders
    <3>. QED BY <3>1, <3>2 DEF AdapterInv
  <2>. QED BY <1>6, <2>1, <2>2 DEF AttemptFails
<1>7. ASSUME NEW g \in Goroutines, Answered(g) PROVE AdapterInv'
  BY <1>7, ReturnsPermitKeeps DEF Answered, Holders
<1>. QED
  BY <1>1, <1>2, <1>3, <1>4, <1>5, <1>6, <1>7, AcquireKeeps, GiveUpKeeps
  DEF AdapterNext, Proceeds

\* The adapter by itself never loses a permit, hands out one too many, or lets a
\* query wait beside a free one (adapter.go:54-94 over x/sync's Weighted).
THEOREM PermitsAreConserved == AdapterSpec => []PermitsConserved
<1>1. AdapterInv => PermitsConserved
  BY DEF AdapterInv
<1>. QED BY <1>1, AdapterInvInit, AdapterInvStep, PTL DEF AdapterSpec

----------------------------------------------------------------------------
(* Every query ends, but for what only fairness can give: it takes a       *)
(* bounded number of steps.                                                *)

\* How many more steps the query of g may take.
StepsLeft(g) ==
  IF phase[g] = "idle" THEN 0
  ELSE (IF expired[g] THEN 0 ELSE 1) +
       CASE phase[g] = "acquire" -> 2 * RetryCount + 5
         [] phase[g] = "waiting" -> 2 * RetryCount + 4
         [] phase[g] = "ready"   -> 2 * RetryCount + 3
         [] phase[g] = "attempt" -> 2 * (RetryCount - attempt[g]) + 2
         [] phase[g] = "sleep"   -> 2 * (RetryCount - attempt[g]) + 1

QueryUntouched(g) ==
  phase'[g] = phase[g] /\ attempt'[g] = attempt[g] /\ expired'[g] = expired[g]

\* A step that concerns an open query brings it nearer to its end.
CountsDown(g) == phase[g] # "idle" => QueryUntouched(g) \/ StepsLeft(g)' < StepsLeft(g)

LEMMA StepsLeftType ==
  ASSUME AdapterTypeOK, NEW g \in Goroutines
  PROVE  StepsLeft(g) \in 0 .. 2 * RetryCount + 6
<1>1. /\ phase[g] \in Phases /\ attempt[g] \in 0 .. RetryCount /\ expired[g] \in BOOLEAN
      /\ RetryCount \in Nat
  BY AdapterAssumption DEF AdapterTypeOK
<1>. QED BY <1>1 DEF StepsLeft, Phases

\* Whoever is handed a permit was waiting for one.
LEMMA HeadWaits ==
  ASSUME AdapterInv, waiters # <<>>
  PROVE  Head(waiters) \in Goroutines /\ phase[Head(waiters)] = "waiting"
<1>1. waiters \in Seq(Goroutines)
  BY DEF AdapterInv, AdapterTypeOK
<1>2. Head(waiters) \in {waiters[i] : i \in DOMAIN waiters}
  BY <1>1
<1>. QED BY <1>2 DEF AdapterInv, PermitsConserved

\* A query that returns is at its end.
LEMMA ReturnedIsIdle ==
  ASSUME AdapterInv, NEW g \in Goroutines, phase[g] # "waiting", ReturnsPermit(g)
  PROVE  phase'[g] = "idle"
<1>1. phase \in [Goroutines -> Phases]
  BY DEF AdapterInv, AdapterTypeOK
<1>2. waiters # <<>> => Head(waiters) # g
  BY HeadWaits
<1>. QED BY <1>1, <1>2 DEF ReturnsPermit

LEMMA EndedCountsDown ==
  ASSUME AdapterTypeOK, NEW g \in Goroutines, phase[g] # "idle", phase'[g] = "idle"
  PROVE  StepsLeft(g)' < StepsLeft(g)
<1>1. /\ phase[g] \in Phases /\ attempt[g] \in 0 .. RetryCount /\ expired[g] \in BOOLEAN
      /\ RetryCount \in Nat
  BY AdapterAssumption DEF AdapterTypeOK
<1>2. StepsLeft(g)' = 0
  BY DEF StepsLeft
<1>3. StepsLeft(g) >= 1
  BY <1>1 DEF StepsLeft, Phases
<1>. QED BY <1>2, <1>3, StepsLeftType

\* A step of h leaves the query of another goroutine g alone, or hands it a permit.
LEMMA OthersCountDown ==
  ASSUME AdapterInv, NEW h \in Goroutines, NEW g \in Goroutines \ {h}, phase[g] # "idle",
         QueryWindow(h) \/ Expire(h) \/ Proceeds(h) \/ AttemptFails(h) \/ Answered(h)
  PROVE  QueryUntouched(g) \/ StepsLeft(g)' < StepsLeft(g)
<1>1. /\ phase \in [Goroutines -> Phases] /\ attempt \in [Goroutines -> 0 .. RetryCount]
      /\ expired \in [Goroutines -> BOOLEAN] /\ RetryCount \in Nat
  BY AdapterAssumption DEF AdapterInv, AdapterTypeOK
<1>2. attempt'[g] = attempt[g] /\ expired'[g] = expired[g]
  BY <1>1 DEF QueryWindow, Expire, Proceeds, AttemptFails, Answered, AcquireFails, Acquire,
              GiveUp, Woken, Retry, Returns, ReturnsPermit
<1>3. CASE ReturnsPermit(h)
  <2>1. phase'[g] = phase[g] \/ (phase'[g] = "ready" /\ phase[g] = "waiting")
    BY <1>1, <1>3, HeadWaits DEF ReturnsPermit
  <2>2. CASE phase'[g] = phase[g]
    BY <1>2, <2>2 DEF QueryUntouched
  <2>3. CASE phase'[g] = "ready" /\ phase[g] = "waiting"
    <3>1. expired[g] \in BOOLEAN
      BY <1>1
    <3>. QED BY <1>1, <1>2, <2>3, <3>1 DEF StepsLeft
  <2>. QED BY <2>1, <2>2, <2>3
<1>4. CASE \E p \in Phases : phase' = [phase EXCEPT ![h] = p]
  BY <1>1, <1>2, <1>4 DEF QueryUntouched
<1>5. CASE phase' = phase
  BY <1>2, <1>5 DEF QueryUntouched
<1>6. ReturnsPermit(h) \/ (\E p \in Phases : phase' = [phase EXCEPT ![h] = p]) \/ phase' = phase
  BY DEF QueryWindow, Expire, Proceeds, AttemptFails, Answered, AcquireFails, Acquire, GiveUp,
         Woken, Retry, Returns, Phases
<1>. QED BY <1>3, <1>4, <1>5, <1>6

\* Its own steps take a query from phase to phase, an attempt further, past its
\* deadline, or to its end.
LEMMA OwnStepCountsDown ==
  ASSUME AdapterInv, NEW g \in Goroutines, phase[g] # "idle",
         QueryWindow(g) \/ Expire(g) \/ Proceeds(g) \/ AttemptFails(g) \/ Answered(g)
  PROVE  StepsLeft(g)' < StepsLeft(g)
<1>1. /\ phase \in [Goroutines -> Phases] /\ attempt \in [Goroutines -> 0 .. RetryCount]
      /\ expired \in [Goroutines -> BOOLEAN] /\ RetryCount \in Nat
      /\ phase[g] = "sleep" => attempt[g] < RetryCount
      /\ AdapterTypeOK
  BY AdapterAssumption DEF AdapterInv, AdapterTypeOK
<1>2. phase[g] \in Phases /\ attempt[g] \in 0 .. RetryCount /\ expired[g] \in BOOLEAN
  BY <1>1
<1>3. CASE phase'[g] = "idle"
  BY <1>1, <1>3, EndedCountsDown
<1>4. CASE ReturnsPermit(g) /\ phase[g] # "waiting"
  BY <1>3, <1>4, ReturnedIsIdle
<1>5. CASE QueryWindow(g)
  BY <1>5 DEF QueryWindow
<1>6. CASE Expire(g)
  <2>1. phase' = phase /\ attempt' = attempt /\ ~expired[g] /\ expired'[g]
    BY <1>1, <1>6 DEF Expire
  <2>. QED BY <1>1, <1>2, <2>1 DEF StepsLeft, Phases
<1>7. CASE AcquireFails(g) \/ GiveUp(g)
  <2>1. phase'[g] = "idle"
    BY <1>1, <1>7 DEF AcquireFails, GiveUp, Returns
  <2>. QED BY <1>3, <2>1
<1>8. CASE Acquire(g)
  <2>1. /\ phase[g] = "acquire" /\ phase'[g] \in {"attempt", "waiting"}
        /\ attempt' = attempt /\ expired' = expired
    BY <1>1, <1>8 DEF Acquire
  <2>. QED BY <1>1, <1>2, <2>1 DEF StepsLeft
<1>9. CASE Woken(g)
  <2>1. CASE expired[g]
    BY <1>4, <1>9, <2>1 DEF Woken
  <2>2. CASE ~expired[g]
    <3>1. /\ phase[g] = "ready" /\ phase'[g] = "attempt"
          /\ attempt' = attempt /\ expired' = expired
      BY <1>1, <1>9, <2>2 DEF Woken
    <3>. QED BY <1>1, <1>2, <3>1 DEF StepsLeft
  <2>. QED BY <2>1, <2>2
<1>10. CASE Retry(g)
  <2>1. /\ phase[g] = "sleep" /\ phase'[g] = "attempt"
        /\ attempt'[g] = attempt[g] + 1 /\ expired' = expired
    BY <1>1, <1>10 DEF Retry
  <2>. QED BY <1>1, <1>2, <2>1 DEF StepsLeft
<1>11. CASE AttemptFails(g)
  <2>1. CASE attempt[g] < RetryCount
    <3>1. /\ phase[g] = "attempt" /\ phase'[g] = "sleep"
          /\ attempt' = attempt /\ expired' = expired
      BY <1>1, <1>11, <2>1 DEF AttemptFails
    <3>. QED BY <1>1, <1>2, <3>1 DEF StepsLeft
  <2>2. CASE ~(attempt[g] < RetryCount)
    BY <1>4, <1>11, <2>2 DEF AttemptFails
  <2>. QED BY <2>1, <2>2
<1>12. CASE Answered(g)
  BY <1>4, <1>12 DEF Answered
<1>. QED
  BY <1>5, <1>6, <1>7, <1>8, <1>9, <1>10, <1>11, <1>12 DEF Proceeds

LEMMA QueriesCountDown ==
  ASSUME AdapterInv, [AdapterNext]_adapterVars, NEW g \in Goroutines
  PROVE  CountsDown(g)
<1>1. CASE UNCHANGED adapterVars
  BY <1>1 DEF adapterVars, CountsDown, QueryUntouched
<1>2. CASE AdapterNext
  <2>1. PICK h \in Goroutines :
          QueryWindow(h) \/ Expire(h) \/ Proceeds(h) \/ AttemptFails(h) \/ Answered(h)
    BY <1>2 DEF AdapterNext
  <2>. QED BY <2>1, OwnStepCountsDown, OthersCountDown DEF CountsDown
<1>. QED BY <1>1, <1>2

\* A query takes at most 2 * RetryCount + 6 steps more once it has asked for a permit,
\* whatever the others do: it never turns back in the queue, retries no more often than
\* configured, and passes on at most one permit (adapter.go:54-94).  What remains of
\* QueriesReturn is that an open query has a step to take.
THEOREM QueriesAreBounded ==
  AdapterSpec => /\ [](\A g \in Goroutines : StepsLeft(g) \in 0 .. 2 * RetryCount + 6)
                 /\ [][\A g \in Goroutines : CountsDown(g)]_adapterVars
<1>1. AdapterInv /\ [AdapterNext]_adapterVars =>
        [\A g \in Goroutines : CountsDown(g)]_adapterVars
  BY QueriesCountDown
<1>2. AdapterInv => \A g \in Goroutines : StepsLeft(g) \in 0 .. 2 * RetryCount + 6
  BY StepsLeftType DEF AdapterInv
<1>3. AdapterSpec => []AdapterInv
  BY AdapterInvInit, AdapterInvStep, PTL DEF AdapterSpec
<1>. QED BY <1>1, <1>2, <1>3, PTL DEF AdapterSpec

=============================================================================
