-------------------------- MODULE Evaluation_proofs --------------------------
(***************************************************************************)
(* An evaluation uses the adapter as PromAdapter specifies, so that what   *)
(* PromAdapter_proofs establishes holds under it.  For any policy, any     *)
(* metrics, any number of rivals and however often the metrics move: each  *)
(* burn rate it returns is one of metrics that were there, empty windows   *)
(* and old ones are flagged, a result under steady metrics is exactly      *)
(* theirs, and the decision on it is the policy's as far as the sums are   *)
(* numbers; a call takes finitely many steps.                              *)
(***************************************************************************)
EXTENDS Evaluation, PromAdapter_proofs, WellFoundedInduction

----------------------------------------------------------------------------

LEMMA StepIsAdapterStep == [Next]_vars => [AdapterNext]_adapterVars
<1>. SUFFICES ASSUME [Next]_vars PROVE [AdapterNext]_adapterVars
  OBVIOUS
<1>. USE EvaluationAssumption
<1>1. CASE MetricsMove \/ EvaluationStarts \/ AsksFixture
  BY <1>1 DEF MetricsMove, EvaluationStarts, AsksFixture
<1>2. CASE AsksPrometheus \/ QueryExpires \/ QueryAnswered
  BY <1>2 DEF AsksPrometheus, QueryExpires, QueryAnswered, AdapterNext
<1>3. CASE QueryProceeds \/ AttemptOfSelfFails
  BY <1>3 DEF QueryProceeds, AttemptOfSelfFails, AdapterNext
<1>4. CASE \E g \in Goroutines \ {Self} : Rival(g)
  BY <1>4 DEF Rival, AdapterNext
<1>5. CASE UNCHANGED vars
  BY <1>5 DEF vars
<1>. QED BY <1>1, <1>2, <1>3, <1>4, <1>5 DEF Next

\* The evaluation and its rivals drive the adapter within its specification.
THEOREM EvaluationImplementsAdapter == Spec => AdapterSpec
<1>1. Init => AdapterInit
  BY DEF Init
<1>. QED BY <1>1, StepIsAdapterStep, PTL DEF Spec, AdapterSpec

\* So no permit is lost under them (adapter.go:63-68), however many they are.
THEOREM EvaluationConservesPermits == Spec => []PermitsConserved
BY EvaluationImplementsAdapter, PermitsAreConserved, PTL

----------------------------------------------------------------------------
(* The sum of the series is a fold over a sequence.  What holds of it for  *)
(* every answer is shown by induction: of the sets of positions whose sum  *)
(* is not as claimed there would be a least one.                           *)

\* The recursion that ScalarValue's fold is: g has the sum of every set of positions.
SumsOver(g, answer, S) ==
  g = [s \in SUBSET S |->
         IF s = {} THEN 0
         ELSE Plus(answer[CHOOSE x \in s : TRUE].value, g[s \ {CHOOSE x \in s : TRUE}])]
LEMMA Unfold ==
  ASSUME NEW answer
  PROVE ScalarValue(answer) = (CHOOSE g : SumsOver(g, answer, DOMAIN answer))[DOMAIN answer]
BY Zenon DEF ScalarValue, FoldSeq, FoldFunction, FoldFunctionOnSet, MapThenFoldSet, SumsOver

\* The induction: a set of subsets of a finite set has a least one.
LEMMA SubsetMin ==
  ASSUME NEW S, IsFiniteSet(S), NEW B \in SUBSET SUBSET S, B # {}
  PROVE  \E T \in B : \A U \in B : ~(U \subseteq T /\ U # T)
<1>1. IsWellFoundedOn(StrictSubsetOrdering(S), SUBSET S)
  BY FS_StrictSubsetOrderingWellFounded, FS_FiniteSubsetsOfFinite
<1>2. \E T \in B : \A U \in B : <<U, T>> \notin StrictSubsetOrdering(S)
  BY <1>1, WFMin
<1> QED
  BY <1>2 DEF StrictSubsetOrdering

\* Two sums agree wherever both are defined.
LEMMA SumIsUnique ==
  ASSUME NEW answer, NEW S, IsFiniteSet(S), NEW g, SumsOver(g, answer, S),
         NEW T \in SUBSET S, NEW h, SumsOver(h, answer, T)
  PROVE  \A s \in SUBSET T : g[s] = h[s]
<1>. DEFINE B == {s \in SUBSET T : g[s] # h[s]}
<1>1. SUFFICES ASSUME B # {} PROVE FALSE
  OBVIOUS
<1>2. PICK s \in B : \A u \in B : ~(u \subseteq s /\ u # s)
  <2>1. B \in SUBSET SUBSET S
    OBVIOUS
  <2>. HIDE DEF B
  <2>. QED BY <1>1, <2>1, SubsetMin
<1>3. PICK x : x = CHOOSE y \in s : TRUE
  OBVIOUS
<1>4. CASE s = {}
  BY <1>4 DEF SumsOver
<1>5. CASE s # {}
  <2>1. x \in s
    BY <1>3, <1>5
  <2>2. g[s \ {x}] = h[s \ {x}]
    BY <1>2, <2>1
  <2>. HIDE DEF B
  <2>3. s \in SUBSET S /\ s \in SUBSET T
    BY DEF B
  <2>4. g[s] = Plus(answer[x].value, g[s \ {x}])
    <3>1. \A u \in SUBSET S : u # {} =>
            g[u] = Plus(answer[CHOOSE y \in u : TRUE].value, g[u \ {CHOOSE y \in u : TRUE}])
      BY DEF SumsOver
    <3>. QED BY <1>3, <1>5, <2>3, <3>1
  <2>5. h[s] = Plus(answer[x].value, h[s \ {x}])
    <3>1. \A u \in SUBSET T : u # {} =>
            h[u] = Plus(answer[CHOOSE y \in u : TRUE].value, h[u \ {CHOOSE y \in u : TRUE}])
      BY DEF SumsOver
    <3>. QED BY <1>3, <1>5, <2>3, <3>1
  <2>6. g[s] # h[s]
    BY DEF B
  <2>. QED BY <2>2, <2>4, <2>5, <2>6
<1>. QED BY <1>4, <1>5

\* There is one: a smallest set without could be summed from those below it.
LEMMA SumExists ==
  ASSUME NEW answer, NEW S, IsFiniteSet(S)
  PROVE  \E g : SumsOver(g, answer, S)
<1>. DEFINE B == {T \in SUBSET S : ~\E g : SumsOver(g, answer, T)}
            Sum(T) == (CHOOSE g : SumsOver(g, answer, T))[T]
            Least(s) == CHOOSE x \in s : TRUE
<1>1. SUFFICES ASSUME B # {} PROVE FALSE
  OBVIOUS
<1>2. PICK T \in B : \A U \in B : ~(U \subseteq T /\ U # T)
  <2>1. B \in SUBSET SUBSET S
    OBVIOUS
  <2>. HIDE DEF B
  <2>. QED BY <1>1, <2>1, SubsetMin
<1>. DEFINE g == [s \in SUBSET T |->
                    IF s = {} THEN 0
                    ELSE Plus(answer[Least(s)].value, Sum(s \ {Least(s)}))]
<1>3. ASSUME NEW u \in SUBSET T, u # T
      PROVE  g[u] = Sum(u)
  <2>1. PICK h : h = CHOOSE f : SumsOver(f, answer, u)
    OBVIOUS
  <2>2. SumsOver(h, answer, u)
    BY <1>2, <1>3, <2>1
  <2>3. Sum(u) = h[u]
    BY <2>1
  <2>4. CASE u = {}
    BY <2>2, <2>3, <2>4 DEF SumsOver
  <2>5. CASE u # {}
    <3>1. PICK x : x = Least(u)
      OBVIOUS
    <3>2. x \in u
      BY <2>5, <3>1
    <3>3. PICK k : k = CHOOSE f : SumsOver(f, answer, u \ {x})
      OBVIOUS
    <3>4. SumsOver(k, answer, u \ {x})
      BY <1>2, <1>3, <3>2, <3>3
    <3>5. IsFiniteSet(u)
      BY FS_Subset
    <3>6. h[u \ {x}] = k[u \ {x}]
      BY <2>2, <3>4, <3>5, SumIsUnique
    <3>7. h[u] = Plus(answer[x].value, h[u \ {x}])
      BY <2>2, <2>5, <3>1 DEF SumsOver
    <3>8. g[u] = Plus(answer[x].value, k[u \ {x}])
      BY <2>5, <3>1, <3>3
    <3>. QED BY <2>3, <3>6, <3>7, <3>8
  <2>. QED BY <2>4, <2>5
<1>4. \A s \in SUBSET T : s # {} => Sum(s \ {Least(s)}) = g[s \ {Least(s)}]
  <2>1. SUFFICES ASSUME NEW s \in SUBSET T, s # {}
                 PROVE  Sum(s \ {Least(s)}) = g[s \ {Least(s)}]
    OBVIOUS
  <2>2. Least(s) \in s
    BY <2>1
  <2>3. s \ {Least(s)} \in SUBSET T /\ s \ {Least(s)} # T
    BY <2>2
  <2>. HIDE DEF g, Sum, Least
  <2>. QED BY <1>3, <2>3
<1>5. SumsOver(g, answer, T)
  <2>1. ASSUME NEW s \in SUBSET T
        PROVE  g[s] = IF s = {} THEN 0
                      ELSE Plus(answer[CHOOSE x \in s : TRUE].value,
                                g[s \ {CHOOSE x \in s : TRUE}])
    <3>1. CASE s = {}
      BY <3>1
    <3>2. CASE s # {}
      <4>1. g[s] = Plus(answer[Least(s)].value, Sum(s \ {Least(s)}))
        <5>. HIDE DEF Sum, Least
        <5>. QED BY <3>2
      <4>2. g[s] = Plus(answer[Least(s)].value, g[s \ {Least(s)}])
        <5>. HIDE DEF g, Sum, Least
        <5>. QED BY <1>4, <3>2, <4>1
      <4>. HIDE DEF g
      <4>. QED BY <3>2, <4>2
    <3>. QED BY <3>1, <3>2
  <2>2. g = [s \in SUBSET T |-> g[s]]
    <3>. HIDE DEF Sum, Least
    <3>. QED OBVIOUS
  <2>. HIDE DEF g
  <2>. QED BY <2>1, <2>2 DEF SumsOver
<1>. QED BY <1>2, <1>5

LEMMA SumType ==
  ASSUME NEW answer, NEW S, IsFiniteSet(S), \A i \in S : answer[i].value \in Values,
         NEW g, SumsOver(g, answer, S)
  PROVE  g[S] \in Values
<1>. DEFINE B == {s \in SUBSET S : g[s] \notin Values}
<1>1. SUFFICES ASSUME B # {} PROVE FALSE
  OBVIOUS
<1>2. PICK s \in B : \A u \in B : ~(u \subseteq s /\ u # s)
  <2>1. B \in SUBSET SUBSET S
    OBVIOUS
  <2>. HIDE DEF B
  <2>. QED BY <1>1, <2>1, SubsetMin
<1>3. PICK x : x = CHOOSE y \in s : TRUE
  OBVIOUS
<1>4. CASE s = {}
  BY <1>2, <1>4 DEF SumsOver, Values
<1>5. CASE s # {}
  <2>1. x \in s
    BY <1>3, <1>5
  <2>2. g[s \ {x}] \in Values
    BY <1>2, <2>1
  <2>3. g[s] = Plus(answer[x].value, g[s \ {x}])
    BY <1>3, <1>5 DEF SumsOver
  <2>4. answer[x].value \in Values
    BY <2>1
  <2>. QED BY <1>2, <2>2, <2>3, <2>4 DEF Plus, Values
<1>. QED BY <1>4, <1>5

\* extractScalarValue returns a float64, for any result (adapter.go:153-164).
LEMMA ScalarType ==
  ASSUME NEW answer \in Seq(Samples)
  PROVE  ScalarValue(answer) \in Values
<1>1. IsFiniteSet(DOMAIN answer)
  <2>1. DOMAIN answer = 1 .. Len(answer) /\ Len(answer) \in Nat
    OBVIOUS
  <2>. QED BY <2>1, FS_Interval
<1>2. \E g : SumsOver(g, answer, DOMAIN answer)
  BY <1>1, SumExists
<1>3. PICK g : g = CHOOSE f : SumsOver(f, answer, DOMAIN answer)
  OBVIOUS
<1>4. SumsOver(g, answer, DOMAIN answer) /\ ScalarValue(answer) = g[DOMAIN answer]
  BY <1>2, <1>3, Unfold
<1>5. \A i \in DOMAIN answer : answer[i].value \in Values
  <2>1. \A i \in DOMAIN answer : answer[i] \in Samples
    OBVIOUS
  <2>. QED BY <2>1 DEF Samples
<1>. QED BY <1>1, <1>4, <1>5, SumType

\* The sum over no series is 0 (adapter.go:154-156).
LEMMA ScalarOfNothing == ScalarValue(<<>>) = 0
<1>1. DOMAIN <<>> = {}
  OBVIOUS
<1>2. \E g : SumsOver(g, <<>>, {})
  BY SumExists, FS_EmptySet
<1>3. PICK g : g = CHOOSE f : SumsOver(f, <<>>, {})
  OBVIOUS
<1>4. SumsOver(g, <<>>, {}) /\ ScalarValue(<<>>) = g[{}]
  BY <1>1, <1>2, <1>3, Unfold
<1>5. g[{}] = IF {} = {} THEN 0
             ELSE Plus(<<>>[CHOOSE x \in {} : TRUE].value, g[{} \ {CHOOSE x \in {} : TRUE}])
  BY <1>4 DEF SumsOver
<1>. QED BY <1>4, <1>5

LEMMA FiniteHasLeast ==
  ASSUME NEW S, IsFiniteSet(S)
  PROVE  S \subseteq Int /\ S # {} => \E x \in S : \A y \in S : x <= y
<1>. DEFINE HasLeast(T) == \E x \in T : \A y \in T : x <= y
            B == {T \in SUBSET S : T # {} /\ ~HasLeast(T)}
<1>1. ASSUME B # {}
      PROVE  \E T \in B : \A U \in B : ~(U \subseteq T /\ U # T)
  <2>1. B \in SUBSET SUBSET S
    OBVIOUS
  <2>. HIDE DEF B
  <2>. QED BY <1>1, <2>1, SubsetMin
<1>. SUFFICES ASSUME S \subseteq Int, B # {} PROVE FALSE
  OBVIOUS
<1>2. PICK T \in B : \A U \in B : ~(U \subseteq T /\ U # T)
  BY <1>1
<1>3. T \in SUBSET Int /\ T \in SUBSET S /\ ~HasLeast(T)
  OBVIOUS
<1>4. PICK x \in T : TRUE
  OBVIOUS
<1>5. T \ {x} \notin B
  <2>1. T \ {x} \subseteq T /\ T \ {x} # T
    BY <1>4
  <2>. HIDE DEF B
  <2>. QED BY <1>2, <2>1
<1>6. CASE T \ {x} = {}
  <2>1. T = {x}
    BY <1>4, <1>6
  <2>2. x <= x
    BY <1>3
  <2>. QED BY <1>3, <2>1, <2>2
<1>7. CASE HasLeast(T \ {x})
  <2>1. PICK i \in T \ {x} : \A j \in T \ {x} : i <= j
    BY <1>7
  <2>. HIDE DEF B
  <2>2. CASE x <= i
    BY <1>3, <2>1, <2>2
  <2>3. CASE i <= x
    BY <1>3, <2>1, <2>3
  <2>. QED BY <1>3, <2>2, <2>3
<1>. QED BY <1>3, <1>5, <1>6, <1>7

\* extractTimestamp returns a timestamp of the result, and none is newer
\* (adapter.go:167-185).
LEMMA TimestampIsNewest ==
  ASSUME NEW answer \in Seq(Samples), answer # <<>>
  PROVE  /\ Timestamp(answer) \in Ages(answer)
         /\ \A age \in Ages(answer) : Timestamp(answer) <= age
<1>1. Ages(answer) \in SUBSET Int
  <2>1. \A i \in DOMAIN answer : answer[i] \in Samples
    OBVIOUS
  <2>. QED BY <2>1 DEF Samples, Ages
<1>2. Ages(answer) # {}
  <2>1. 1 \in DOMAIN answer
    OBVIOUS
  <2>. QED BY <2>1 DEF Ages
<1>3. IsFiniteSet(Ages(answer))
  <2>1. DOMAIN answer = 1 .. Len(answer) /\ Len(answer) \in Nat
    OBVIOUS
  <2>. DEFINE f == [i \in DOMAIN answer |-> answer[i].age]
  <2>2. IsFiniteSet(DOMAIN answer)
    BY <2>1, FS_Interval
  <2>3. f \in Surjection(DOMAIN answer, Ages(answer))
    BY Zenon DEF Surjection, Ages
  <2>. QED BY <2>2, <2>3, FS_Surjection
<1>4. \E x \in Ages(answer) : \A y \in Ages(answer) : x <= y
  BY <1>1, <1>2, <1>3, FiniteHasLeast
<1>. QED BY <1>4 DEF Timestamp
----------------------------------------------------------------------------
(* What the model's operators return.                                      *)

LEMMA CollectedWindows == Compliance \in Collected /\ Collected \subseteq Windows
BY EvaluatorAssumption DEF Collected

LEMMA MeasureType ==
  ASSUME NEW answer \in Seq(Samples)
  PROVE  Measure(answer) \in WindowMetrics
<1>1. Timestamp(answer) \in Int \cup {NoTime}
  <2>1. \A i \in DOMAIN answer : answer[i] \in Samples
    OBVIOUS
  <2>2. Ages(answer) \subseteq Int
    BY <2>1 DEF Ages, Samples
  <2>3. CASE answer = <<>>
    BY <2>3 DEF Timestamp
  <2>4. CASE answer # <<>>
    BY <2>2, <2>4, TimestampIsNewest
  <2>. QED BY <2>3, <2>4
<1>. QED BY <1>1, ScalarType DEF Measure, WindowMetrics

LEMMA CombineMeasures ==
  ASSUME NEW x, NEW y
  PROVE  LET m == Combine(Measure(x), Measure(y))
         IN  /\ m.good = ScalarValue(x) /\ m.total = ScalarValue(y)
             /\ m.age = NewerOf(Timestamp(x), Timestamp(y))
BY DEF Combine, Measure

LEMMA CombineType ==
  ASSUME NEW x \in WindowMetrics, NEW y \in WindowMetrics
  PROVE  Combine(x, y) \in WindowMetrics
BY DEF Combine, WindowMetrics, NewerOf

LEMMA ErrorRateType ==
  ASSUME NEW good \in Values, NEW total \in Values
  PROVE  /\ ErrorRate(good, total) \in Floats
         /\ IsNumber(ErrorRate(good, total)) => ErrorRate(good, total).num \in Nat
<1>. USE NaNAssumption DEF Values, Floats, Ratios, Over, Zero, IsNumber
<1>1. CASE good \in Int /\ total \in Int /\ total > 0 /\ ~(good > total)
  <2>1. total - good \in Nat /\ total \in Nat \ {0}
    BY <1>1
  <2>. QED BY <1>1, <2>1 DEF ErrorRate
<1>2. CASE ~(good \in Int /\ total \in Int /\ total > 0 /\ ~(good > total))
  BY <1>2 DEF ErrorRate
<1>. QED BY <1>1, <1>2

LEMMA BurnRateType ==
  ASSUME NEW errorRate \in Floats
  PROVE  /\ BurnRate(errorRate) \in Floats
         /\ IsNumber(errorRate) => BurnRate(errorRate) \in Ratios
<1>. USE NaNAssumption, EvaluatorAssumption DEF Floats, Ratios, Over, Zero, IsNumber
<1>1. CASE errorRate \in Ratios /\ ErrorBudget > 0
  <2>1. errorRate.num * Objective.den \in Int /\ errorRate.den * ErrorBudget \in Nat \ {0}
    BY <1>1 DEF ErrorBudget
  <2>. QED BY <1>1, <2>1 DEF BurnRate, ErrorBudget
<1>2. CASE errorRate = NotANumber \/ ~(ErrorBudget > 0)
  BY <1>2 DEF BurnRate, ErrorBudget
<1>. QED BY <1>1, <1>2

LEMMA BudgetType ==
  ASSUME NEW errorRate \in Floats
  PROVE  BudgetRemaining(errorRate) \in Floats
<1>. USE NaNAssumption DEF Floats, Ratios, Over, Zero, IsNumber
<1>1. CASE errorRate \in Ratios /\ ErrorBudget > 0
  <2>. DEFINE consumed == BurnRate(IF errorRate.num < 0 THEN Zero ELSE errorRate)
  <2>1. consumed \in Ratios
    <3>1. (IF errorRate.num < 0 THEN Zero ELSE errorRate) \in Floats \ {NotANumber}
      BY <1>1
    <3>. QED BY <3>1, BurnRateType
  <2>. HIDE DEF consumed
  <2>2. BudgetRemaining(errorRate) = IF consumed.num > consumed.den THEN Zero
                                     ELSE IF consumed.num < 0 THEN Over(1, 1)
                                     ELSE Over(consumed.den - consumed.num, consumed.den)
    <3>1. ~(ErrorBudget <= 0) /\ IsNumber(errorRate)
      BY <1>1, EvaluatorAssumption DEF ErrorBudget
    <3>. QED BY <3>1 DEF BudgetRemaining, consumed
  <2>. QED BY <2>1, <2>2
<1>2. CASE errorRate = NotANumber \/ ~(ErrorBudget > 0)
  BY <1>2, EvaluatorAssumption DEF BudgetRemaining, ErrorBudget
<1>. QED BY <1>1, <1>2

\* Evaluate returns an EvaluationResult, NaN among its numbers or not
\* (evaluator.go:100-131).
LEMMA EvaluationType ==
  ASSUME NEW measured, \A w \in Collected : measured[w] \in WindowMetrics,
         NEW isStale \in BOOLEAN
  PROVE  Evaluation(measured, isStale) \in Results
<1>. DEFINE errorRate(w) == ErrorRate(measured[w].good, measured[w].total)
<1>1. \A w \in Collected : errorRate(w) \in Floats
  <2>1. \A w \in Collected : measured[w].good \in Values /\ measured[w].total \in Values
    BY DEF WindowMetrics
  <2>. QED BY <2>1, ErrorRateType
<1>2. \A w \in Collected : BurnRate(errorRate(w)) \in Floats
  <2>. HIDE DEF errorRate
  <2>. QED BY <1>1, BurnRateType
<1>3. BudgetRemaining(errorRate(Compliance)) \in Floats
  <2>. HIDE DEF errorRate
  <2>. QED BY <1>1, BudgetType, CollectedWindows
<1>. QED BY <1>2, <1>3 DEF Evaluation, Results

\* An answer that a query gets.
LEMMA AnswerType ==
  ASSUME NEW m \in Snapshots, NEW w \in Collected
  PROVE  m[w].good \in Seq(Samples) /\ m[w].total \in Seq(Samples)
<1>1. m[w] \in [good : Seq(Samples), total : Seq(Samples)]
  BY EvaluationAssumption, CollectedWindows
<1>. QED BY <1>1

LEMMA AgesType ==
  ASSUME NEW answer \in Seq(Samples)
  PROVE  Ages(answer) \subseteq Int /\ (Ages(answer) = {} <=> answer = <<>>)
<1>1. \A i \in DOMAIN answer : answer[i] \in Samples
  OBVIOUS
<1>2. answer # <<>> => 1 \in DOMAIN answer
  OBVIOUS
<1>3. answer = <<>> => DOMAIN answer = {}
  OBVIOUS
<1>. QED BY <1>1, <1>2, <1>3 DEF Ages, Samples

\* The timestamp kept of a window is the newest of both its answers, and there is
\* none only if neither has a series (evaluator.go:69-82).
LEMMA NewestOfBoth ==
  ASSUME NEW x \in Seq(Samples), NEW y \in Seq(Samples),
         NEW age, age = NewerOf(Timestamp(x), Timestamp(y))
  PROVE  \/ age = NoTime /\ x = <<>> /\ y = <<>>
         \/ /\ age \in Ages(x) \cup Ages(y) /\ age \in Int
            /\ \A other \in Ages(x) \cup Ages(y) : age <= other
<1>1. Ages(x) \subseteq Int /\ Ages(y) \subseteq Int
  BY AgesType
<1>2. CASE x = <<>> /\ y = <<>>
  BY <1>2 DEF Timestamp, NewerOf
<1>3. CASE x = <<>> /\ y # <<>>
  <2>1. Timestamp(x) = NoTime /\ Ages(x) = {}
    BY <1>3, AgesType DEF Timestamp
  <2>2. Timestamp(y) \in Ages(y) /\ \A other \in Ages(y) : Timestamp(y) <= other
    BY <1>3, TimestampIsNewest
  <2>. QED BY <1>1, <2>1, <2>2 DEF NewerOf
<1>4. CASE x # <<>> /\ y = <<>>
  <2>1. Timestamp(y) = NoTime /\ Ages(y) = {}
    BY <1>4, AgesType DEF Timestamp
  <2>2. Timestamp(x) \in Ages(x) /\ \A other \in Ages(x) : Timestamp(x) <= other
    BY <1>4, TimestampIsNewest
  <2>3. Timestamp(x) # NoTime
    BY <1>1, <2>2, NoTimeAssumption
  <2>. QED BY <1>1, <2>1, <2>2, <2>3 DEF NewerOf
<1>5. CASE x # <<>> /\ y # <<>>
  <2>1. Timestamp(x) \in Ages(x) /\ \A other \in Ages(x) : Timestamp(x) <= other
    BY <1>5, TimestampIsNewest
  <2>2. Timestamp(y) \in Ages(y) /\ \A other \in Ages(y) : Timestamp(y) <= other
    BY <1>5, TimestampIsNewest
  <2>3. Timestamp(x) # NoTime /\ Timestamp(y) # NoTime
    BY <1>1, <2>1, <2>2, NoTimeAssumption
  <2>. QED BY <1>1, <2>1, <2>2, <2>3 DEF NewerOf
<1>. QED BY <1>2, <1>3, <1>4, <1>5

----------------------------------------------------------------------------
(* Exact arithmetic.                                                       *)

\* What Burning says, of the two sums.
Burns(good, total, threshold) ==
  /\ IsNumber(good) /\ IsNumber(total) /\ total > 0
  /\ (total - good) * Objective.den * threshold.den >=
       threshold.num * (Objective.den - Objective.num) * total

\* The burn rate of sli.go reaches a threshold exactly when the bad events do, through
\* its guards, its clamps and NaN (sli.go:7-46).
LEMMA RateIsExact ==
  ASSUME NEW good \in Values, NEW total \in Values, Objective.num < Objective.den,
         NEW threshold \in Ratios, threshold.num > 0
  PROVE  AtLeast(BurnRate(ErrorRate(good, total)), threshold) <=> Burns(good, total, threshold)
<1>. DEFINE rate == BurnRate(ErrorRate(good, total))
            goal == AtLeast(rate, threshold) <=> Burns(good, total, threshold)
<1>1. /\ Objective.den \in Nat \ {0} /\ Objective.num \in Nat
      /\ ErrorBudget \in Nat \ {0} /\ ErrorBudget = Objective.den - Objective.num
      /\ ~(ErrorBudget <= 0)
  BY EvaluatorAssumption DEF Ratios, ErrorBudget
<1>2. threshold.num \in Nat \ {0} /\ threshold.den \in Nat \ {0}
  BY DEF Ratios
<1>3. NotANumber \notin Int /\ NotANumber \notin Ratios
  BY NaNAssumption
<1>. HIDE DEF ErrorBudget
<1>4. ASSUME ErrorRate(good, total) = NotANumber, ~Burns(good, total, threshold) PROVE goal
  <2>1. rate = NotANumber
    BY <1>1, <1>4 DEF BurnRate, IsNumber
  <2>. QED BY <1>4, <2>1 DEF AtLeast, IsNumber
<1>5. ASSUME ErrorRate(good, total) = Zero, ~Burns(good, total, threshold) PROVE goal
  <2>1. Zero # NotANumber
    BY <1>3 DEF Zero, Over, Ratios
  <2>2. rate.num = 0 /\ rate.den = ErrorBudget
    BY <1>1, <1>5, <2>1 DEF BurnRate, IsNumber, Zero, Over
  <2>3. ~NoLess(rate, threshold)
    <3>1. 0 * threshold.den = 0 /\ threshold.num * ErrorBudget > 0
      BY <1>1, <1>2
    <3>. QED BY <1>1, <1>2, <2>2, <3>1 DEF NoLess
  <2>. QED BY <1>5, <2>3 DEF AtLeast
<1>6. CASE good = NotANumber \/ total = NotANumber
  <2>1. ~Burns(good, total, threshold)
    BY <1>6 DEF Burns, IsNumber
  <2>2. ErrorRate(good, total) = Zero \/ ErrorRate(good, total) = NotANumber
    BY <1>6 DEF ErrorRate, IsNumber
  <2>. QED BY <1>4, <1>5, <2>1, <2>2
<1>7. CASE good \in Int /\ total \in Int /\ ~(total > 0)
  <2>1. ~Burns(good, total, threshold)
    BY <1>7 DEF Burns
  <2>2. ErrorRate(good, total) = Zero
    BY <1>3, <1>7 DEF ErrorRate, IsNumber
  <2>. QED BY <1>5, <2>1, <2>2
<1>8. CASE good \in Int /\ total \in Int /\ total > 0 /\ good > total
  <2>1. ErrorRate(good, total) = Zero
    BY <1>3, <1>8 DEF ErrorRate, IsNumber
  <2>2. (total - good) * Objective.den * threshold.den < 0
    <3>1. Objective.den * threshold.den \in Nat \ {0}
      BY <1>1, <1>2
    <3>2. (total - good) * (Objective.den * threshold.den) < 0
      BY <1>8, <3>1
    <3>. QED BY <1>1, <1>2, <1>8, <3>2
  <2>3. threshold.num * ErrorBudget * total >= 0
    <3>1. threshold.num * ErrorBudget \in Nat
      BY <1>1, <1>2
    <3>. QED BY <1>8, <3>1
  <2>4. ~Burns(good, total, threshold)
    <3>1. /\ threshold.num * ErrorBudget * total \in Int
          /\ (total - good) * Objective.den * threshold.den \in Int
      BY <1>1, <1>2, <1>8
    <3>. QED BY <1>1, <2>2, <2>3, <3>1 DEF Burns
  <2>. QED BY <1>5, <2>1, <2>4
<1>9. CASE good \in Int /\ total \in Int /\ total > 0 /\ ~(good > total)
  <2>1. ErrorRate(good, total) = Over(total - good, total)
    BY <1>3, <1>9 DEF ErrorRate, IsNumber
  <2>2. Over(total - good, total) # NotANumber
    <3>1. total - good \in Int /\ total \in Nat \ {0}
      BY <1>9
    <3>. QED BY <1>3, <3>1 DEF Over, Ratios
  <2>3. rate = Over((total - good) * Objective.den, total * ErrorBudget)
    BY <1>1, <2>1, <2>2 DEF BurnRate, IsNumber, Over
  <2>4. rate # NotANumber
    <3>1. (total - good) * Objective.den \in Int /\ total * ErrorBudget \in Nat \ {0}
      BY <1>1, <1>9
    <3>. QED BY <1>3, <2>3, <3>1 DEF Over, Ratios
  <2>5. AtLeast(rate, threshold) <=>
          (total - good) * Objective.den * threshold.den >= threshold.num * (total * ErrorBudget)
    BY <2>3, <2>4 DEF AtLeast, IsNumber, NoLess, Over
  <2>6. threshold.num * (total * ErrorBudget) = threshold.num * ErrorBudget * total
    BY <1>1, <1>2, <1>9
  <2>. QED BY <1>1, <1>3, <1>9, <2>5, <2>6 DEF Burns, IsNumber
<1>. QED BY <1>6, <1>7, <1>8, <1>9 DEF Values

\* The budget is exhausted exactly when the burn rate reaches 1, and is a share
\* otherwise (sli.go:50-67).
LEMMA BudgetIsExact ==
  ASSUME NEW errorRate \in Floats, IsNumber(errorRate) => errorRate.num \in Nat,
         Objective.num < Objective.den
  PROVE  LET budget == BudgetRemaining(errorRate)
         IN  /\ IsNumber(budget) => budget.num \in 0 .. budget.den
             /\ IsNumber(budget) /\ budget.num = 0 <=> AtLeast(BurnRate(errorRate), Over(1, 1))
<1>. DEFINE rate == BurnRate(errorRate)
            budget == BudgetRemaining(errorRate)
<1>1. ErrorBudget \in Nat \ {0} /\ ~(ErrorBudget <= 0) /\ Objective.den \in Nat \ {0}
  BY EvaluatorAssumption DEF Ratios, ErrorBudget
<1>. HIDE DEF ErrorBudget
<1>2. CASE ~IsNumber(errorRate)
  BY <1>1, <1>2 DEF BudgetRemaining, BurnRate, AtLeast, IsNumber
<1>3. CASE IsNumber(errorRate)
  <2>1. errorRate.num \in Nat /\ errorRate.den \in Nat \ {0}
    BY <1>3 DEF Floats, Ratios, IsNumber
  <2>2. rate = Over(errorRate.num * Objective.den, errorRate.den * ErrorBudget)
    BY <1>1, <1>3 DEF BurnRate
  <2>3. rate \in Ratios /\ rate.num \in Nat /\ rate.den \in Nat \ {0}
    <3>1. errorRate.num * Objective.den \in Nat /\ errorRate.den * ErrorBudget \in Nat \ {0}
      BY <1>1, <2>1
    <3>. QED BY <2>2, <3>1 DEF Over, Ratios
  <2>4. budget = IF rate.num > rate.den THEN Zero
                 ELSE IF rate.num < 0 THEN Over(1, 1)
                 ELSE Over(rate.den - rate.num, rate.den)
    <3>1. ~(errorRate.num < 0)
      BY <2>1
    <3>. QED BY <1>1, <1>3, <3>1 DEF BudgetRemaining
  <2>. HIDE DEF rate, budget
  <2>5. /\ budget \in Ratios /\ budget.num \in 0 .. budget.den
        /\ budget.num = 0 <=> rate.num >= rate.den
    BY <2>3, <2>4 DEF Zero, Over, Ratios
  <2>6. IsNumber(budget) /\ IsNumber(rate)
    BY <2>3, <2>5, NaNAssumption DEF IsNumber
  <2>7. NoLess(rate, Over(1, 1)) <=> rate.num >= rate.den
    BY <2>3 DEF NoLess, Over
  <2>. QED BY <2>5, <2>6, <2>7 DEF AtLeast, rate, budget
<1>. QED BY <1>2, <1>3

----------------------------------------------------------------------------
(* The inductive invariant behind what a result says: every measurement in *)
(* hand is of metrics of the call, and in the right order.                 *)

\* m is a measurement of w: its total is of the instant of its good or a later one.
WasMeasured(m, w) ==
  \E i, j \in DOMAIN past :
    i <= j /\ m = Combine(Measure(past[i][w].good), Measure(past[j][w].total))

PastEndsNow == past \in Seq(Snapshots) /\ past # <<>> /\ past[Len(past)] = metrics

WindowsInOrder ==
  /\ todo \subseteq Collected
  /\ DOMAIN windowMetrics = Collected
  /\ Asking => asking \in Collected \ todo

\* The windows a call under way has measured.
Done == Collected \ (todo \cup {asking})

MeasurementsWereReal ==
  Asking /\ adapter = "prometheus" =>
    /\ pc = "total" => \E i \in DOMAIN past : goodMetrics = Measure(past[i][asking].good)
    /\ \A w \in Done : WasMeasured(windowMetrics[w], w)

StaleSoFar ==
  stale <=> Asking /\ \E w \in Done : IsStale(windowMetrics[w].age)

\* The result is what the evaluation makes of a measurement per window.
IsOf(measured) ==
  /\ \A w \in Collected : WasMeasured(measured[w], w)
  /\ result = Evaluation(measured, \E w \in Collected : IsStale(measured[w].age))

ResultIsOfMeasurements ==
  pc = "returned" /\ adapter = "prometheus" => \E measured : IsOf(measured)

RealInv ==
  /\ PastEndsNow /\ WindowsInOrder /\ MeasurementsWereReal
  /\ StaleSoFar /\ ResultIsOfMeasurements

LEMMA RealInvInit == Init => RealInv
<1>. SUFFICES ASSUME Init PROVE RealInv
  OBVIOUS
<1>1. pc = "idle" /\ todo = {} /\ windowMetrics = NothingMeasured /\ stale = FALSE
      /\ metrics \in Snapshots /\ past = <<metrics>>
  BY DEF Init, EvaluatorInit
<1>2. PastEndsNow
  BY <1>1 DEF PastEndsNow
<1>3. WindowsInOrder
  BY <1>1 DEF WindowsInOrder, NothingMeasured, Asking
<1>4. StaleSoFar
  BY <1>1 DEF StaleSoFar, Asking
<1>. QED
  BY <1>1, <1>2, <1>3, <1>4 DEF RealInv, MeasurementsWereReal, ResultIsOfMeasurements, Asking

\* A step that leaves the call alone.
LEMMA RealInvFrame == RealInv /\ UNCHANGED <<evaluatorVars, envVars>> => RealInv'
<1>. SUFFICES ASSUME RealInv, UNCHANGED <<evaluatorVars, envVars>> PROVE RealInv'
  OBVIOUS
<1>1. /\ UNCHANGED <<pc, asking, todo, goodMetrics, windowMetrics, stale, result>>
      /\ UNCHANGED <<adapter, metrics, past>>
  BY DEF evaluatorVars, envVars
<1>2. PastEndsNow' /\ WindowsInOrder' /\ StaleSoFar'
  BY <1>1 DEF RealInv, PastEndsNow, WindowsInOrder, StaleSoFar, Done, Asking
<1>3. MeasurementsWereReal'
  BY <1>1 DEF RealInv, MeasurementsWereReal, Done, Asking, WasMeasured
<1>4. ASSUME NEW measured, IsOf(measured) PROVE IsOf(measured)'
  BY <1>1, <1>4 DEF IsOf, WasMeasured
<1>5. ResultIsOfMeasurements'
  BY <1>1, <1>4 DEF RealInv, ResultIsOfMeasurements
<1>. QED BY <1>2, <1>3, <1>5 DEF RealInv

\* The metrics move: what was measured remains measured.
LEMMA RealInvMoves ==
  ASSUME RealInv, MetricsMove
  PROVE  RealInv'
<1>. USE DEF RealInv
<1>1. /\ metrics' \in Snapshots /\ past' = Append(past, metrics')
      /\ UNCHANGED <<evaluatorVars, adapter>> /\ Asking
  BY DEF MetricsMove
<1>2. past \in Seq(Snapshots)
  BY DEF PastEndsNow
<1>3. /\ past' \in Seq(Snapshots) /\ past' # <<>> /\ past'[Len(past')] = metrics'
      /\ DOMAIN past \subseteq DOMAIN past'
      /\ \A i \in DOMAIN past : past'[i] = past[i]
  BY <1>1, <1>2
<1>4. PastEndsNow'
  BY <1>3 DEF PastEndsNow
<1>5. UNCHANGED <<pc, asking, todo, goodMetrics, windowMetrics, stale, result>>
  BY <1>1 DEF evaluatorVars
<1>6. WindowsInOrder' /\ StaleSoFar'
  BY <1>5 DEF WindowsInOrder, StaleSoFar, Done, Asking
<1>7. ASSUME NEW m, NEW w, WasMeasured(m, w) PROVE WasMeasured(m, w)'
  BY <1>3, <1>7 DEF WasMeasured
<1>8. MeasurementsWereReal'
  BY <1>1, <1>3, <1>5, <1>7 DEF MeasurementsWereReal, Done, Asking, WasMeasured
<1>9. ResultIsOfMeasurements'
  BY <1>1, <1>5 DEF ResultIsOfMeasurements, Asking
<1>. QED BY <1>4, <1>6, <1>8, <1>9

LEMMA RealInvStarts ==
  ASSUME RealInv, EvaluationStarts
  PROVE  RealInv'
<1>1. /\ pc' = "good" /\ asking' \in Collected /\ todo' = Collected \ {asking'}
      /\ windowMetrics' = windowMetrics /\ metrics' \in Snapshots /\ past' = <<metrics'>>
      /\ stale' = stale /\ ~Asking
  BY DEF EvaluationStarts, Evaluate, Asking
<1>2. PastEndsNow'
  BY <1>1 DEF PastEndsNow
<1>3. WindowsInOrder'
  BY <1>1 DEF RealInv, WindowsInOrder, Asking
<1>4. Done' = {}
  BY <1>1 DEF Done
<1>5. MeasurementsWereReal'
  BY <1>1, <1>4 DEF MeasurementsWereReal
<1>6. StaleSoFar'
  BY <1>1, <1>4 DEF RealInv, StaleSoFar
<1>. QED BY <1>1, <1>2, <1>3, <1>5, <1>6 DEF RealInv, ResultIsOfMeasurements

\* A call that fails has nothing to show.
LEMMA RealInvFails ==
  ASSUME RealInv, QueryFailed, UNCHANGED envVars
  PROVE  RealInv'
<1>1. /\ pc' = "failed" /\ todo' = {} /\ windowMetrics' = NothingMeasured
      /\ stale' = FALSE /\ metrics' = metrics /\ past' = past
  BY DEF QueryFailed, Ends, envVars
<1>2. WindowsInOrder' /\ StaleSoFar'
  BY <1>1 DEF WindowsInOrder, NothingMeasured, StaleSoFar, Asking
<1>. QED
  BY <1>1, <1>2 DEF RealInv, PastEndsNow, MeasurementsWereReal, ResultIsOfMeasurements, Asking

\* A good query is answered: through Prometheus, with what it has at this instant.
LEMMA RealInvGotGood ==
  ASSUME RealInv, NEW m, GotGood(m), UNCHANGED envVars,
         adapter = "prometheus" => m = Measure(metrics[asking].good)
  PROVE  RealInv'
<1>1. /\ pc = "good" /\ pc' = "total" /\ goodMetrics' = m
      /\ UNCHANGED <<asking, todo, windowMetrics, stale, result, past, metrics, adapter>>
  BY DEF GotGood, envVars
<1>2. PastEndsNow'
  BY <1>1 DEF RealInv, PastEndsNow
<1>3. WindowsInOrder' /\ StaleSoFar'
  BY <1>1 DEF RealInv, WindowsInOrder, StaleSoFar, Done, Asking
<1>4. Len(past) \in DOMAIN past /\ past[Len(past)] = metrics
  BY DEF RealInv, PastEndsNow
<1>5. adapter = "prometheus" => \A w \in Done : WasMeasured(windowMetrics[w], w)
  BY <1>1 DEF RealInv, MeasurementsWereReal, Asking
<1>6. MeasurementsWereReal'
  BY <1>1, <1>4, <1>5 DEF MeasurementsWereReal, Done, WasMeasured
<1>. QED BY <1>1, <1>2, <1>3, <1>6 DEF RealInv, ResultIsOfMeasurements

\* A total query is answered: the window is measured, and the call goes on or
\* returns.
LEMMA RealInvGotTotal ==
  ASSUME RealInv, NEW m, GotTotal(m), UNCHANGED envVars,
         adapter = "prometheus" => m = Measure(metrics[asking].total)
  PROVE  RealInv'
<1>. DEFINE combined == Combine(goodMetrics, m)
            measured == [windowMetrics EXCEPT ![asking] = combined]
            isStale  == stale \/ IsStale(combined.age)
<1>1. pc = "total" /\ UNCHANGED <<past, metrics, adapter>> /\ Asking
  BY DEF GotTotal, envVars, Asking
<1>2. PastEndsNow'
  BY <1>1 DEF RealInv, PastEndsNow
<1>3. asking \in Collected /\ asking \notin todo /\ todo \subseteq Collected
      /\ DOMAIN windowMetrics = Collected
  BY <1>1 DEF RealInv, WindowsInOrder
<1>4. ASSUME adapter = "prometheus" PROVE WasMeasured(combined, asking)
  <2>1. PICK i \in DOMAIN past : goodMetrics = Measure(past[i][asking].good)
    BY <1>1, <1>4 DEF RealInv, MeasurementsWereReal
  <2>2. Len(past) \in DOMAIN past /\ i <= Len(past) /\ past[Len(past)] = metrics
    BY DEF RealInv, PastEndsNow
  <2>. QED BY <1>4, <2>1, <2>2 DEF WasMeasured
<1>5. ASSUME adapter = "prometheus" PROVE \A w \in Collected \ todo : WasMeasured(measured[w], w)
  <2>1. \A w \in Done : WasMeasured(windowMetrics[w], w)
    BY <1>1, <1>5 DEF RealInv, MeasurementsWereReal
  <2>. QED BY <1>3, <1>4, <1>5, <2>1 DEF Done
<1>6. isStale <=> \E w \in Collected \ todo : IsStale(measured[w].age)
  <2>1. stale <=> \E w \in Done : IsStale(windowMetrics[w].age)
    BY <1>1 DEF RealInv, StaleSoFar
  <2>2. measured[asking] = combined /\ \A w \in Done : measured[w] = windowMetrics[w]
    BY <1>3 DEF Done
  <2>3. Collected \ todo = Done \cup {asking}
    BY <1>3 DEF Done
  <2>. HIDE DEF combined, measured
  <2>. QED BY <2>1, <2>2, <2>3
<1>7. CASE todo = {} /\ result' = Evaluation(measured, isStale) /\ Ends("returned")
  <2>1. /\ pc' = "returned" /\ todo' = {} /\ windowMetrics' = NothingMeasured /\ stale' = FALSE
    BY <1>7 DEF Ends
  <2>2. WindowsInOrder' /\ StaleSoFar'
    BY <2>1 DEF WindowsInOrder, NothingMeasured, StaleSoFar, Asking
  <2>3. MeasurementsWereReal'
    BY <2>1 DEF MeasurementsWereReal, Asking
  <2>4. isStale = \E w \in Collected : IsStale(measured[w].age)
    <3>1. isStale \in BOOLEAN
      BY DEF RealInv, StaleSoFar, IsStale
    <3>. HIDE DEF isStale, measured
    <3>. QED BY <1>6, <1>7, <3>1
  <2>5. ASSUME adapter = "prometheus" PROVE \E x : IsOf(x)'
    <3>1. \A w \in Collected : WasMeasured(measured[w], w)
      BY <1>5, <1>7, <2>5
    <3>2. result' = Evaluation(measured, \E w \in Collected : IsStale(measured[w].age))
      BY <1>7, <2>4
    <3>3. PICK x : x = measured
      OBVIOUS
    <3>4. IsOf(x)'
      BY <1>1, <3>1, <3>2, <3>3 DEF IsOf, WasMeasured
    <3>. QED BY <3>4
  <2>6. ResultIsOfMeasurements'
    BY <1>1, <2>5 DEF ResultIsOfMeasurements
  <2>. QED BY <1>2, <2>2, <2>3, <2>6 DEF RealInv
<1>8. CASE /\ pc' = "good" /\ asking' \in todo /\ todo' = todo \ {asking'}
           /\ windowMetrics' = measured /\ stale' = isStale
  <2>1. Done' = Collected \ todo
    BY <1>3, <1>8 DEF Done
  <2>2. WindowsInOrder'
    BY <1>3, <1>8 DEF WindowsInOrder, Asking
  <2>3. StaleSoFar'
    BY <1>6, <1>8, <2>1 DEF StaleSoFar, Asking
  <2>4. MeasurementsWereReal'
    <3>. HIDE DEF measured
    <3>. QED BY <1>1, <1>5, <1>8, <2>1 DEF MeasurementsWereReal, WasMeasured
  <2>. QED BY <1>2, <1>8, <2>2, <2>3, <2>4 DEF RealInv, ResultIsOfMeasurements
<1>. QED BY <1>7, <1>8 DEF GotTotal

LEMMA RealInvStep == RealInv /\ [Next]_vars => RealInv'
<1>. SUFFICES ASSUME RealInv, [Next]_vars PROVE RealInv'
  OBVIOUS
<1>1. CASE MetricsMove \/ EvaluationStarts
  BY <1>1, RealInvMoves, RealInvStarts
<1>2. CASE AsksPrometheus \/ QueryExpires \/ \E g \in Goroutines \ {Self} : Rival(g)
  BY <1>2, RealInvFrame DEF AsksPrometheus, QueryExpires, Rival
<1>3. CASE QueryProceeds \/ AttemptOfSelfFails
  BY <1>3, RealInvFrame, RealInvFails DEF QueryProceeds, AttemptOfSelfFails
<1>4. CASE QueryAnswered
  <2>1. GotGood(Measure(metrics[asking][pc])) => pc = "good"
    BY DEF GotGood
  <2>2. GotTotal(Measure(metrics[asking][pc])) => pc = "total"
    BY DEF GotTotal
  <2>. QED BY <1>4, <2>1, <2>2, RealInvGotGood, RealInvGotTotal DEF QueryAnswered, Got
<1>5. CASE AsksFixture
  <2>1. adapter # "prometheus" /\ UNCHANGED envVars
    BY <1>5 DEF AsksFixture
  <2>. QED BY <1>5, <2>1, RealInvGotGood, RealInvGotTotal, RealInvFails DEF AsksFixture, Got
<1>6. CASE UNCHANGED vars
  BY <1>6, RealInvFrame DEF vars
<1>. QED BY <1>1, <1>2, <1>3, <1>4, <1>5, <1>6 DEF Next

----------------------------------------------------------------------------
(* Type correctness needs both: that no query of Self is open beside a     *)
(* call that is over takes the adapter's invariant, that a window to come  *)
(* is not measured yet takes the order of the windows.                     *)

FixturesTyped ==
  \A name \in DOMAIN fixtures : \A w \in DOMAIN fixtures[name] :
    fixtures[name][w] \in WindowMetrics

NotYetMeasured ==
  \A w \in Collected : ~Asking \/ w \in todo \cup {asking} => windowMetrics[w] = None

\* TypeOK but for the adapter's part.
EvaluatorTypeOK ==
  /\ pc \in {"idle", "good", "total", "returned", "failed"}
  /\ pc = "total" => goodMetrics \in WindowMetrics
  /\ windowMetrics \in [Collected -> WindowMetrics \cup {None}]
  /\ \A w \in Done : Asking => windowMetrics[w] \in WindowMetrics
  /\ stale \in BOOLEAN
  /\ (pc = "returned") = (result # None)

OpenOnlyWhileAsking == phase[Self] # "idle" => Asking /\ adapter = "prometheus"

TypeInv == FixturesTyped /\ NotYetMeasured /\ EvaluatorTypeOK /\ OpenOnlyWhileAsking

EvaluationInv == AdapterInv /\ RealInv /\ TypeInv

LEMMA EvaluationInvIsTyped == EvaluationInv => TypeOK
<1>. SUFFICES ASSUME EvaluationInv PROVE TypeOK
  OBVIOUS
<1>1. AdapterTypeOK
  BY DEF EvaluationInv, AdapterInv
<1>2. WindowsInOrder /\ NotYetMeasured /\ EvaluatorTypeOK /\ OpenOnlyWhileAsking
  BY DEF EvaluationInv, RealInv, TypeInv
<1>3. Asking => asking \in Collected /\ windowMetrics[asking] = None
  BY <1>2 DEF WindowsInOrder, NotYetMeasured
<1>. QED
  BY <1>1, <1>2, <1>3 DEF TypeOK, WindowsInOrder, EvaluatorTypeOK, OpenOnlyWhileAsking

LEMMA TypeInvInit == Init => TypeInv
<1>. SUFFICES ASSUME Init PROVE TypeInv
  OBVIOUS
<1>1. FixturesTyped
  BY EvaluationAssumption DEF Init, FixturesTyped, NoFixtures
<1>2. /\ pc = "idle" /\ windowMetrics = NothingMeasured /\ stale = FALSE /\ result = None
      /\ phase[Self] = "idle"
  BY EvaluationAssumption DEF Init, EvaluatorInit, AdapterInit
<1>3. NotYetMeasured
  BY <1>2 DEF NotYetMeasured, NothingMeasured
<1>4. EvaluatorTypeOK
  BY <1>2 DEF EvaluatorTypeOK, NothingMeasured, Asking
<1>. QED BY <1>1, <1>2, <1>3, <1>4 DEF TypeInv, OpenOnlyWhileAsking

\* What a step of the adapter on one goroutine does to the others: they neither
\* start nor finish a query.
LEMMA OthersGoOn ==
  ASSUME AdapterInv, NEW g \in Goroutines, NEW h \in Goroutines \ {g},
         QueryWindow(g) \/ Expire(g) \/ Proceeds(g) \/ AttemptFails(g) \/ Answered(g)
  PROVE  phase'[h] = "idle" <=> phase[h] = "idle"
<1>1. phase \in [Goroutines -> Phases] /\ waiters \in Seq(Goroutines)
  BY DEF AdapterInv, AdapterTypeOK
<1>2. CASE ReturnsPermit(g)
  BY <1>1, <1>2, HeadWaits DEF ReturnsPermit
<1>3. CASE \E p \in Phases : phase' = [phase EXCEPT ![g] = p]
  BY <1>1, <1>3
<1>4. CASE phase' = phase
  BY <1>4
<1>5. ReturnsPermit(g) \/ (\E p \in Phases : phase' = [phase EXCEPT ![g] = p]) \/ phase' = phase
  BY DEF QueryWindow, Expire, Proceeds, AttemptFails, Answered, AcquireFails, Acquire, GiveUp,
         Woken, Retry, Returns, Phases
<1>. QED BY <1>2, <1>3, <1>4, <1>5

LEMMA TypeInvFrame ==
  ASSUME TypeInv, UNCHANGED <<evaluatorVars, adapter, fixtures>>,
         phase'[Self] # "idle" => Asking /\ adapter = "prometheus"
  PROVE  TypeInv'
<1>1. UNCHANGED <<pc, asking, todo, goodMetrics, windowMetrics, stale, result, adapter, fixtures>>
  BY DEF evaluatorVars
<1>. QED
  BY <1>1 DEF TypeInv, FixturesTyped, NotYetMeasured, EvaluatorTypeOK, OpenOnlyWhileAsking,
              Done, Asking

\* However a call ends, nothing of it is left.
LEMMA TypeInvFails ==
  ASSUME TypeInv, QueryFailed, UNCHANGED envVars, phase'[Self] = "idle"
  PROVE  TypeInv'
<1>1. /\ pc \in {"good", "total"} /\ pc' = "failed" /\ windowMetrics' = NothingMeasured
      /\ stale' = FALSE /\ result' = result /\ fixtures' = fixtures
  BY DEF QueryFailed, Ends, envVars
<1>2. FixturesTyped'
  BY <1>1 DEF TypeInv, FixturesTyped
<1>3. NotYetMeasured'
  BY <1>1 DEF NotYetMeasured, NothingMeasured
<1>4. EvaluatorTypeOK'
  BY <1>1 DEF TypeInv, EvaluatorTypeOK, NothingMeasured, Asking
<1>. QED BY <1>2, <1>3, <1>4 DEF TypeInv, OpenOnlyWhileAsking

LEMMA TypeInvGot ==
  ASSUME RealInv, TypeInv, NEW m \in WindowMetrics, Got(m), UNCHANGED envVars,
         phase'[Self] = "idle"
  PROVE  TypeInv'
<1>1. FixturesTyped'
  BY DEF TypeInv, FixturesTyped, envVars
<1>2. OpenOnlyWhileAsking'
  BY DEF OpenOnlyWhileAsking
<1>3. CASE GotGood(m)
  <2>1. /\ pc = "good" /\ pc' = "total" /\ goodMetrics' = m
        /\ UNCHANGED <<asking, todo, windowMetrics, stale, result>>
    BY <1>3 DEF GotGood
  <2>2. NotYetMeasured' /\ EvaluatorTypeOK'
    BY <2>1 DEF TypeInv, NotYetMeasured, EvaluatorTypeOK, Done, Asking
  <2>. QED BY <1>1, <1>2, <2>2 DEF TypeInv
<1>4. CASE GotTotal(m)
  <2>. DEFINE combined == Combine(goodMetrics, m)
              measured == [windowMetrics EXCEPT ![asking] = combined]
              isStale  == stale \/ IsStale(combined.age)
  <2>1. /\ pc = "total" /\ goodMetrics \in WindowMetrics /\ stale \in BOOLEAN /\ result = None
        /\ windowMetrics \in [Collected -> WindowMetrics \cup {None}]
        /\ \A w \in Done : windowMetrics[w] \in WindowMetrics
        /\ \A w \in todo : windowMetrics[w] = None
        /\ asking \in Collected \ todo /\ todo \subseteq Collected
    BY <1>4 DEF GotTotal, TypeInv, EvaluatorTypeOK, NotYetMeasured, RealInv, WindowsInOrder,
                Asking
  <2>2. combined \in WindowMetrics /\ isStale \in BOOLEAN
    BY <2>1, CombineType DEF IsStale
  <2>3. /\ measured \in [Collected -> WindowMetrics \cup {None}]
        /\ \A w \in Collected \ todo : measured[w] \in WindowMetrics
        /\ \A w \in todo : measured[w] = None
    <3>. HIDE DEF combined
    <3>. QED BY <2>1, <2>2 DEF Done
  <2>4. CASE todo = {} /\ result' = Evaluation(measured, isStale) /\ Ends("returned")
    <3>1. pc' = "returned" /\ windowMetrics' = NothingMeasured /\ stale' = FALSE
      BY <2>4 DEF Ends
    <3>2. result' # None
      <4>. HIDE DEF measured, isStale
      <4>. QED BY <2>2, <2>3, <2>4, EvaluationType, NoneAssumption
    <3>3. NotYetMeasured' /\ EvaluatorTypeOK'
      BY <3>1, <3>2 DEF NotYetMeasured, EvaluatorTypeOK, NothingMeasured, Asking
    <3>. QED BY <1>1, <1>2, <3>3 DEF TypeInv
  <2>5. CASE /\ pc' = "good" /\ asking' \in todo /\ todo' = todo \ {asking'}
             /\ windowMetrics' = measured /\ stale' = isStale /\ result' = result
    <3>. HIDE DEF measured, isStale
    <3>1. Done' = Collected \ todo
      BY <2>1, <2>5 DEF Done
    <3>2. NotYetMeasured'
      BY <2>1, <2>3, <2>5 DEF NotYetMeasured, Asking
    <3>3. EvaluatorTypeOK'
      BY <2>1, <2>2, <2>3, <2>5, <3>1 DEF EvaluatorTypeOK
    <3>. QED BY <1>1, <1>2, <3>2, <3>3 DEF TypeInv
  <2>. QED BY <1>4, <2>4, <2>5 DEF GotTotal
<1>. QED BY <1>3, <1>4 DEF Got

LEMMA TypeInvStep == EvaluationInv /\ [Next]_vars => TypeInv'
<1>. SUFFICES ASSUME EvaluationInv, [Next]_vars PROVE TypeInv'
  OBVIOUS
<1>. USE EvaluationAssumption
<1>1. AdapterInv /\ RealInv /\ TypeInv
  BY DEF EvaluationInv
<1>2. phase \in [Goroutines -> Phases] /\ OpenOnlyWhileAsking
  BY <1>1 DEF AdapterInv, AdapterTypeOK, TypeInv
<1>3. CASE MetricsMove
  BY <1>1, <1>2, <1>3, TypeInvFrame DEF MetricsMove, adapterVars, OpenOnlyWhileAsking
<1>4. CASE EvaluationStarts
  <2>1. /\ ~Asking /\ pc' = "good" /\ result' = None /\ todo' \cup {asking'} = Collected
        /\ UNCHANGED <<goodMetrics, windowMetrics, stale, phase, adapter, fixtures>>
    BY <1>4 DEF EvaluationStarts, Evaluate, Asking, adapterVars
  <2>2. Done' = {}
    BY <2>1 DEF Done
  <2>3. NotYetMeasured'
    BY <1>1, <2>1 DEF TypeInv, NotYetMeasured
  <2>4. EvaluatorTypeOK'
    BY <1>1, <2>1, <2>2 DEF TypeInv, EvaluatorTypeOK
  <2>. QED
    BY <1>1, <1>2, <2>1, <2>3, <2>4 DEF TypeInv, FixturesTyped, OpenOnlyWhileAsking
<1>5. CASE AsksFixture
  <2>1. adapter = "synthetic" /\ UNCHANGED <<phase, envVars>>
    BY <1>5 DEF AsksFixture, adapterVars
  <2>2. phase'[Self] = "idle"
    BY <1>2, <2>1 DEF OpenOnlyWhileAsking
  <2>3. CASE FixtureFound(fixtures, Queries[pc], asking)
    <3>1. FixtureMetrics(fixtures, Queries[pc], asking) \in WindowMetrics
      BY <1>1, <2>3 DEF TypeInv, FixturesTyped, FixtureFound, FixtureMetrics
    <3>. QED BY <1>1, <1>5, <2>1, <2>2, <2>3, <3>1, TypeInvGot DEF AsksFixture
  <2>4. CASE ~FixtureFound(fixtures, Queries[pc], asking)
    BY <1>1, <1>5, <2>1, <2>2, <2>4, TypeInvFails DEF AsksFixture
  <2>. QED BY <2>3, <2>4
<1>6. CASE AsksPrometheus
  BY <1>1, <1>6, TypeInvFrame DEF AsksPrometheus, envVars
<1>7. CASE QueryExpires
  BY <1>1, <1>2, <1>7, TypeInvFrame DEF QueryExpires, Expire, envVars, OpenOnlyWhileAsking
<1>8. CASE QueryAnswered
  <2>1. phase[Self] = "attempt" /\ ReturnsPermit(Self) /\ UNCHANGED envVars
    BY <1>8 DEF QueryAnswered, Answered
  <2>2. phase'[Self] = "idle"
    BY <1>1, <2>1, ReturnedIsIdle
  <2>3. Asking /\ asking \in Collected /\ metrics \in Snapshots
    BY <1>1, <1>2, <2>1 DEF OpenOnlyWhileAsking, RealInv, WindowsInOrder, PastEndsNow
  <2>4. metrics[asking][pc] \in Seq(Samples)
    BY <2>3, AnswerType DEF Asking
  <2>5. Measure(metrics[asking][pc]) \in WindowMetrics
    BY <2>4, MeasureType
  <2>. QED BY <1>1, <1>8, <2>1, <2>2, <2>5, TypeInvGot DEF QueryAnswered
<1>9. CASE QueryProceeds \/ AttemptOfSelfFails
  <2>1. phase[Self] # "idle" /\ UNCHANGED envVars
    BY <1>9 DEF QueryProceeds, AttemptOfSelfFails, Proceeds, AcquireFails, Acquire, GiveUp,
                Woken, Retry, AttemptFails
  <2>2. CASE phase'[Self] = "idle"
    BY <1>1, <1>9, <2>1, <2>2, TypeInvFails DEF QueryProceeds, AttemptOfSelfFails
  <2>3. CASE phase'[Self] # "idle"
    BY <1>1, <1>2, <1>9, <2>1, <2>3, TypeInvFrame
    DEF QueryProceeds, AttemptOfSelfFails, envVars, OpenOnlyWhileAsking
  <2>. QED BY <2>2, <2>3
<1>10. ASSUME NEW g \in Goroutines \ {Self}, Rival(g) PROVE TypeInv'
  <2>1. phase'[Self] = "idle" <=> phase[Self] = "idle"
    BY <1>1, <1>10, OthersGoOn DEF Rival
  <2>. QED
    BY <1>1, <1>2, <1>10, <2>1, TypeInvFrame DEF Rival, envVars, OpenOnlyWhileAsking
<1>11. CASE UNCHANGED vars
  BY <1>1, <1>2, <1>11, TypeInvFrame DEF vars, adapterVars, envVars, OpenOnlyWhileAsking
<1>. QED
  BY <1>3, <1>4, <1>5, <1>6, <1>7, <1>8, <1>9, <1>10, <1>11 DEF Next

LEMMA EvaluationInvInit == Init => EvaluationInv
BY AdapterInvInit, RealInvInit, TypeInvInit DEF EvaluationInv, Init

LEMMA EvaluationInvStep == EvaluationInv /\ [Next]_vars => EvaluationInv'
<1>. SUFFICES ASSUME EvaluationInv, [Next]_vars PROVE EvaluationInv'
  OBVIOUS
<1>1. AdapterInv'
  BY StepIsAdapterStep, AdapterInvStep DEF EvaluationInv
<1>2. RealInv'
  BY RealInvStep DEF EvaluationInv
<1>. QED BY <1>1, <1>2, TypeInvStep DEF EvaluationInv

LEMMA EvaluationInvariant == Spec => []EvaluationInv
BY EvaluationInvInit, EvaluationInvStep, PTL DEF Spec

\* An evaluation and its adapter are type correct: a window is measured once, no
\* query stays open beside a call that is over, and what a call returns is a result,
\* with NaN among its numbers or not (evaluator.go:28-132 over adapter.go:54-94).
THEOREM EvaluationTypeCorrect == Spec => []TypeOK
BY EvaluationInvariant, EvaluationInvIsTyped, PTL

----------------------------------------------------------------------------
(* What a result says.                                                     *)

\* Whatever the order of the windows and whatever happens between the queries, a
\* burn rate a call returns is that of good events and total events Prometheus
\* had at instants of the call, in this order (evaluator.go:56-92).
THEOREM EachRateIsReal == Spec => []EachRateWasReal
<1>1. EvaluationInv => EachRateWasReal
  <2>. SUFFICES ASSUME EvaluationInv, pc = "returned", adapter = "prometheus"
                PROVE  /\ DOMAIN result.burnRates = Collected
                       /\ \A w \in Collected : \E i, j \in DOMAIN past :
                            /\ i <= j
                            /\ result.burnRates[w] =
                                 BurnRate(ErrorRate(ScalarValue(past[i][w].good),
                                                    ScalarValue(past[j][w].total)))
    BY DEF EachRateWasReal
  <2>1. PICK measured : IsOf(measured)
    BY DEF EvaluationInv, RealInv, ResultIsOfMeasurements
  <2>2. result.burnRates =
          [w \in Collected |-> BurnRate(ErrorRate(measured[w].good, measured[w].total))]
    BY <2>1 DEF IsOf, Evaluation
  <2>3. ASSUME NEW w \in Collected
        PROVE  \E i, j \in DOMAIN past :
                 /\ i <= j
                 /\ measured[w].good = ScalarValue(past[i][w].good)
                 /\ measured[w].total = ScalarValue(past[j][w].total)
    <3>1. PICK i \in DOMAIN past, j \in DOMAIN past :
            i <= j /\ measured[w] = Combine(Measure(past[i][w].good), Measure(past[j][w].total))
      BY <2>1 DEF IsOf, WasMeasured
    <3>. QED BY <3>1 DEF Combine, Measure
  <2>. QED BY <2>2, <2>3
<1>. QED BY <1>1, EvaluationInvariant, PTL

\* A result without a modifier has in every window a total that is there and not 0,
\* and a timestamp within the limit (evaluator.go:69-97, 118-121).
THEOREM EmptyOrOldFlagged == Spec => []EmptyOrOldIsFlagged
<1>1. EvaluationInv => EmptyOrOldIsFlagged
  <2>. SUFFICES ASSUME EvaluationInv, pc = "returned", adapter = "prometheus",
                       ~result.stale, ~result.insufficient, NEW w \in Collected
                PROVE  \E i, j \in DOMAIN past :
                         /\ past[j][w].total # <<>> /\ ScalarValue(past[j][w].total) # 0
                         /\ StalenessLimit # Unparsable =>
                              \E age \in Ages(past[i][w].good) \cup Ages(past[j][w].total) :
                                age <= StalenessLimit
    BY DEF EmptyOrOldIsFlagged, RestsOnTraffic
  <2>1. PICK measured : IsOf(measured)
    BY DEF EvaluationInv, RealInv, ResultIsOfMeasurements
  <2>2. measured[w].total # 0 /\ ~IsStale(measured[w].age)
    BY <2>1 DEF IsOf, Evaluation
  <2>3. PICK i \in DOMAIN past, j \in DOMAIN past :
          measured[w] = Combine(Measure(past[i][w].good), Measure(past[j][w].total))
    BY <2>1 DEF IsOf, WasMeasured
  <2>4. past[j][w].total # <<>> /\ ScalarValue(past[j][w].total) # 0
    BY <2>2, <2>3, ScalarOfNothing DEF Combine, Measure
  <2>5. past[i][w].good \in Seq(Samples) /\ past[j][w].total \in Seq(Samples)
    BY AnswerType DEF EvaluationInv, RealInv, PastEndsNow
  <2>6. /\ measured[w].age \in Ages(past[i][w].good) \cup Ages(past[j][w].total)
        /\ measured[w].age \in Int
    BY <2>3, <2>4, <2>5, NewestOfBoth DEF Combine, Measure
  <2>7. ASSUME StalenessLimit # Unparsable PROVE measured[w].age <= StalenessLimit
    BY <2>2, <2>6, <2>7, EvaluatorAssumption, NoTimeAssumption DEF IsStale
  <2>. QED BY <2>4, <2>6, <2>7
<1>. QED BY <1>1, EvaluationInvariant, PTL

\* What an evaluation of metrics that stand still returns: the result of them.
LEMMA SteadyMeasurements ==
  ASSUME EvaluationInv, Len(past) = 1, NEW measured, IsOf(measured), NEW w \in Collected
  PROVE  measured[w] = Combine(Measure(past[1][w].good), Measure(past[1][w].total))
<1>1. DOMAIN past = {1}
  BY DEF EvaluationInv, RealInv, PastEndsNow
<1>. QED BY <1>1 DEF IsOf, WasMeasured

\* While the metrics stand still an evaluation is exact: the rules that trigger,
\* both modifiers and the exhausted budget are those of the metrics, through two
\* queries per window in any order, the sums, the clamps and the choice of one
\* timestamp (evaluator.go:56-129, sli.go:7-67), in exact arithmetic and for any
\* ratio below 1 as objective and any above 0 as thresholds, which the schema
\* requires (slo_v1.json:62-66 and 136-140).
THEOREM SteadyIsExact ==
  ASSUME Objective.num < Objective.den,
         \A k \in DOMAIN Rules : Rules[k].threshold \in Ratios /\ Rules[k].threshold.num > 0
  PROVE  Spec => []SteadyEvaluationIsExact
<1>1. EvaluationInv => SteadyEvaluationIsExact
  <2>. SUFFICES ASSUME EvaluationInv, pc = "returned", adapter = "prometheus", Len(past) = 1
                PROVE  SteadyEvaluationIsExact
    BY DEF SteadyEvaluationIsExact
  <2>1. PICK measured : IsOf(measured)
    BY DEF EvaluationInv, RealInv, ResultIsOfMeasurements
  <2>. DEFINE m == past[1]
              good(w) == ScalarValue(m[w].good)
              total(w) == ScalarValue(m[w].total)
              age(w) == NewerOf(Timestamp(m[w].good), Timestamp(m[w].total))
              ages(w) == Ages(m[w].good) \cup Ages(m[w].total)
              rate(w) == BurnRate(ErrorRate(good(w), total(w)))
  <2>2. \A w \in Collected :
          measured[w].good = good(w) /\ measured[w].total = total(w) /\ measured[w].age = age(w)
    <3>1. \A w \in Collected :
            measured[w] = Combine(Measure(past[1][w].good), Measure(past[1][w].total))
      BY <2>1, SteadyMeasurements
    <3>. QED BY <3>1, CombineMeasures
  <2>3. m \in Snapshots /\ Compliance \in Collected
    BY CollectedWindows DEF EvaluationInv, RealInv, PastEndsNow
  <2>4. \A w \in Collected : m[w].good \in Seq(Samples) /\ m[w].total \in Seq(Samples)
    BY <2>3, AnswerType
  <2>5. /\ result.stale = \E w \in Collected : IsStale(age(w))
        /\ result.insufficient = \E w \in Collected : total(w) = 0
        /\ result.burnRates = [w \in Collected |-> rate(w)]
        /\ result.budget = BudgetRemaining(ErrorRate(good(Compliance), total(Compliance)))
    <3>. HIDE DEF m, good, total, age
    <3>. QED BY <2>1, <2>2, <2>3 DEF IsOf, Evaluation
  <2>6. \A w \in Collected : good(w) \in Values /\ total(w) \in Values
    BY <2>4, ScalarType
  <2>7. ASSUME NEW w \in Collected, NEW threshold \in Ratios, threshold.num > 0
        PROVE  AtLeast(rate(w), threshold) <=> Burning(m, w, threshold)
    <3>1. Burns(good(w), total(w), threshold) = Burning(m, w, threshold)
      BY DEF Burns, Burning
    <3>. HIDE DEF m, good, total
    <3>. QED BY <2>6, <2>7, <3>1, RateIsExact
  <2>8. ASSUME NEW k \in DOMAIN Rules
        PROVE  Triggered(Rules[k], result.burnRates) <=> RuleBurns(m, Rules[k])
    <3>1. Rules[k].short \in Collected /\ Rules[k].long \in Collected
      BY DEF Collected
    <3>2. \A w \in Collected :
            AtLeast(result.burnRates[w], Rules[k].threshold) <=> Burning(m, w, Rules[k].threshold)
      <4>. HIDE DEF m, rate
      <4>. QED BY <2>5, <2>7
    <3>3. DOMAIN result.burnRates = Collected
      BY <2>5
    <3>. HIDE DEF m
    <3>. QED BY <3>1, <3>2, <3>3 DEF Triggered, RuleBurns
  <2>9. result.stale <=> DataStale(m)
    <3>1. ASSUME NEW w \in Collected, StalenessLimit # Unparsable
          PROVE  IsStale(age(w)) <=> ages(w) # {} /\ \A a \in ages(w) : a > StalenessLimit
      <4>1. \/ age(w) = NoTime /\ m[w].good = <<>> /\ m[w].total = <<>>
            \/ /\ age(w) \in ages(w) /\ age(w) \in Int
               /\ \A other \in ages(w) : age(w) <= other
        BY <2>4, NewestOfBoth
      <4>2. ages(w) \subseteq Int /\ (m[w].good = <<>> /\ m[w].total = <<>> => ages(w) = {})
        BY <2>4, AgesType
      <4>3. StalenessLimit \in Int
        BY <3>1, EvaluatorAssumption
      <4>. HIDE DEF age, ages, m
      <4>4. CASE age(w) = NoTime /\ m[w].good = <<>> /\ m[w].total = <<>>
        BY <4>2, <4>4 DEF IsStale
      <4>5. CASE /\ age(w) \in ages(w) /\ age(w) \in Int
                 /\ \A other \in ages(w) : age(w) <= other
        <5>1. IsStale(age(w)) <=> age(w) > StalenessLimit
          BY <3>1, <4>5, NoTimeAssumption DEF IsStale
        <5>2. age(w) > StalenessLimit <=> \A a \in ages(w) : a > StalenessLimit
          BY <4>2, <4>3, <4>5
        <5>. QED BY <4>5, <5>1, <5>2
      <4>. QED BY <4>1, <4>4, <4>5
    <3>2. StalenessLimit = Unparsable => ~result.stale
      BY <2>5 DEF IsStale
    <3>3. DataStale(m) <=>
            StalenessLimit # Unparsable /\
              \E w \in Collected : ages(w) # {} /\ \A a \in ages(w) : a > StalenessLimit
      BY DEF DataStale
    <3>. HIDE DEF age, ages
    <3>. QED BY <2>5, <3>1, <3>2, <3>3
  <2>10. /\ IsNumber(result.budget) => result.budget.num \in 0 .. result.budget.den
         /\ IsNumber(result.budget) /\ result.budget.num = 0 <=>
              Burning(m, Compliance, Over(1, 1))
    <3>1. AtLeast(rate(Compliance), Over(1, 1)) <=> Burning(m, Compliance, Over(1, 1))
      <4>1. Over(1, 1) \in Ratios /\ Over(1, 1).num > 0
        BY DEF Over, Ratios
      <4>. HIDE DEF m, rate
      <4>. QED BY <2>3, <2>7, <4>1
    <3>. DEFINE e == ErrorRate(good(Compliance), total(Compliance))
    <3>2. e \in Floats /\ (IsNumber(e) => e.num \in Nat)
      <4>. HIDE DEF good, total
      <4>. QED BY <2>3, <2>6, ErrorRateType
    <3>. HIDE DEF m, e
    <3>3. result.budget = BudgetRemaining(e)
      BY <2>5 DEF e
    <3>4. rate(Compliance) = BurnRate(e)
      BY DEF e
    <3>. HIDE DEF rate
    <3>. QED BY <3>1, <3>2, <3>3, <3>4, BudgetIsExact
  <2>11. result.insufficient <=> TrafficMissing(m)
    BY <2>5 DEF TrafficMissing
  <2>. QED BY <2>8, <2>9, <2>10, <2>11 DEF SteadyEvaluationIsExact
<1>. QED BY <1>1, EvaluationInvariant, PTL

----------------------------------------------------------------------------
(* What the gate makes of a result.  PolicyEngine_proofs shows that the    *)
(* engine returns the verdict on the actions of the rules that trigger.    *)

Decision ==
  VerdictOn({Rules[i].action : i \in {k \in DOMAIN Rules : Triggered(Rules[k], result.burnRates)}},
            result.stale \/ result.insufficient)

\* From the queries to the engine (evaluator.go:56-129, engine.go:19-62): behind an
\* ALLOW there is, for every window, a total whose series are there and do not add up
\* to 0, and a timestamp within the limit.  The total may be NaN, or old beside recent
\* good events: the theorem is no more than what the two modifiers enforce.
THEOREM AllowRestsOnTraffic ==
  Spec => [](pc = "returned" /\ adapter = "prometheus" /\ Decision = "ALLOW" =>
               RestsOnTraffic)
<1>1. Decision = "ALLOW" => ~result.stale /\ ~result.insufficient
  BY DEF Decision, VerdictOn
<1>2. EmptyOrOldIsFlagged =>
        (pc = "returned" /\ adapter = "prometheus" /\ Decision = "ALLOW" => RestsOnTraffic)
  BY <1>1 DEF EmptyOrOldIsFlagged
<1>. QED BY <1>2, EmptyOrOldFlagged, PTL

\* The verdict on metrics m: of the rules that burn in both of their windows, and of
\* what is stale or missing.
VerdictOfMetrics(m) ==
  VerdictOn({Rules[i].action : i \in {k \in DOMAIN Rules : RuleBurns(m, Rules[k])}},
            DataStale(m) \/ TrafficMissing(m))

NumbersOnly(m) ==
  \A w \in Collected : IsNumber(ScalarValue(m[w].good)) /\ IsNumber(ScalarValue(m[w].total))

\* On metrics that stand still and are numbers the decision is the policy's: BLOCK
\* exactly when a rule that blocks burns in both of its windows, else WARN exactly
\* when data is stale or missing or a rule that warns burns, else ALLOW
\* (evaluator.go:56-129 and engine.go:19-62).  Where a sum is NaN it is no weaker
\* than what the other windows call for.
THEOREM SteadyDecisionIsThePolicys ==
  ASSUME Objective.num < Objective.den,
         \A k \in DOMAIN Rules : Rules[k].threshold \in Ratios /\ Rules[k].threshold.num > 0
  PROVE  Spec => [](pc = "returned" /\ adapter = "prometheus" /\ Len(past) = 1 =>
                      /\ Severity(Decision) >= Severity(VerdictOfMetrics(past[1]))
                      /\ NumbersOnly(past[1]) => Decision = VerdictOfMetrics(past[1]))
<1>1. SteadyEvaluationIsExact =>
        (pc = "returned" /\ adapter = "prometheus" /\ Len(past) = 1 =>
           /\ Severity(Decision) >= Severity(VerdictOfMetrics(past[1]))
           /\ NumbersOnly(past[1]) => Decision = VerdictOfMetrics(past[1]))
  <2>. SUFFICES ASSUME SteadyEvaluationIsExact,
                       pc = "returned" /\ adapter = "prometheus" /\ Len(past) = 1
                PROVE  /\ Severity(Decision) >= Severity(VerdictOfMetrics(past[1]))
                       /\ Decision = VerdictOfMetrics(past[1])
    OBVIOUS
  <2>1. {k \in DOMAIN Rules : Triggered(Rules[k], result.burnRates)}
          = {k \in DOMAIN Rules : RuleBurns(past[1], Rules[k])}
    BY DEF SteadyEvaluationIsExact
  <2>2. (result.stale \/ result.insufficient) <=> (DataStale(past[1]) \/ TrafficMissing(past[1]))
    BY DEF SteadyEvaluationIsExact
  <2>3. Decision = VerdictOfMetrics(past[1])
    BY <2>1, <2>2 DEF Decision, VerdictOfMetrics, VerdictOn
  <2>4. Severity(Decision) \in Int
    BY DEF Severity
  <2>. QED BY <2>3, <2>4
<1>. QED BY <1>1, SteadyIsExact, PTL

----------------------------------------------------------------------------
(* Every call ends, but for what only fairness can give.                   *)

\* The queries of the call after the one under way.
QueriesLeft == 2 * Cardinality(todo) + IF pc = "good" THEN 1 ELSE 0

\* Steps of one query, the call of QueryWindow included.
QuerySteps == 2 * RetryCount + 7

\* How many more steps the call may take.
CallStepsLeft ==
  IF ~Asking THEN 0
  ELSE QueriesLeft * QuerySteps
         + IF phase[Self] = "idle" THEN QuerySteps ELSE StepsLeft(Self)

\* A step that concerns a call under way brings it nearer to its end.
CallCountsDown ==
  Asking =>
    \/ UNCHANGED evaluatorVars /\ QueryUntouched(Self)
    \/ CallStepsLeft' < CallStepsLeft

LEMMA TodoFinite ==
  ASSUME WindowsInOrder
  PROVE  IsFiniteSet(todo) /\ Cardinality(todo) \in Nat
<1>1. todo \subseteq Windows
  BY CollectedWindows DEF WindowsInOrder
<1>. QED BY <1>1, EvaluatorAssumption, FS_Subset, FS_CardinalityType

\* A query less is worth all its steps.
LEMMA OneQueryLess ==
  ASSUME NEW p \in Nat, NEW q \in Nat, p < q, NEW n \in Nat
  PROVE  p * n + n <= q * n
<1>1. PICK k \in Nat : q = p + 1 + k
  <2>1. q - p - 1 \in Nat /\ q = p + 1 + (q - p - 1)
    OBVIOUS
  <2>. QED BY <2>1
<1>2. q * n = p * n + n + k * n /\ k * n >= 0 /\ p * n \in Nat /\ k * n \in Nat
  BY <1>1
<1>. QED BY <1>2

LEMMA CallStepsLeftType ==
  ASSUME EvaluationInv
  PROVE  /\ QuerySteps \in Nat \ {0} /\ QueriesLeft \in Nat
         /\ QueriesLeft * QuerySteps \in Nat
         /\ StepsLeft(Self) \in 0 .. QuerySteps - 1
         /\ phase[Self] # "idle" => StepsLeft(Self) >= 1
         /\ CallStepsLeft \in Nat
<1>1. AdapterTypeOK /\ WindowsInOrder /\ RetryCount \in Nat /\ Self \in Goroutines
  BY AdapterAssumption, EvaluationAssumption DEF EvaluationInv, AdapterInv, RealInv
<1>2. QuerySteps \in Nat \ {0} /\ QueriesLeft \in Nat
  BY <1>1, TodoFinite DEF QuerySteps, QueriesLeft
<1>3. QueriesLeft * QuerySteps \in Nat
  BY <1>2
<1>4. StepsLeft(Self) \in 0 .. QuerySteps - 1
  BY <1>1, StepsLeftType DEF QuerySteps
<1>5. phase[Self] # "idle" => StepsLeft(Self) >= 1
  <2>1. /\ phase[Self] \in Phases /\ attempt[Self] \in 0 .. RetryCount
        /\ expired[Self] \in BOOLEAN
    BY <1>1 DEF AdapterTypeOK
  <2>. QED BY <1>1, <2>1 DEF StepsLeft, Phases
<1>. QED BY <1>2, <1>3, <1>4, <1>5 DEF CallStepsLeft

\* A call under way has at least a step left, more than the queries to come need.
LEMMA CallNotOver ==
  ASSUME EvaluationInv, Asking
  PROVE  CallStepsLeft >= QueriesLeft * QuerySteps + 1
BY CallStepsLeftType DEF CallStepsLeft

\* A call that is over has none.
LEMMA EndCountsDown ==
  ASSUME EvaluationInv, Asking, ~Asking'
  PROVE  CallStepsLeft' < CallStepsLeft
BY CallNotOver, CallStepsLeftType DEF CallStepsLeft

\* The next query, of the same window or of another one.
LEMMA GotCountsDown ==
  ASSUME EvaluationInv, EvaluationInv', NEW m, Got(m), phase'[Self] = "idle"
  PROVE  CallStepsLeft' < CallStepsLeft
<1>1. Asking
  BY DEF Got, GotGood, GotTotal, Asking
<1>2. CASE ~Asking'
  BY <1>1, <1>2, EndCountsDown
<1>3. CASE Asking'
  <2>1. CallStepsLeft' = QueriesLeft' * QuerySteps + QuerySteps
    BY <1>3 DEF CallStepsLeft, QuerySteps
  <2>2. QueriesLeft' \in Nat /\ QueriesLeft \in Nat /\ QuerySteps \in Nat
    <3>1. QueriesLeft \in Nat /\ QuerySteps \in Nat
      BY CallStepsLeftType
    <3>2. WindowsInOrder'
      BY DEF EvaluationInv, RealInv
    <3>3. Cardinality(todo') \in Nat
      <4>1. todo' \subseteq Windows
        BY <3>2, CollectedWindows DEF WindowsInOrder, Collected
      <4>. QED BY <4>1, EvaluatorAssumption, FS_Subset, FS_CardinalityType
    <3>. QED BY <3>1, <3>3 DEF QueriesLeft
  <2>3. QueriesLeft' < QueriesLeft
    <3>1. IsFiniteSet(todo) /\ Cardinality(todo) \in Nat
      BY TodoFinite DEF EvaluationInv, RealInv
    <3>2. CASE GotGood(m)
      BY <3>1, <3>2 DEF GotGood, QueriesLeft
    <3>3. CASE GotTotal(m)
      <4>1. pc = "total" /\ pc' = "good" /\ asking' \in todo /\ todo' = todo \ {asking'}
        BY <1>3, <3>3 DEF GotTotal, Ends, Asking
      <4>2. Cardinality(todo') = Cardinality(todo) - 1
        BY <3>1, <4>1, FS_RemoveElement
      <4>. QED BY <3>1, <4>1, <4>2 DEF QueriesLeft
    <3>. QED BY <3>2, <3>3 DEF Got
  <2>4. QueriesLeft' * QuerySteps + QuerySteps <= QueriesLeft * QuerySteps
    BY <2>2, <2>3, OneQueryLess
  <2>5. /\ QueriesLeft' * QuerySteps \in Int /\ QueriesLeft * QuerySteps \in Int
        /\ CallStepsLeft \in Int /\ QuerySteps \in Int
    BY <2>2, CallStepsLeftType
  <2>. QED BY <1>1, <2>1, <2>4, <2>5, CallNotOver
<1>. QED BY <1>2, <1>3

\* A step of the query under way that does not end it.
LEMMA QueryCountsDown ==
  ASSUME EvaluationInv, EvaluationInv', UNCHANGED evaluatorVars, Asking,
         phase[Self] # "idle", phase'[Self] # "idle", CountsDown(Self)
  PROVE  CallCountsDown
<1>1. UNCHANGED <<pc, todo>> /\ Asking'
  BY DEF evaluatorVars, Asking
<1>2. CASE QueryUntouched(Self)
  BY <1>2 DEF CallCountsDown
<1>3. CASE StepsLeft(Self)' < StepsLeft(Self)
  <2>1. /\ CallStepsLeft = QueriesLeft * QuerySteps + StepsLeft(Self)
        /\ CallStepsLeft' = QueriesLeft * QuerySteps + StepsLeft(Self)'
    BY <1>1 DEF CallStepsLeft, QueriesLeft, QuerySteps
  <2>2. StepsLeft(Self) \in Int /\ StepsLeft(Self)' \in Int /\ QueriesLeft * QuerySteps \in Int
    <3>1. AdapterTypeOK'
      BY DEF EvaluationInv, AdapterInv
    <3>2. /\ phase'[Self] \in Phases /\ attempt'[Self] \in 0 .. RetryCount
          /\ expired'[Self] \in BOOLEAN /\ RetryCount \in Nat
      BY <3>1, AdapterAssumption, EvaluationAssumption DEF AdapterTypeOK
    <3>3. StepsLeft(Self)' \in Int
      BY <3>2 DEF StepsLeft, Phases
    <3>. QED BY <3>3, CallStepsLeftType
  <2>. QED BY <1>3, <2>1, <2>2 DEF CallCountsDown
<1>. QED BY <1>2, <1>3 DEF CountsDown

\* A query of the call goes on, or ends it.
LEMMA OwnQueryCountsDown ==
  ASSUME EvaluationInv, EvaluationInv', Asking, phase[Self] # "idle", CountsDown(Self),
         IF phase'[Self] = "idle" THEN QueryFailed ELSE UNCHANGED evaluatorVars
  PROVE  CallCountsDown
<1>1. CASE phase'[Self] = "idle"
  <2>1. ~Asking'
    BY <1>1 DEF QueryFailed, Ends, Asking
  <2>. QED BY <2>1, EndCountsDown DEF CallCountsDown
<1>2. CASE phase'[Self] # "idle"
  BY <1>2, QueryCountsDown
<1>. QED BY <1>1, <1>2

LEMMA CallsCountDown ==
  ASSUME EvaluationInv, EvaluationInv', [Next]_vars
  PROVE  CallCountsDown
<1>. SUFFICES ASSUME Asking PROVE CallCountsDown
  BY DEF CallCountsDown
<1>1. AdapterInv /\ Self \in Goroutines /\ RetryCount \in Nat /\ phase \in [Goroutines -> Phases]
  BY EvaluationAssumption, AdapterAssumption DEF EvaluationInv, AdapterInv, AdapterTypeOK
<1>2. CountsDown(Self)
  BY <1>1, StepIsAdapterStep, QueriesCountDown
<1>3. phase[Self] # "idle" => adapter = "prometheus"
  BY EvaluationInvIsTyped DEF TypeOK
<1>4. CASE UNCHANGED vars \/ MetricsMove
  BY <1>4 DEF vars, adapterVars, MetricsMove, CallCountsDown, QueryUntouched
<1>5. CASE EvaluationStarts
  BY <1>5 DEF EvaluationStarts, Evaluate, Asking
<1>6. CASE AsksFixture
  <2>1. phase'[Self] = "idle" /\ phase[Self] = "idle"
    BY <1>3, <1>6 DEF AsksFixture, adapterVars
  <2>2. CASE QueryFailed
    BY <2>2, EndCountsDown DEF QueryFailed, Ends, Asking, CallCountsDown
  <2>3. CASE Got(FixtureMetrics(fixtures, Queries[pc], asking))
    BY <2>1, <2>3, GotCountsDown DEF CallCountsDown
  <2>. QED BY <1>6, <2>2, <2>3 DEF AsksFixture
<1>7. CASE AsksPrometheus
  <2>1. phase[Self] = "idle" /\ phase'[Self] = "acquire" /\ attempt'[Self] \in 0 .. RetryCount
    BY <1>1, <1>7 DEF AsksPrometheus, QueryWindow, AdapterInv, AdapterTypeOK
  <2>2. StepsLeft(Self)' \in 0 .. 2 * RetryCount + 6
    BY <1>1, <2>1 DEF StepsLeft
  <2>3. /\ CallStepsLeft = QueriesLeft * QuerySteps + QuerySteps
        /\ CallStepsLeft' = QueriesLeft * QuerySteps + StepsLeft(Self)'
    BY <1>7, <2>1 DEF AsksPrometheus, evaluatorVars, CallStepsLeft, QueriesLeft, QuerySteps, Asking
  <2>4. QuerySteps = 2 * RetryCount + 7 /\ QueriesLeft * QuerySteps \in Nat
    BY CallStepsLeftType DEF QuerySteps
  <2>. QED BY <1>1, <2>2, <2>3, <2>4 DEF CallCountsDown
<1>8. CASE QueryExpires
  <2>1. phase[Self] # "idle" /\ phase'[Self] # "idle" /\ UNCHANGED evaluatorVars
    BY <1>8 DEF QueryExpires, Expire
  <2>. QED BY <1>2, <2>1, QueryCountsDown
<1>9. CASE QueryAnswered
  <2>1. phase'[Self] = "idle"
    BY <1>1, <1>9, ReturnedIsIdle DEF QueryAnswered, Answered
  <2>. QED BY <1>9, <2>1, GotCountsDown DEF QueryAnswered, CallCountsDown
<1>10. CASE QueryProceeds
  <2>1. phase[Self] # "idle"
    BY <1>10 DEF QueryProceeds, Proceeds, AcquireFails, Acquire, GiveUp, Woken, Retry
  <2>. QED BY <1>2, <1>10, <2>1, OwnQueryCountsDown DEF QueryProceeds
<1>11. CASE AttemptOfSelfFails
  <2>1. phase[Self] # "idle"
    BY <1>11 DEF AttemptOfSelfFails, AttemptFails
  <2>. QED BY <1>2, <1>11, <2>1, OwnQueryCountsDown DEF AttemptOfSelfFails
<1>12. CASE \E g \in Goroutines \ {Self} : Rival(g)
  <2>1. UNCHANGED evaluatorVars
    BY <1>12 DEF Rival
  <2>2. PICK g \in Goroutines \ {Self} :
          QueryWindow(g) \/ Expire(g) \/ Proceeds(g) \/ AttemptFails(g) \/ Answered(g)
    BY <1>12 DEF Rival
  <2>3. phase'[Self] = "idle" <=> phase[Self] = "idle"
    BY <1>1, <2>2, OthersGoOn
  <2>4. CASE phase[Self] = "idle"
    <3>1. /\ attempt \in [Goroutines -> 0 .. RetryCount] /\ expired \in [Goroutines -> BOOLEAN]
      BY <1>1 DEF AdapterInv, AdapterTypeOK
    <3>2. attempt'[Self] = attempt[Self] /\ expired'[Self] = expired[Self]
      BY <1>1, <2>2, <3>1
      DEF QueryWindow, Expire, Proceeds, AttemptFails, Answered, AcquireFails, Acquire, GiveUp,
          Woken, Retry, Returns, ReturnsPermit
    <3>. QED BY <2>1, <2>3, <2>4, <3>2 DEF CallCountsDown, QueryUntouched
  <2>5. CASE phase[Self] # "idle"
    BY <1>2, <2>1, <2>3, <2>5, QueryCountsDown
  <2>. QED BY <2>4, <2>5
<1>. QED
  BY <1>4, <1>5, <1>6, <1>7, <1>8, <1>9, <1>10, <1>11, <1>12 DEF Next

\* An evaluation takes a bounded number of steps: two queries for each of its windows
\* (evaluator.go:57-71), each of at most 2 * RetryCount + 7 steps, whatever Prometheus
\* and the other goroutines do.  What remains of EvaluationReturns is that a call has
\* a step to take.
THEOREM EvaluationsAreBounded ==
  Spec => [](CallStepsLeft \in Nat) /\ [][CallCountsDown]_vars
<1>1. EvaluationInv /\ EvaluationInv' /\ [Next]_vars => [CallCountsDown]_vars
  BY CallsCountDown
<1>2. EvaluationInv => CallStepsLeft \in Nat
  BY CallStepsLeftType
<1>. QED BY <1>1, <1>2, EvaluationInvariant, PTL DEF Spec

=============================================================================
