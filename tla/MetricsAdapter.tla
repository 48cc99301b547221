--------------------------- MODULE MetricsAdapter ---------------------------
(***************************************************************************)
(* eval.MetricsAdapter, as its two implementations keep it: what a query   *)
(* for a window returns.  A measurement has good, total and an age: how    *)
(* long before the evaluation's now its timestamp is, or NoTime.           *)
(***************************************************************************)
EXTENDS GatePolicy, SequencesExt

CONSTANT NoTime  \* a nil timestamp

ASSUME NoTimeAssumption == NoTime \notin Int

\* A float64: a number, or NaN.
Values == Int \cup {NotANumber}

\* What a query measures; a timestamp is optional.
WindowMetrics == [good : Values, total : Values, age : Int \cup {NoTime}]

----------------------------------------------------------------------------
(* prometheus.Adapter.  An answer is a sequence of samples, one per series *)
(* of the result, each with a value and an age.                            *)

Samples == [value : Values, age : Int]

Plus(x, y) == IF NotANumber \in {x, y} THEN NotANumber ELSE x + y

\* extractScalarValue: the sum over the series, 0 when there is none.
ScalarValue(answer) == FoldSeq(LAMBDA sample, sum : Plus(sample.value, sum), 0, answer)

Ages(answer) == {answer[i].age : i \in DOMAIN answer}

\* extractTimestamp: the most recent of the series, none when there is none.
Timestamp(answer) ==
  IF answer = <<>> THEN NoTime
  ELSE CHOOSE age \in Ages(answer) : \A other \in Ages(answer) : age <= other

\* QueryWindow's result has the sum in both fields: a query measures one.
Measure(answer) ==
  [good |-> ScalarValue(answer), total |-> ScalarValue(answer), age |-> Timestamp(answer)]

----------------------------------------------------------------------------
(* synthetic.Adapter.  Fixtures by name, each a map from windows to        *)
(* measurements; a query is the name of a fixture, with the prefix         *)
(* "fixture:" or without it.                                               *)

\* NewAdapter.
NoFixtures == [name \in {} |-> {}]

\* SetFixture, and LoadFixture once the file is read and parsed: the name is
\* bound anew.
SetFixture(fixtures, name, fixture) ==
  [n \in DOMAIN fixtures \cup {name} |-> IF n = name THEN fixture ELSE fixtures[n]]

\* parseQuery: the prefix changes nothing.
ParseQuery(query) == query.name

\* The three errors of QueryWindow: no name, no fixture, no such window.
FixtureFound(fixtures, query, window) ==
  /\ ParseQuery(query) # ""
  /\ ParseQuery(query) \in DOMAIN fixtures
  /\ window \in DOMAIN fixtures[ParseQuery(query)]

\* The result has a good and a total of its own, and its timestamp may be missing
\* although there is data.
FixtureMetrics(fixtures, query, window) == fixtures[ParseQuery(query)][window]

=============================================================================
