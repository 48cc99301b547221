---------------------------- MODULE MCEvaluation ----------------------------
(* Two windows, a rule on both; Prometheus moves among a few snapshots.    *)
EXTENDS Evaluation, TLC

CONSTANTS five, hour, r1, r2, self

MCWindows == {five, hour}
MCObjective == Over(3, 4)
MCRules == <<[short |-> five, long |-> hour, threshold |-> Over(2, 1), action |-> "BLOCK"]>>

S(value, age) == [value |-> value, age |-> age]
Window(good, total) == [good |-> good, total |-> total]
Snapshot(ofFive, ofHour) == [w \in MCWindows |-> IF w = five THEN ofFive ELSE ofHour]

\* NaN in the five minutes, and old data only; more good events than events in the hour, and an old
\* timestamp beside a new one.
Doubtful == Snapshot(Window(<<S(NotANumber, 9)>>, <<S(4, 8)>>), Window(<<S(4, 9)>>, <<S(2, 0)>>))

\* Two series, one of them dead; half of the events are bad, which is the threshold.
BurningBoth == LET half == Window(<<S(1, 0), S(1, 9)>>, <<S(2, -1), S(2, 0)>>)
               IN  Snapshot(half, half)

\* The series of the five minutes are gone, and the good events of the hour.
Vanished == Snapshot(Window(<<>>, <<>>), Window(<<>>, <<S(4, 0)>>))

MCSnapshots == {Doubtful, BurningBoth, Vanished}

MCQueries == [good  |-> [prefixed |-> TRUE, name |-> "good"],
              total |-> [prefixed |-> FALSE, name |-> "total"]]

Data(good, total) == [good |-> good, total |-> total, age |-> NoTime]
MCFixtureMaps ==
  {NoFixtures,
   SetFixture(NoFixtures, "good", [w \in MCWindows |-> Data(4, 4)]),
   SetFixture(SetFixture(NoFixtures, "good", [w \in MCWindows |-> Data(4, 4)]),
              "total", [w \in {five} |-> Data(4, 4)]),
   SetFixture(SetFixture(NoFixtures, "good", [w \in MCWindows |-> Data(2, 4)]),
              "total", [w \in MCWindows |-> Data(0, 4)])}
=============================================================================
