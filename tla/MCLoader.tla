------------------------------ MODULE MCLoader ------------------------------
(* Two files, six specs; a duration is a byte of nanoseconds, two a second. *)
EXTENDS Loader, TLC

D(count, unit) == [count |-> count, unit |-> unit]
SpecOf(id, conforms, compliance, short, long) ==
  [id |-> id, conforms |-> conforms, compliance |-> compliance,
   rules |-> <<[short |-> short, long |-> long]>>]

Good      == SpecOf("a", TRUE, D(1, "d"), D(1, "m"), D(1, "h"))
Other     == SpecOf("b", TRUE, D(3, "h"), D(1, "s"), D(1, "d"))
NoSchema  == SpecOf("b", FALSE, D(1, "d"), D(1, "m"), D(1, "h"))
TooLong   == SpecOf("b", TRUE, D(1, "h"), D(1, "d"), D(1, "s"))
\* Wraps: nine days are a negative number of nanoseconds, seventeen are one day.
Overflows == SpecOf("b", TRUE, D(1, "d"), D(9, "d"), D(17, "d"))
\* A count ParseInt rejects.
TooMany   == SpecOf("b", TRUE, D(200, "s"), D(1, "s"), D(1, "s"))

MCSpecs == {Good, Other, NoSchema, TooLong, Overflows, TooMany}
MCUnitLength == [s |-> 2, m |-> 3, h |-> 6, d |-> 16]
=============================================================================
