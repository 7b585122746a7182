----------------------------- MODULE MCAnalyzer -----------------------------
(* A small instance of Analyzer for TLC.  A and D are Fridays, of 2017 and   *)
(* of 2018; C, in September 2017, has the count key of A.  One process has   *)
(* no name, and one description is the name of another process.              *)
EXTENDS Analyzer

A == Day(117, 5)
C == Day(117, 261)
D == Day(118, 4)

MCEntries ==
    {DataEntry("p", "x", A, 9, 40), DataEntry("p", "q", A, 9, 1),
     DataEntry("", "x", C, 9, 40), DataEntry("q", "y", D, 10, 2)}
MCTexts == {"", "p", "q", "x", "y"}
MCFilters == {{"x"}, {"q"}}
MCExpressions == {{e \in MCEntries : e.hour = 9}}

DataRange(weekdays, from_hour, to_hour, from_time, to_time) ==
    [weekdays |-> weekdays, from_hour |-> from_hour, to_hour |-> to_hour,
     from_time |-> from_time, to_time |-> to_time]
Midnight(day) == 24 * (DayNumber(day) - 25567)
MCRanges ==
    {DataRange(0..6, 0, 24, Midnight(A) - 24, Midnight(Day(118, 20))),
     DataRange({5}, 0, 10, 0, Midnight(C)),
     DataRange({}, 0, 24, Midnight(A), Midnight(D))}
MCPolicies == {Policy("all", 0), Policy("count", 1), Policy("percentage", 5)}
=============================================================================
