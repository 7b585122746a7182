------------------------------ MODULE PieChart ------------------------------
(***************************************************************************)
(* The slices of DrilldownChart (src/analyzer/drilldownchart.cc,           *)
(* drilldownslice.h) and the slice policies that put the small ones        *)
(* together as "Others" (smartpieseries.cc).  A container is what          *)
(* ProcNameGroup of DataContainer gives.                                   *)
(***************************************************************************)
EXTENDS Integers, FiniteSets, FiniteSetsExt, Sequences, SequencesExt

\* A slice stands for a process, or for a description of a process.
Slice(of, value, drill) == [of |-> of, value |-> value, drill |-> drill]
Sum(slices) == SumFunction([s \in slices |-> s.value])

Policy(type, limit) == [type |-> type, limit |-> limit]

Details(container, p) ==
    {Slice(<<p, d>>, container[p][d], FALSE) : d \in DOMAIN container[p]}
Processes(container) ==
    {Slice(<<p>>, Sum(Details(container, p)), TRUE) : p \in DOMAIN container}
Everything(container) == UNION {Details(container, p) : p \in DOMAIN container}

\* Variant: every slice answers with its name.
get_name_always(slice) == Last(slice.of)

\* What a click on a slice asks for; the empty name asks for the overview.
get_name(slice) == IF slice.drill THEN Last(slice.of) ELSE ""

\* The slices that the policy may let through, in the order of their values;
\* std::sort leaves equal ones in any order.
Kept(slices, policy, duration) ==
    CASE policy.type = "all" -> {slices}
      [] policy.type = "percentage" ->
            {{s \in slices : 100 * s.value >= policy.limit * duration}}
      [] policy.type = "count" ->
            {K \in SUBSET slices :
                /\ Cardinality(K) = Min({policy.limit, Cardinality(slices)})
                /\ \A s \in K, t \in slices \ K : s.value >= t.value}

\* Variant: finalize is not called.
FinalizedWithoutOthers(kept, slices) == kept

\* The kept slices and one for all the others.
Finalized(kept, slices) ==
    kept \cup IF kept = slices THEN {}
              ELSE {Slice(<<"Others">>, Sum(slices \ kept), FALSE)}

\* The series get_series may make for the overview (no name) or one process.
\* Empty groups get no slice.
get_series(container, is_full, policy, proc_name) ==
    LET overview == IF is_full THEN Everything(container) ELSE Processes(container)
        all == IF proc_name = "" THEN overview ELSE Details(container, proc_name)
        slices == {s \in all : s.value # 0}
    IN  {Finalized(kept, slices) : kept \in Kept(slices, policy, Sum(all))}
=============================================================================
