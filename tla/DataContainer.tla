---------------------------- MODULE DataContainer ----------------------------
(***************************************************************************)
(* The rows that the analyzer reads and how they are grouped               *)
(* (src/wtcommon/dataentry.h, datacontainer.h).  A row starts at a day of  *)
(* the local calendar, as localtime gives it, and an hour of that day.     *)
(***************************************************************************)
EXTENDS Integers, FiniteSets, FiniteSetsExt

\* A day: tm_year counts from 1900, tm_yday from 0.
Day(tm_year, tm_yday) == [tm_year |-> tm_year, tm_yday |-> tm_yday]
CalendarDays == [tm_year : Nat, tm_yday : 0..365]

\* Days since 1 January 1900, a Monday; right from 1901 to 2099.
DayNumber(day) == 365 * day.tm_year + (day.tm_year - 1) \div 4 + day.tm_yday
tm_wday(day) == (1 + DayNumber(day)) % 7

DataEntry(proc_name, description, day, hour, duration) ==
    [proc_name |-> proc_name, description |-> description,
     day |-> day, hour |-> hour, duration |-> duration]

\* In hours since 1970.
time_start(entry) == 24 * (DayNumber(entry.day) - 25567) + entry.hour

\* A filter is the set of the texts in which its pattern is found.
match_filter(entry, filter) == entry.proc_name \in filter \/ entry.description \in filter

Total(entries) == SumFunction([e \in entries |-> e.duration])

-----------------------------------------------------------------------------
\* (tm_year << 8) | tm_yday: a day from 256 on reaches the lowest bit of the
\* year, and the "or" of two ones there is a one.
get_count_key(day) ==
    (256 * day.tm_year) + (day.tm_yday % 256) +
        (IF day.tm_yday >= 256 /\ day.tm_year % 2 = 0 THEN 256 ELSE 0)

\* Variant: every entry counts, not every day.
process_entries_all(group) == [first |-> Total(group), second |-> Cardinality(group)]

\* The seconds of a group of entries and the number of days they fall on.
process_entries(group) ==
    [first |-> Total(group),
     second |-> Cardinality({get_count_key(e.day) : e \in group})]

OfGroup(entries, keys, get_key(_)) ==
    [k \in keys |-> process_entries({e \in entries : get_key(e) = k})]

HourGroup(entries) == OfGroup(entries, 0..23, LAMBDA e : e.hour)
WeekdayGroup(entries) == OfGroup(entries, 0..6, LAMBDA e : tm_wday(e.day))

\* The seconds of each process name and, in it, of each description.
ProcNameGroup(entries) ==
    [p \in {e.proc_name : e \in entries} |->
        LET group == {e \in entries : e.proc_name = p}
        IN  [d \in {e.description : e \in group} |->
                Total({e \in group : e.description = d})]]
=============================================================================
