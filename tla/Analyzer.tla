------------------------------ MODULE Analyzer ------------------------------
(***************************************************************************)
(* The analyzer: AnalyzerController (src/analyzer/analyzercontroller.cc)   *)
(* with its proxy model (qtfilterproxymodel.cc), the chart dialogs         *)
(* (ofchartbardialog.cc, graphdialog.cc, drilldownchart.cc) and the        *)
(* reading side of SQLiteDataAccess.  Everything here runs in Qt's event   *)
(* loop, one handler at a time; a tracker writes to the same file          *)
(* meanwhile.                                                              *)
(***************************************************************************)
EXTENDS DataContainer, PieChart

CONSTANTS
    Files,          \* data files the user may open
    DefaultFile,    \* default_data_file(), which the tracker writes
    Entries,        \* rows a file may hold
    Texts,          \* the names and descriptions in them
    Filters,        \* valid search patterns (see match_filter)
    Expressions,    \* filter expressions: the rows they select
    Ranges,         \* what the user may set with Apply
    Policies,       \* of the pie chart
    ReadErrors      \* may a query fail before its last row?

ASSUME FilesAssumption == DefaultFile \in Files
ASSUME FiltersAssumption == Filters \subseteq SUBSET Texts
ASSUME ReadErrorsAssumption == ReadErrors \in BOOLEAN
ASSUME EntriesAssumption ==
    /\ IsFiniteSet(Entries)
    /\ Entries \subseteq [proc_name : Texts, description : Texts, day : CalendarDays,
                          hour : 0..23, duration : Int]
ASSUME RangesAssumption ==
    Ranges \subseteq [weekdays : SUBSET (0..6), from_hour : Int, to_hour : Int,
                      from_time : Int, to_time : Int]
ASSUME PoliciesAssumption ==
    Policies \subseteq [type : {"all", "percentage", "count"}, limit : Int]

VARIABLES
    files,          \* kind and rows of each data file
    data_access,    \* the file of the SQLiteDataAccess, if any, and how open() ended
    data_range, filter_pattern,
    model,          \* source model: process -> description -> seconds
    parents,        \* the time in the row of each process
    total_time,     \* the time in the status bar
    shown,          \* history: the file and the entries that were loaded
    dialog          \* the chart dialog

vars == <<files, data_access, data_range, filter_pattern, model, parents,
          total_time, shown, dialog>>

view == <<model, parents, total_time, shown>>

NoFilter == Texts       \* filter_pattern is none
NoFile == [file |-> "", state |-> "none"]
NoDialog == [kind |-> "none"]

Init ==
    /\ files \in [Files -> [kind : {"missing", "garbage", "notable"}, rows : {{}}]
                           \cup [kind : {"table"}, rows : {{}, Entries}]]
    /\ data_access = NoFile
    /\ data_range \in Ranges        \* set_controller comes before the first load
    /\ filter_pattern = NoFilter
    /\ model = << >> /\ parents = << >> /\ total_time = 0
    /\ shown = [file |-> "", entries |-> {}]
    /\ dialog = NoDialog

-----------------------------------------------------------------------------
(***************************************************************************)
(* The tracker, on the default file.                                       *)
(***************************************************************************)

Recorded ==
    /\ files[DefaultFile].kind = "table"
    /\ \E e \in Entries : files' = [files EXCEPT ![DefaultFile].rows = @ \cup {e}]
    /\ UNCHANGED <<data_access, data_range, filter_pattern, view, dialog>>

Created ==
    /\ files[DefaultFile].kind \in {"missing", "garbage"}
    /\ files' = [files EXCEPT ![DefaultFile] = [kind |-> "table", rows |-> {}]]
    /\ UNCHANGED <<data_access, data_range, filter_pattern, view, dialog>>

-----------------------------------------------------------------------------
(***************************************************************************)
(* get_entries.                                                            *)
(***************************************************************************)

\* Variant: both ends belong to the range.
SelectedClosed(e, range) ==
    /\ range.weekdays # {} => tm_wday(e.day) \in range.weekdays
    /\ e.hour >= range.from_hour /\ e.hour < range.to_hour
    /\ range.from_time # 0 /\ range.to_time # 0 =>
         time_start(e) >= range.from_time /\ time_start(e) <= range.to_time

\* The expression build_expression_from_range makes.  No weekday at all, or a
\* bound at the epoch, leaves its clause out; the hours, from spin boxes that
\* start at 0, are never below 0.
Selected(e, range) ==
    /\ range.weekdays # {} => tm_wday(e.day) \in range.weekdays
    /\ e.hour >= range.from_hour /\ e.hour < range.to_hour
    /\ range.from_time # 0 /\ range.to_time # 0 =>
         time_start(e) >= range.from_time /\ time_start(e) < range.to_time

InRange(entries, range) == {e \in entries : Selected(e, range)}

\* What the connection can see: without one, or without the table, no
\* statement is prepared and there is no row.
Rows(access) ==
    IF access.state \in {"open", "bare"} THEN files[access.file].rows ELSE {}

\* Rows come in the order of their times; one that fails ends the list, and
\* only the log says so.
Read(entries) ==
    IF ~ReadErrors THEN {entries}
    ELSE {R \in SUBSET entries :
            \A r \in R, e \in entries \ R : time_start(r) <= time_start(e)}

-----------------------------------------------------------------------------
(***************************************************************************)
(* The model and its totals.                                               *)
(***************************************************************************)

\* filterAcceptsRow: every process is accepted.
Visible(m, p, filter) == {d \in DOMAIN m[p] : d \in filter \/ p \in filter}

\* Variant: the sum goes over the source model.
update_parents_values_all(m, filter) ==
    LET total(p) == SumFunction(m[p])
    IN  /\ parents' = [p \in DOMAIN m |-> total(p)]
        /\ total_time' = SumFunction([p \in DOMAIN m |-> total(p)])

\* The sums over the visible rows, put into the rows of the processes.
update_parents_values(m, filter) ==
    LET total(p) == SumFunctionOnSet(m[p], Visible(m, p, filter))
    IN  /\ parents' = [p \in DOMAIN m |-> total(p)]
        /\ total_time' = SumFunction([p \in DOMAIN m |-> total(p)])

\* Variant: the sums wait for the next search.
load_model_stale(file, entries) ==
    /\ model' = ProcNameGroup(entries)
    /\ shown' = [file |-> file, entries |-> entries]
    /\ UNCHANGED <<parents, total_time>>

load_model(file, entries) ==
    /\ model' = ProcNameGroup(entries)
    /\ update_parents_values(ProcNameGroup(entries), filter_pattern)
    /\ shown' = [file |-> file, entries |-> entries]

\* A search pattern; an empty or a malformed one is none.  The letter case is
\* part of the pattern.
apply_filter(filter) ==
    /\ data_access # NoFile /\ dialog = NoDialog
    /\ filter_pattern' = filter
    /\ update_parents_values(model, filter)
    /\ UNCHANGED <<files, data_access, data_range, model, shown, dialog>>

\* How open(true) may end: "open"; "bare", where prepare_statements throws and
\* the connection stays; "closed".
Opened(file) ==
    {"closed"} \cup CASE files[file].kind = "table" -> {"open"}
                      [] files[file].kind = "notable" -> {"bare"}
                      [] OTHER -> {}

\* Variant: the entries are read by the next Apply.
load_from_file_lazily(file) ==
    /\ dialog = NoDialog
    /\ \E state \in Opened(file) : data_access' = [file |-> file, state |-> state]
    /\ UNCHANGED <<files, data_range, filter_pattern, view, dialog>>

\* run() loads the default file first.  The old file is given up before the
\* new one is open; when that throws, the old entries stay on the screen.
load_from_file(file) ==
    /\ dialog = NoDialog /\ (data_access = NoFile => file = DefaultFile)
    /\ \E state \in Opened(file) :
         LET access == [file |-> file, state |-> state]
         IN  /\ data_access' = access
             /\ IF state = "open"
                THEN \E R \in Read(InRange(Rows(access), data_range)) : load_model(file, R)
                ELSE UNCHANGED view
    /\ UNCHANGED <<files, data_range, filter_pattern, dialog>>

set_range(range) ==
    /\ data_access # NoFile /\ dialog = NoDialog
    /\ data_range' = range
    /\ \E R \in Read(InRange(Rows(data_access), range)) :
         load_model(data_access.file, R)
    /\ UNCHANGED <<files, data_access, filter_pattern, dialog>>

\* The expression is not kept: the next query is by range again.
apply_expression(expression) ==
    /\ data_access # NoFile /\ dialog = NoDialog
    /\ \E R \in Read(Rows(data_access) \cap expression) :
         load_model(data_access.file, R)
    /\ UNCHANGED <<files, data_access, data_range, filter_pattern, dialog>>

-----------------------------------------------------------------------------
(***************************************************************************)
(* The dialogs.  Each works on its own copy of the data, so the window     *)
(* waits here until the dialog is closed; dialog.read is history.          *)
(***************************************************************************)

\* Variant: the search pattern is forgotten.
QuickForgotten(entries) == entries

\* The entries that get_grouped lets through.
Quick(entries) == {e \in entries : match_filter(e, filter_pattern)}

OpenDialog(make(_, _)) ==
    /\ data_access # NoFile /\ dialog = NoDialog
    /\ \E R \in Read(InRange(Rows(data_access), data_range)) : make(R, Quick(R))
    /\ UNCHANGED <<files, data_access, data_range, filter_pattern, view>>

Bars(kind, read, group) ==
    dialog' = [kind |-> kind, read |-> read, bars |-> group, series |-> "total",
               entries |-> Quick(read)]

open_weekday_of_chart_dialog ==
    OpenDialog(LAMBDA read, quick : Bars("weekday", read, WeekdayGroup(quick)))
open_hour_of_chart_dialog ==
    OpenDialog(LAMBDA read, quick : Bars("hour", read, HourGroup(quick)))

ToggleSeries ==
    /\ dialog.kind \in {"weekday", "hour"}
    /\ dialog' = [dialog EXCEPT !.series = IF @ = "total" THEN "average" ELSE "total"]
    /\ UNCHANGED <<files, data_access, data_range, filter_pattern, view>>

\* A series for the pie chart; model.at() throws for an unknown process.
change_series(pie, proc_name) ==
    IF proc_name # "" /\ proc_name \notin DOMAIN pie.container
    THEN dialog' = [kind |-> "crashed"]
    ELSE \E slices \in get_series(pie.container, pie.is_full, pie.policy, proc_name) :
           dialog' = [pie EXCEPT !.name = proc_name, !.slices = slices]

open_drilldown_pie_chart(policy) ==
    OpenDialog(LAMBDA read, quick :
        change_series([kind |-> "pie", read |-> read, container |-> ProcNameGroup(quick),
                       is_full |-> FALSE, policy |-> policy, name |-> "", slices |-> {}],
                      ""))

OnPie(step(_)) ==
    /\ dialog.kind = "pie" /\ step(dialog)
    /\ UNCHANGED <<files, data_access, data_range, filter_pattern, view>>

set_model_type(is_full) ==
    OnPie(LAMBDA pie : change_series([pie EXCEPT !.is_full = is_full], ""))
set_policy(policy) ==
    OnPie(LAMBDA pie : change_series([pie EXCEPT !.policy = policy], ""))
handleSliceClicked(slice) ==
    OnPie(LAMBDA pie : ~pie.is_full /\ change_series(pie, get_name(slice)))

CloseDialog ==
    /\ dialog.kind \notin {"none", "crashed"} /\ dialog' = NoDialog
    /\ UNCHANGED <<files, data_access, data_range, filter_pattern, view>>

-----------------------------------------------------------------------------
Next ==
    \/ dialog = NoDialog /\ (Recorded \/ Created)
    \/ \E filter \in Filters \cup {NoFilter} : apply_filter(filter)
    \/ \E file \in Files : load_from_file(file)
    \/ \E range \in Ranges : set_range(range)
    \/ \E expression \in Expressions : apply_expression(expression)
    \/ open_weekday_of_chart_dialog \/ open_hour_of_chart_dialog
    \/ ToggleSeries
    \/ \E policy \in Policies : open_drilldown_pie_chart(policy) \/ set_policy(policy)
    \/ \E is_full \in BOOLEAN : set_model_type(is_full)
    \/ dialog.kind = "pie" /\ \E slice \in dialog.slices : handleSliceClicked(slice)
    \/ CloseDialog

Spec == Init /\ [][Next]_vars

-----------------------------------------------------------------------------
TypeOK ==
    /\ \A f \in Files : files[f].kind \in {"missing", "garbage", "notable", "table"}
                        /\ files[f].rows \subseteq Entries
    /\ data_access = NoFile \/ data_access.file \in Files
    /\ data_range \in Ranges /\ filter_pattern \in Filters \cup {NoFilter}
    /\ DOMAIN parents = DOMAIN model
    /\ \A p \in DOMAIN model : \A d \in DOMAIN model[p] : {p, d} \subseteq Texts
    /\ total_time \in Int /\ shown.entries \subseteq Entries
    /\ dialog.kind \in {"none", "weekday", "hour", "pie", "crashed"}

\* After any sequence of loads, ranges, expressions and searches, the status
\* bar has the time of exactly the entries loaded that match the search, and
\* each process the time of its own: the rows of the tree, filtered one by
\* one, and the entries, filtered before they are grouped, come to the same.
TotalsAddUp ==
    LET matching == {e \in shown.entries : match_filter(e, filter_pattern)}
    IN  /\ total_time = Total(matching)
        /\ \A p \in DOMAIN parents :
             parents[p] = Total({e \in matching : e.proc_name = p})

\* Entries of another file than the one queried stay on the screen only when
\* that one could not be opened.
ViewFollowsFile == data_access.state = "open" => shown.file = data_access.file

\* The chart that a step opens, if nothing was recorded, no read failed and
\* the view is by range, has the time of the view in all.
OpensOnTheView ==
    LET current == InRange(Rows(data_access), data_range)
        sum == IF dialog'.kind = "pie" THEN Sum(Everything(dialog'.container))
               ELSE SumFunction([k \in DOMAIN dialog'.bars |-> dialog'.bars[k].first])
    IN  dialog = NoDialog /\ dialog' # NoDialog /\ shown.entries = current
          /\ dialog'.read = current => sum = total_time

\* A chart queries again and filters the entries itself, and still shows the
\* view that it is opened on.
ChartsShowTheView == [][OpensOnTheView]_vars

\* Whatever the mode, the policy and the process drilled into, the slices
\* come to the whole of what is charted.
PieIsWhole ==
    dialog.kind = "pie" =>
        Sum(dialog.slices) =
            Sum(IF dialog.name = "" THEN Everything(dialog.container)
                ELSE Details(dialog.container, dialog.name))

\* No click, on "Others" or on a description either, asks for a process that
\* is not there.
ClicksAreSafe == dialog.kind # "crashed"

\* Two days that share a count key.
KeysMeet(entries) ==
    \E e, f \in entries : e.day # f.day /\ get_count_key(e.day) = get_count_key(f.day)

\* The averages divide by days: a weekday's bar counts its days exactly,
\* though keys of days overlap; an hour's bar may count too few, when they do.
DaysCounted ==
    dialog.kind \in {"weekday", "hour"} =>
        \A k \in DOMAIN dialog.bars :
            LET days == {e.day : e \in {e \in dialog.entries :
                           k = IF dialog.kind = "hour" THEN e.hour ELSE tm_wday(e.day)}}
                count == dialog.bars[k].second
            IN  /\ count <= Cardinality(days)
                /\ dialog.kind = "weekday" \/ ~KeysMeet(dialog.entries) =>
                     count = Cardinality(days)

\* A range and the one that follows it share no entry and miss none, unless
\* one starts at the epoch, which stands for no bound.
RangesPartition ==
    LET of(a, b) == InRange(Rows(data_access),
                            [data_range EXCEPT !.from_time = a, !.to_time = b])
        times == ({time_start(e) : e \in Entries} \cup {r.to_time : r \in Ranges}) \ {0}
    IN  \A a, b, c \in times : a < b /\ b < c =>
            of(a, b) \cap of(b, c) = {} /\ of(a, b) \cup of(b, c) = of(a, c)
=============================================================================
