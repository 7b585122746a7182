# Verification of WorkerTracker

WorkerTracker has two programs: **workertracker**, a daemon that samples which
window has the focus and stores the samples in an SQLite table, and
**workertracker-analyzer**, a Qt program that reads the table. This directory
holds TLA+ modules translated from their source, the TLC configurations that
check them and proofs that TLAPS checks. Paths below are relative to the
repository's `src/`.

To repeat the checks, in this directory:
`tlc -config Store.cfg MCSQLiteDataAccess` (likewise for the other `.cfg` files,
see "Runs"), and `tlapm` on each of the modules named `...Proofs`.

## Inventory

| Component | State | Operations | Talks to |
|---|---|---|---|
| `TrackerJob` (tracker/trackerjob.cc) | `mutex`, `terminate`, `is_running`; the loop's local entry | `read_window_info` (the loop), `run`, `stop` | asks the window provider and the plugins, calls `save_entry`; stopped by signal handlers and by its own constructor |
| `SQLiteDataAccess`, writing (wtcommon/sqlitedataaccess.cc) | `data_queue`, `mtx`, `cv`, `is_running`, `last_entry`, two statements; the table | `open`, `save_entry`, `persist_worker`, `persist_record`, destructor | called by the loop, destroyed by main; a worker thread of its own |
| `WorkerTracker`, `Daemonizer` (tracker/) | the job pointer, the handlers | `run`, `move_to_background`, `kill_process`, `register_kill_method` | creates and destroys the job; handlers call `job->stop()` on any thread |
| Single instance (posixsingleapplocker.cc, mswindows\*.cc) | lock file with a pid; a named mutex on Windows | `lock`, `unlock`, `--stop` | another process, through the file |
| Database file (sqlitedataaccess.cc 49-139, 173-213) | a file, its table, its backups | exists, create, back up | the file system, across crashes |
| Plugins (plugincontainer.cc, pluginloader.\*, the three plugins) | plugins sorted by rank | load, `process_controllers`, suspend, update | called by the loop on every sample |
| Configuration (configuration.cc) | a property tree | read once, getters | everything at start |
| Filter expressions (tokenizer.cc, binaryexpression\*.cc, sqlitedataaccess.cc 291-357) | token buffer; operator and operand stacks | tokenize, parse, translate to SQL | the analyzer, `get_entries` |
| Grouping (datacontainer.h, `get_entries`) | rows read, groups and day counters | group by day, hour, weekday, name | the analyzer's charts |
| Analyzer (analyzer/) | data access, expression, tree model, filter model, series | load, filter, set range, draw, drill down | `get_entries` |
| Window providers, logging, registries | none that others read, except `localtime`'s static result | | |

What is hard here is in the daemon: three threads and asynchronous signal
handlers share two mutexes and two condition variables; the process may die at
any step and is restarted on the same table; failures of SQLite are only logged;
the table is updated through a column that is no key; and the lock file, the
database file and its backups outlive the processes that leave them half done.
In the analyzer and the expression parser the risk is in sequences of legal calls
(filter, range, drill-down) and in small algorithms with edge cases.
`PROJECT.json` lists each hazard at its line with the properties aimed at it.

What makes each component correct:

- *TrackerJob*: samples follow one another without overlap; none is longer than
  three periods; `stop()` ends the loop without waiting for the period.
- *SQLiteDataAccess*: no second in two rows; no second attributed to an
  application that was not sampled; what was recorded stays; rows stay within an
  hour; what is queued is stored; the destructor returns.
- *The process*: the store outlives its users; a signal ends the process;
  nothing queued is lost at an orderly end.
- *Single instance*: at most one daemon; `--stop` signals that one.
- *Database file*: after any crash the next start finds or makes a usable table
  and loses no rows.
- *Plugins*: suspension wins over updates; the highest rank first.
- *Expressions*: the tree evaluates and translates to SQL as the grammar says;
  malformed input is refused.
- *Grouping and analyzer*: totals shown are those of the rows selected, in the
  tree, in a bar chart and in a pie; a day is counted once.

## Modules

| Module | Models |
|---|---|
| `ActivityLog` | the promise: a log from instants to applications that only grows at its end |
| `SQLiteDataAccess` | the writing side of the data access, with an arbitrary client |
| `SQLiteDataAccessProofs` | its theorems: the table, the hours, what is recorded, the refinement of `ActivityLog` |
| `TrackerJob` | the sampling loop and `stop()`, with an arbitrary store |
| `TrackerJobProofs` | its theorems |
| `TrackerProcess` | both of them joined, plus main, signal handlers, death and restart |
| `TrackerProcessProofs` | its theorems, from those of the two parts |
| `Processes` | the parameters of the modules on start-up: pids and platforms |
| `SingleInstance` | lock, pid file or named mutex, and `--stop`, of any number of processes |
| `SingleInstanceProofs` | its theorems |
| `DatabaseFile` | `open(false)` step by step, with the file, its backups and their faults |
| `Startup` | the two joined: lock first, then open the database |
| `StartupProofs` | its theorems |
| `Plugins` | the plugin loader and container, and what the plugins may answer |
| `PluginsProofs` | its theorems |
| `Tokenizer`, `ExpressionParser` | a filter expression from its characters to its SQL condition |
| `ExpressionParserProofs` | theorems about both, and about the recursive functions they are written with |
| `DataContainer` | rows read, and their grouping by process, hour and weekday |
| `PieChart` | the slices of a pie: policies, "Others", drill-down |
| `Analyzer` | the analyzer's controller, tree and dialogs, over the two modules before it |
| `AnalyzerProofs` | the theorems about all three |
| `MC...` | the small instances |

**SQLiteDataAccess.** Time is in seconds; an entry or row is `[start, end, app]`,
`app` standing for the pair (proc_name, description), which the code only compares.
`rows` is the table with `start` as its primary key. `worker` says where
`persist_worker` is: `loop` (about to test, under `mtx`), `tested` (has decided to
wait and still holds `mtx`), `waiting` (inside `cv.wait`), `persist` (outside
`mtx`, with an entry in hand), `done`. The test under `mtx` is one step because
nobody else changes the queue meanwhile; `is_running` is written without `mtx`
(`DtorClear`), which is why `tested` exists. `save_entry` is two steps, the push
(`Push`) and the notification after the unlock (`SaveNotify`), which wakes the
worker only if it is waiting then. `persist_record` is one step: SQLite commits a
statement as a whole or not at all, and nothing else reads the locals.
`last_entry` changes even if the statement fails. `Open` is `open(false)` on a
usable file. `DtorClear`, `DtorNotify` and `DtorJoin` are the three statements of
the destructor; `Crash` loses all but the table. `HourRead` is the result of
`localtime` in the comparison of hours: with `LocaltimeRaces` each of the two
results may have been overwritten by another thread that formats the time of a
log line. `Admissible` is what the client owes: entries follow one another, and
one of zero length is the last of its session. `saved`, `newest`, `failed` and `misread`
are history variables that no action reads except `Admissible` and `HourRead`; `misread`
has the samples of which `persist_record` took two different hours for one (`Misread`).

**TrackerJob.** `loop` follows `read_window_info`; it holds `mutex` from `Begin`
on, except in `wait` and `woken` (after the wakeup, before the mutex is taken
again). The test of `is_running` (`LoopAgain`, `LoopEnd`) and the start of the sleep
(`Wait`) are two steps, with `round` between them: it is the mutex, not the grain
of the model, that keeps a `stop()` from slipping in. `waited` is the sleep on the steady clock, `now` the wall clock; `Tick`
may advance `now` by more than one second (suspend, clock set ahead).
`Sample` reads the clock, takes any application and lets the plugins suspend; a
sample longer than three periods is dropped. Each caller runs `stop()` once:
`StopLock`, `StopSet` (which releases the mutex), `StopNotify`.

**TrackerProcess** instantiates both, with TrackerJob's `given` equal to the
store's `newest`, and adds the main thread (`main`) and the signal handlers
running on each thread (`frames`, the innermost first). A thread with a frame does
not run its own code. One handler per signal kind may run at a time, and each kind is sent
once in the life of a process; different kinds nest on a thread, as
`std::signal` allows. Before `job` is assigned
(`main` in `starting`, `constructing`) a signal dereferences a null pointer: this is
one of the deaths of `Die`, as is a foreground process's Ctrl-C, for which no handler
is registered. A handler on a thread that sleeps in `wait_for` interrupts the
sleep only through the notification it sends.

**SingleInstance.** A pid is the sequence of its digits, because that is what the
lock file holds: `WritePid` overwrites the first digits and leaves the rest, as
`write` on a file opened without `O_TRUNC` does. `proc` says where each process is in
`run()`. Start-up takes `OpenLockFile`, `TryLock` (lockf with F_TLOCK) and
`WritePid`, or `OpenMutex` and `CreateMutex` on Windows. A process that comes
from `move_to_background` begins with `Start` after its fork; the parent is not
seen again. `--stop` takes `ReadPid` (an empty file leaves `pid_value`
uninitialised: any pid) or `Snapshot`, and then `Kill` or `KillNobody`. The calls that
can fail do: `CannotOpenLockFile`, `NoPidFile`, `KillNobody`, and `WriteFails`, after which
the daemon is up all the same, `unnamed` in the lock file. `Die` ends any
process anywhere and frees its pid; the file stays. `met` is history: the
daemons that were up when a process began.

**DatabaseFile.** The file is missing, no database, a database without the table
(an empty file is one), or the table with its rows. `open(false)` looks at it (`Begin`), takes it
(`UseExisting`), finds it unusable (`Unusable`) or throws out of
`prepare_statements` (`PrepareThrows`). `create_database` moves it aside (`SetAside`), makes a new one
(`MakeFile`), and gives it the table (`CreateTable`); each of these may throw, and so
may the preparation of the statements after them (`PrepareThrowsAfterwards`).
The backup of the present second and the earlier ones are apart since
`strftime` names a backup by its second and rename replaces. With `FileErrors`
any call of SQLite or of the file system may fail once.

**Startup** puts `DatabaseFile` after `SingleInstance`, as `run()` does: only a
process that is past `lock()` constructs the `TrackerJob` that opens the file. `Die`
ends both at once. On Windows a file someone has open cannot be renamed
(`InUse`). `OwnStep` is what a process does by itself, for `NobodyWaits`.

**Plugins.** A library is its plugin, its name, its rank and whether symbol and version fit.
`TryLoad` takes the files of one directory after another, in no fixed order
within one; `Keep` is the constructor of `PluginContainer`: the enabled ones,
sorted by rank, equal ranks in any order. A sample goes through `Begin` (the copy
into the two fixed buffers), `Ask` for each plugin, `AllDeclined`, `Update`
for each until one breaks off, and `Stored`. `Suspends` and `Updates` have the
answers of the three plugins of the repository, and any answer of another one, which
may rewrite the names or not and break off or not. `GNOMEScreenSaver` may answer either way:
it says that an active screen saver is not when there is no session bus, when the name has
no owner, or when the call fails or takes longer than 100 ms, and an error reply leaves its
answer to an uninitialised variable (gnomescreensaver.cc:102). So no property says that a
sample under an active screen saver is dropped. The
URL reader takes 50 characters of the title (WT_MAX_APP_NAME_LEN), not the title's
own maximum.

**Tokenizer, ExpressionParser.** `Type` and `Submit` are the user; `get_tokens`
reads the characters (escapes, a number too large, the step back at the end), and then
each action reads one token or, when `MustMake` says so, pops two operands and an operator (`Make`).
A tree is kept in Polish notation. `Condition` is the condition
`load_expression_condition` writes. An unmatched `)` pops an empty
`std::stack`: the phase `undefined`, which has no step and of which `UnbalancedNeverQueried`
says when it is reached. A filter of one
operand is a null pointer that no query follows from. `Grammar`
is the reference: a recursive definition of what an expression
means, with comparisons above one level of left-associative AND and OR.
`Meant` puts the dates of a text together before the grammar is applied to it; with
`SqlPrecedence` the same grammar says how SQL reads the condition.

**DataContainer, PieChart, Analyzer.** A row has the calendar day and hour of its start,
its duration, and two names; a search pattern is the set of texts it is found
in. `get_count_key` is `(tm_year << 8) | tm_yday` by its arithmetic.
`Analyzer` has one action per slot or menu entry; the tree view is `model` with
the sums in `parents` and `total_time`, the status bar. The tracker adds rows to
the default file, or creates it, between any two clicks. `Read` may stop before
the last row, as `get_entries` does on an error. `shown` and `dialog.read` are history:
what was loaded and what a chart read. One dialog is open at a time and the window
waits for it: a dialog has its own copy of the data, so that
nothing in the window can affect it.

## Runs

| Run | Instance | Shows |
|---|---|---|
| `Store.cfg` | 2 applications, instants 1..4, hours of 2 seconds, queue of 2, SQLite errors, the race of `localtime` | `NoOverlap`, `Attribution`, `RowsWithinHour`, `Recorded`, the refinement of `ActivityLog`, `Drains` |
| `Job.cfg` | 2 callers of `stop()`, period 1, clock 1..6 | `StopIsPrompt`, `SamplesFollow`, `StopEnds` |
| `Process.cfg` | 2 signals on all 3 threads, clock 1..3, 1 application | `StoreOutlivesLoop`, the store is used as it specifies, `StopEndsOrIsStuck` |
| `Startup.cfg` | 3 pids, one a prefix of another, 1 row, both platforms, any first file, file errors | `OneAtTheFile`, `LateComersYield`, `StopAimsAtDaemon`, `TableWhileOpen`, `NobodyWaits`, `RowsKept` |
| `Plugins.cfg` | 2 paths with 5 libraries, ranks 0, 2 or unset, 2 pairs of names | `FirstPathWins`, `SuspensionFirst`, `HigherRankFirst` |
| `Expressions.cfg` | 4 tokens out of 14, 7 out of 6 | `ReadsBack`, `GrammarIsParsed`, `OperandsInOrder`, `UnbalancedNeverQueried`, `SqlMeansTheSame` |
| `Analyzer.cfg` | 2 files, 4 rows, 3 ranges, 2 patterns, 1 expression, 3 policies, read errors | `TotalsAddUp`, `ViewFollowsFile`, `ChartsShowTheView`, `PieIsWhole`, `ClicksAreSafe`, `DaysCounted`, `RangesPartition` |
| `StopHang.cfg` | 1 signal, on the main thread | *violated:* `StopEndsProcess` |
| `StopNested.cfg` | 2 signals, on the main thread | *violated:* `StopEndsLoop` |
| `LastSample.cfg` | 1 signal, on the main thread | *violated:* `NothingLeftBehind` |
| `EarlyWake.cfg` | no signals, early returns of `wait_for` | *violated:* `NoSecondTwice` |
| `HalfMade.cfg` | 1 pid, no file, no failing calls | *violated:* `StartsAgain` |

Four instants hold three consecutive samples: a row, its extension across an hour
or within it, a change of application, a restart in between, and an empty
closing sample in the same second as the next session's first. A queue of two
plus the worker's entry is the least that can be reordered. In `Job.cfg`, six
seconds with a period of one are the least in which a sample of more than three
periods follows another. In `Process.cfg` there are samples before, during and
after a signal and a restart; neither the application nor a failing statement nor a
misread hour matters to its properties, so it has one application and no such faults.
The bounds are `Time`, `QueueBound`, `MaxTime` and the number of `Callers` or
`Signals`; deadlock is not checked because the clock bound and the end of the
loop stop the system.

Three processes are a daemon, one that comes late or dies half-way, and a `--stop`; the
pids 1, 2 and 12 let a short pid be written over a long one and read as a
third process's. One row is enough to be lost. `Startup.cfg` does not check deadlock
since all pids may be taken by daemons on Windows, and `NobodyWaits` says more. In `Plugins.cfg` a name is on both paths,
one library has the wrong version, ranks can tie, and one pair of names is longer than
the buffers. Four tokens out of all kinds hold a comparison and one token more; seven
out of the core hold two comparisons joined by AND or OR, or one in
two pairs of parentheses. `Expressions.cfg` stops when the text is parsed.
In `Analyzer.cfg` two days share a count key, one process has the empty name, a description
is another process's name, and ranges start at the epoch, have no weekday, or
meet at a row. `MaxInt` is 42 so that a number can be too large.

`UsesStoreAsSpecified` is what joins the two halves: the composed system never
pushes an entry that is not `Admissible`, so all that is checked and proved of
`SQLiteDataAccess` under that assumption holds of the daemon. It depends on
`wait_for` not returning early (`Spurious = FALSE`); `EarlyWake.cfg` shows what
happens otherwise.

**Findings.** The five violated properties, with the lines involved, are in
`PROJECT.json`. `StopEndsOrIsStuck` shows that the first two are the only ways in
which a signal fails to end the process: a handler waiting for a mutex held up by
the thread it interrupted (`Deadlocked`), or the destructor's lost notification
(`WakeupLost`). `StartsAgain` is violated by a tracker that dies between making
the file and making the table; every later start of it then fails.

Known exceptions are in the statements of the properties themselves:
`StopAimsAtDaemon` excepts a pid that was not written or was written over a longer one
(posixsingleapplocker.cc:40 neither truncates nor looks at the result); `RowsWithinHour`
excepts a row from the sample on whose hours were misread (sqlitedataaccess.cc:268,
logger.cc:27); `UnbalancedNeverQueried` is about the text as far as it is read: `5 < 99 )`,
with `MaxInt` 42, is queried as `5 < 42`, because the tokenizer drops what follows a
number that is too large, and the pop of an empty stack, where the test
`InvalidSyntax_NoOpeningParenthesis` expects a throw, is not forbidden but confined to
texts whose parentheses do not pair; `OneAtTheFile` is for POSIX, since
two Windows processes may both find no mutex; `RowsKept` excepts a second
backup in one second; `DaysCounted` lets an hour's bar count too few days where
keys meet (datacontainer.h:50); `ViewFollowsFile` excepts a file that did not open
(analyzercontroller.cc:66); `ChartsShowTheView` is about a view
by range, because a chart queries by range also when an expression is shown
("Visualize Current View...", qtanalyzerwindow.ui:250).

Seen in the code and not stated as a property: `end_hour` and `end_weekday` are translated to
`time_start` (sqlitedataaccess.cc:303-304), but the tokenizer refuses the underscore, so that neither
they nor `start_hour` (dataaccess.cc:10-15) can be typed; the string
operators `>=` and `<=` are entered under `>` and `<` (binaryexpressiontree.cc:92, 94),
which only the evaluation in memory uses; unchecking every weekday selects all days;
a bound at the epoch drops the time clause
(analyzercontroller.cc:101); a read error ends the list in silence
(sqlitedataaccess.cc:394).

**Fairness.** Weak fairness for each thread's own steps: the scheduler runs what
can run, and SQLite, the window system and `save_entry` return. Strong fairness
for taking a mutex (`StopLock`, `HandlerLock`, and `SaveEntry`, which takes `mtx`):
the loop leaves `mutex` free for a whole period in every round and the worker
leaves `mtx` free while it waits and while it writes, so an asker is not passed
over for ever. None for signals, time, spurious wakeups, samples, opening or
beginning to close a store, or restarts. The modules of start-up, plugins, parser and
analyzer state no fairness: what must eventually happen there depends on the user, and
`NobodyWaits` says by enabledness that a start never waits.

## Proofs

`SQLiteDataAccessProofs` proves, for every `Apps`, `Time`, `HourLength`,
`QueueBound` and both faults, `Spec => []TypeOK`, `Spec => []NoOverlap`
and `Spec => []Attribution`. Assumptions: the empty name pair is no application
that is sampled, instants are positive integers, hours are not empty, and the
faults are Booleans. Time 0 is left out because a default `DataEntry` carries it.

The rows alone do not carry the argument: that an UPDATE by TIME_END
hits at most one row, of the right application, depends on what is on its way. The
inductive invariant `IInv` says:

- `PipelineInv`: `last_entry`, the worker's `current` and the queue are in order,
  each of non-zero length and ended before the next begins (only the very last,
  `newest`, may be empty), and every one was saved;
- `RowsBehind`: every row ended before any of them begins, and not after
  `last_entry` ended;
- `RowsAtLast`: a row that ends with `last_entry` has its application and is not
  empty unless `last_entry` is;
- `KeyUnique`, `NoOverlap`, `Attribution`.

TLC finds no violation of it on the instance of `Store.cfg`.
The lemmas `ContinuousFacts`, `ExtendedAfter` and `InsertedAfter` treat the two
statements; failed ones leave `UnchangedAfter`. The other steps move
entries along the pipeline or (`QuietKeeps`) leave the data alone.

The same module proves three more theorems about the table.
`Spec => []RowsWithinHour`, for all constants: `HourInv` adds to `IInv`
that what was saved is in order (`SavedInOrder`) and that the row that ends with
`last_entry` holds its start (`RowHoldsLast`), so that an UPDATE, made in the hour of
`last_entry`, keeps the row in that hour (`KeepsHour`), or, if two different hours were read
as one, marks the sample as `misread`, from which on the property excepts that row
(`HoursAfter` says what either statement keeps). `Spec => []Recorded`, for all constants: an
UPDATE finds its row only if the entry before was recorded, and an INSERT is refused
only by an empty row with its key, so `LastRecorded` says which of the two became
of `last_entry` (`RowHolds`, `KeyTaken`). And `Spec => ImplementsActivityLog`: under
`Recording`, which reads the table as a function from instants to
applications, each step is a step of the log or a stutter. `RowsBehind` gives that an
UPDATE adds only behind everything recorded, `NoOverlap` that the table reads as a
function (`LookUp`, `LogBehind`, `SaysTheSame`, `SaysNoMore`).

`TrackerJobProofs` proves, for every set of callers and applications and any
clock bound, `Spec => []TypeOK`, `Spec => []StopIsPrompt`, and
`Spec => SamplesFollow` for a period of at least one second and a `wait_for` that
does not return early (`~Spurious`; `EarlyWake.cfg` shows that this is needed). Assumptions: callers are not
named `free` or `loop`, the period is an integer, the clock bound is positive. An
interval of zero or less gets through `validate_configuration`; `NothingMeasured` says what it comes to:
every sample given to `save_entry` is empty, or none is given. The invariant `IdleInv` is that no
entry reaches `save` but with the time at which its round began, since a longer one is longer than three periods.
`JobInv` relates the mutex to the places of its holders (`MutexInv`) and says
that the loop is in `round` only while `is_running`, and asleep after a stop only
while some caller has still to notify (`StopInv`). `SampledInv` says which fields of
the local entry are filled in where; `EntryInv` relates it to the clock: the time slept
is a lower bound for the length of the sample, so that a
sample is empty only after a stop, and `GivenInv` that an empty sample is given only
when the loop can reach no other round. `SamplesInOrder` proves the action property
from these.

`TrackerProcessProofs` proves for the whole daemon, with any signals on any threads,
deaths and restarts: its types (`TypeCorrect`), `StoreOutlivesLoop` and
`StopIsPrompt`, for all constants; and, with `~Spurious` and a period of at least a
second, `Spec => UsesStoreAsSpecified`, from which `NoOverlap` and
`Attribution` of the rows follow. The argument takes the theorems of the two parts over by INSTANCE:
every step is a step of `TrackerJob` (`JobNext`, unless the job is made or dies) and, if the
entry it pushes is admissible, one of `SQLiteDataAccess` (`StoreNext`), so their step lemmas
apply here. What is new is what joins them: `LifeInv` ties the places of
main, loop and store together; `NewestInv` says that the newest sample of all sessions is not
after the clock, so that a session that begins after a crash gives admissible entries
from the first; and `Spaced`, that no two waiting entries begin in one second, bounds the queue
by the clock (`Room`), which is why the bound of the store's queue is never felt. The assumptions are those of the
two parts.

`NothingIsRecorded` takes `NothingMeasured` to the table: with such an interval no second is in any row, whatever
the number of sessions. (`IdleStore`: an INSERT of an empty entry adds a row that covers nothing, an UPDATE with one
leaves its row as it was.)

How the process may hang is a matter of safety, and is proved for any number of kinds of
signals nested on any threads. `TwoWaysToHang`: in every state of a living process the guards of a
fair action hold (`SomeoneGoes`), or the loop sleeps and nobody has asked it to stop, or it is `Deadlocked`, or
`WakeupLost`. The invariant `HangInv` is `JobInv` with `FramesInv`, which says that the handlers inside
`stop()` are exactly those in the frames, each once, so that the holder of the mutex is on some thread, and
`WaitInv`: the main thread waits for threads that exist. The proof follows who waits for whom: a handler on top
of a stack waits only for the mutex; its holder is the loop or a handler; and the loop, if it holds the mutex, waits only for
the worker's `mtx`. `DeadlockIsForEver` and `LostWakeupIsForEver` say that nothing but
death (or, for the second, a spurious wakeup) ends these states, so that they are not delays; and `MaskingPreventsDeadlock`
that the deadlocks go away when only the main thread takes signals and handlers do not interrupt each
other, which is how the code could be repaired (`sigaction` with `sa_mask`, and `pthread_sigmask` in both threads).

`SingleInstanceProofs` proves, for any set of pids, that at most one
process is up on POSIX, `LateComersYield` and `StopAimsAtDaemon`. The invariant
says who holds the lock where (`LockInv`), that a daemon met at the start holds it still (`MetInv`), and that
the file of a daemon that wrote its pid has it or a longer one (`FileInv`; `Overwritten` is the fact about digits written over
digits). The assumption is that pids are non-empty digit sequences.

`StartupProofs` shows that `Startup` implements `SingleInstance` (`Locking`) and so
inherits its invariant, and proves `OneAtTheFile`, `TableWhileOpen`,
`RowsKept` and both properties of the lock for any pids, rows and first files, with
file errors. `UserInv` is what joins the two: a process at the file is up and on POSIX holds the
lock, hence no two are between looking at the file and having it open. On Windows
`TableWhileOpen` rests on the rename that fails while the file is in use.

`AnalyzerProofs` proves all seven properties of the run `Analyzer.cfg`, for any files, entries, ranges,
search patterns, expressions and policies. The assumptions: the entries are finitely
many, on days that exist, with durations that are integers, and ranges and policies
have the fields the code gives them. The properties compare sums taken in
different orders: row by row over the tree, entry by entry, and slice by slice. The
first part of the module shows what `SumFunctionOnSet` of the community modules computes:
its recursion has one solution, by an induction derived from the least element of
a set of naturals, and a sum may be split, grouped by any key (`SumGrouped`), or
renamed (`SumRenamed`). From these, `RowsAddUp` is the agreement of the
filter model with entries filtered before they are grouped, `OverviewsAgree` that of the
two overviews of a pie, `SeriesIsWhole` that a policy puts into "Others" what it
leaves out. `ViewInv` says that model, rows and status bar are always those of the
entries last loaded, and `DialogInv` what each kind of dialog holds.
`DaysCounted` rests on `WeekdaysCounted`, for every finite set of entries:
two days of one weekday never share a count key (`SameKeyOtherWeekday`), because
days that share one lie 109, 110, 256, 365 or 366 days apart, none of them a
multiple of seven. The calendar is that of `DayNumber`, right from 1901 to 2099.

`PluginsProofs` proves all four properties of `Plugins` for any sequence of directories,
any configuration, any names and buffer lengths. `PInv` says that the kept plugins
are sorted (`LoadInv`), that the buffers fit (`BufferInv`), how far the sample has been
asked about (`AskInv`), and that the updates called are the first plugins in their order
(`CallInv`). `FirstPathWins` needs more of the loader, while it runs: `dirs` is a tail of the
paths from whose head some files are gone (`DirsInv`), and each name seen has one
plugin, from the first path that has it (`LoadedInv`). The assumptions: the
paths are sets of libraries, ranks and lengths are natural numbers, names are
pairs of sequences.

`ExpressionParserProofs` proves, for texts of any length over any characters,
variables and dates, all six properties of the run `Expressions.cfg`: `TypeOK`, `ReadsBack`,
`GrammarIsParsed`, `OperandsInOrder`, `UnbalancedNeverQueried` and `SqlMeansTheSame`. Tokenizer and parser are full of recursion, written as
recursive functions; such a definition says only `CHOOSE f : f = ...`, so the module
begins with the fact that the equation has a solution when each value depends on the values
at smaller arguments (`FixedPoint`, by induction on the size), and a lemma for each
function (`OnlyUnfolds`, `TokensRead`, `ConditionUnfolds`, `MeantUnfolds`, `GrammarUnfolds`)
says that it obeys its equation and has its type. `Polish`, the set of expressions in Polish
notation, is the smallest one with the operands and closed under operations, which gives the induction
over expressions (`PolishInduction`) and that the ends of two operands are found again (`Sides`). The
invariants are few: each operand on the stack is in `Polish`; the parentheses opened in what was
read are those closed, those on the operator stack and those that became operators
(`Balanced`), so that a query has as many of one as of the other (`QueriedCounts`); operands on the stack and operands read are the same sequence (`InOrder`), the
reader never being inside a date (`Unsplit`). That SQL reads a condition as its expression
follows by induction over the expression: each operator stands between parentheses of its own,
so only the one in the middle is outside of all (`OnlyRoot`, `SoundOperation`).

That parentheses also pair is `PairInv`. At no place read more of them are closed than opened
(`Covers`); while there is more to read none has become an operator (`Unopened`), so that
`Balanced` counts the open ones on the operator stack (`ReadDepth`), and a stack found empty at
a closing one (`Emptied`) means that this one has no partner. Of the tokens this is
`PairedAsRead`; `ReadsBack`, below, takes it to the text.

`GrammarIsParsed` sets the two stacks against the grammar, which they never consult. The
grammar splits an expression at its root, with the whole text at hand; the parser has read a
part. What it has read, its operands and its operators are related by `Halfway`, while it reads a
text that is valid (`Tracks`): either an operand comes next, and `Waits`, the least
set of situations reached by nothing, by an opening parenthesis, and by an operator
after a phrase of the grammar; or one has come (`Came`): such a situation, then a phrase, in which
every operator binds more strongly than the one waiting on the stack, and no less than the
one that comes next. Then to make an operation (`CameMakes`), to drop a parenthesis
(`CameCloses`) and to push an operator (`CameApplies`) lead to such situations again,
because a phrase joined by an operator of the right strength is a phrase with that root
(`RootBetween`, `PhraseOperation`, `PhraseParentheses`). That the parser's turns are
those cases rests on what every expression of the grammar obeys (`Lawful`,
`GrammarIsLawful`): parentheses pair, and an operand or an opening parenthesis follows
exactly at the beginning, an operator or an opening parenthesis (`Turns`). At the end nothing waits, so the one
operand left is what the grammar says of the whole.

`ReadsBack` needs the text while it is typed: `Written` says that the words typed cover it (`Laid`),
each from its place to the next, perhaps after a space, and parted from what stands behind it
(`Parted`: no run of letters or digits goes on there, and no `=` after `<` or `>`). What
`Joined` puts between two words keeps that (`JoinedIs`, `SpansKept`, `SpansNext`). From
such a place the tokenizer reads the word and goes on behind it (`SpanRead`, from one lemma for each
kind: `NumberRead` with `DecimalOfValue`, `NameRead`, `StringRead` over the escapes,
`OperatorRead`, `StrayRead`), so it reads them one after another up to the first that stops it
(`ReadUpTo`).

The assumptions of the module: letters, digits,
operators, quote, backslash and space can be typed, the alphabet consists of tokens, and
`MaxInt` has two digits at most. Only `ReadsBack` uses `LegibleAssumption`: numbers are typed without
leading zeros (they are read, but as another spelling), names begin with a letter, and a stray
is one character that begins no token.

**Liveness and ENABLED.** The prover cannot evaluate ENABLED, which weak and strong fairness and `NobodyWaits` are
defined by. So each of the four modules concerned states its guards by hand, and `GuardsEnable`: where they hold, the action is
possible and changes something. The theorems below have `[]GuardsEnable` as a hypothesis. It is
a fact about the actions as they are written, with no word about which states are reached; TLC confirms it
on the instances of `Store.cfg`, `Job.cfg`, `Process.cfg` and `Startup.cfg`
(check the `...Proofs` module with `INVARIANT GuardsEnable`). All else, which states lead to which and that none
of them lasts, is proved by chains of leads-to.

- `StopEnding` (`StopEnds`): a stop() ends the loop. With an endless supply of callers
  the loop, only weakly fair, could be passed over at the mutex for ever; `LoopGetsMutex` (strong fairness of its two
  locks) is a second hypothesis here, which the few callers of a run do not need.
- `WorkerServes`: an entry that waits is turned to. `WakeInv` has the reason: the worker is in `tested` only with an
  empty queue, because pushing needs `mtx`; and it is asleep before a queue that is not empty only while
  `save_entry` has still to notify.
- `DestructorEnds`: the destructor returns or lost its notification.
- `NobodyHeldUp` (`NobodyWaits`): besides `StartupInv` it takes `LockedInv` (`locked` is a place on POSIX only) and
  `MadeInv` (on Windows nobody moves the file away under a process that is about to make the table).
- `SignalEnds` (`StopEndsOrIsStuck`) for one kind of signal, on any thread at any moment, and
  `MaskedSignalEnds`, where only the lost notification remains. The chain goes from the handler through the loop, which is not
  held up for ever (`LoopLetsGo`), to `run()`, which joins it (`LoopIsJoined`), and the destructor
  (`StoreIsDestroyed`).

Only model-checked, then: `Drains`, which needs that pushes come to an end, as the queue bound and the clock
make them in a run; and `StopEndsOrIsStuck` with two kinds of signals, where handlers nest and the
argument would be an induction over the stack of frames.

## Not modelled

- *Windows inside TrackerProcess*: `--stop` terminates the process outright (`Die`), there are no
  handlers.
- *Clock set back*: seconds that were recorded occur again; the table has no
  right answer to it. The model's clock does not run backwards.
- *Handlers and async-signal safety*: locking in a handler is undefined by the
  standard; the model takes what Linux does, a plain self-deadlock. So also for
  handlers that run while the job is being destroyed.
- *A second delivery of a kind of signal*, on another thread while its first
  handler still runs, and after it returned.
- *Writing a statement in part, or reporting failure after success*: SQLite's
  atomic commit is taken as given.
- *A parameter that cannot be bound* (sqlitedataaccess.cc:251-256 steps the statement all the
  same, with NULL for it): binding integers and texts that stay where they are takes no memory,
  so the model has no such failure; the statement itself may fail.
- *A write of a part of the pid*: `write` does all of it or nothing.
- *Several faults of one kind at one place*: a plugin that writes past its buffers, a lock
  file deleted by hand, two users with one run directory.
- *Time of the analyzer*: the predefined ranges of the window read the date twice
  (qtanalyzerwindow.cc:93, 97) and may differ at midnight; a change of the time zone
  between two reads; negative durations.
- *Evaluation of an expression tree in memory*, which only the tests use.
- *Configuration*: reading the JSON file, and the cap of the interval
  (configuration.cc:43; `Period` is any integer, below or above it); the values that matter are constants or free choices of the modules.
- Widgets, layout, labels, colours, axes, wording, log output, the Gtk predecessor of the analyzer
  (analyzerwindow.cc), window system calls.
- *SQLite*: `sqlite3.h`, about two thirds of the lines of the repository, is a vendored header
  without code. The lines modelled are thus a small share of all lines; of
  those the project wrote they are about a third, and what remains is mostly
  the list above, includes, declarations and tests.

## Plan

What would be added next, in this order:

1. `DatabaseFile` with the analyzer's `open(true)` beside a tracker that makes the file.
2. The predefined ranges of the analyzer with a clock.
