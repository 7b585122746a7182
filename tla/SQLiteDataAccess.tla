-------------------------- MODULE SQLiteDataAccess --------------------------
(***************************************************************************)
(* src/wtcommon/sqlitedataaccess.{h,cc}: the object that stores what the   *)
(* tracker samples.  A client thread pushes entries on a queue; a worker   *)
(* thread, started by open(), pops them and turns each into an INSERT or   *)
(* into an UPDATE that extends the row written before; the destructor      *)
(* stops the worker.  The process may die at any step and a later one      *)
(* opens the same file.                                                    *)
(***************************************************************************)
EXTENDS Integers, Sequences, FiniteSets

CONSTANTS
    Apps,            \* (proc_name, description) pairs, compared as a whole
    NoApp,           \* the empty pair of a default-constructed DataEntry
    Time,            \* instants, in seconds; 0 is never the time of a sample
    HourLength,      \* seconds in an hour
    QueueBound,      \* bound on data_queue, which the code leaves unbounded
    SqlErrors,       \* may sqlite3_step fail (busy, disk full, I/O error)?
    LocaltimeRaces   \* may other threads overwrite localtime's static result?

ASSUME AppsAssumption == NoApp \notin Apps
ASSUME TimeAssumption == Time \subseteq Nat \ {0}
ASSUME HourAssumption == HourLength \in Nat \ {0}
ASSUME QueueAssumption == QueueBound \in Nat
ASSUME FaultsAssumption == SqlErrors \in BOOLEAN /\ LocaltimeRaces \in BOOLEAN

VARIABLES
    db,          \* the object: "closed" when there is none
    is_running,  \* read by the worker under mtx, written by the destructor without
    saver,       \* where the client thread is in save_entry
    queue,       \* data_queue
    worker,      \* where the worker thread is; it holds mtx in "tested"
    current,     \* the worker's local entry
    last_entry,  \* the entry persisted before
    rows,        \* the table; TIME_START is its primary key
    saved,       \* history: the entries of non-zero length given to save_entry
    newest,      \* history: the newest entry given; no application once reopened
    failed,      \* history: did a statement of this object fail (key conflicts apart)?
    misread      \* history: starts of samples given the hour of the one before, wrongly

vars == <<db, is_running, saver, queue, worker, current, last_entry, rows,
          saved, newest, failed, misread>>

Instant == Time \cup {0}

Entry == [start : Time, end : Time, app : Apps]

\* DataEntry() in dataentry.h.
NoEntry == [start |-> 0, end |-> 0, app |-> NoApp]

Instants(e) == {t \in Time : e.start <= t /\ t < e.end}

\* What the database says: the instants of its rows.
Covered == UNION {Instants(r) : r \in rows}

Init ==
    /\ db = "closed" /\ is_running = FALSE
    /\ saver = "idle" /\ queue = << >>
    /\ worker = "none" /\ current = NoEntry /\ last_entry = NoEntry
    /\ rows = {} /\ saved = {} /\ newest = NoEntry /\ failed = FALSE
    /\ misread = {}

-----------------------------------------------------------------------------
(***************************************************************************)
(* The client.                                                             *)
(***************************************************************************)

\* open(false) on a usable file: a new object and its worker.
Open ==
    /\ db = "closed"
    /\ db' = "open" /\ is_running' = TRUE
    /\ worker' = "loop" /\ last_entry' = NoEntry
    /\ newest' = [start |-> newest.end, end |-> newest.end, app |-> NoApp]
    /\ UNCHANGED <<saver, queue, current, rows, saved, failed, misread>>

\* Variant: the queue is filled without mtx.
PushUnlocked(e) ==
    /\ db = "open" /\ saver = "idle"
    /\ queue' = Append(queue, e)
    /\ saver' = "notify"
    /\ saved' = saved \cup {f \in {e} : f.start < f.end} /\ newest' = e
    /\ UNCHANGED <<db, is_running, worker, current, last_entry, rows, failed, misread>>

\* save_entry, the part under mtx.
Push(e) ==
    /\ db = "open" /\ saver = "idle" /\ worker # "tested"
    /\ queue' = Append(queue, e)
    /\ saver' = "notify"
    /\ saved' = saved \cup {f \in {e} : f.start < f.end} /\ newest' = e
    /\ UNCHANGED <<db, is_running, worker, current, last_entry, rows, failed,
                   misread>>

\* Variant: a sample of zero length may be followed by others.
AdmissibleAnyLength(e) == newest.end <= e.start /\ e.start <= e.end

\* What the client owes: entries follow one another in time, and one of zero
\* length is the last of its session (the sample cut short by stop()).
Admissible(e) ==
    /\ newest.end <= e.start /\ e.start <= e.end
    /\ newest.app # NoApp => newest.start < newest.end

SaveEntry(e) ==
    /\ Len(queue) < QueueBound
    /\ Admissible(e)
    /\ Push(e)

\* cv.notify_one() after the unlock; lost when the worker is not waiting.
SaveNotify ==
    /\ saver = "notify"
    /\ saver' = "idle"
    /\ worker' = IF worker = "waiting" THEN "loop" ELSE worker
    /\ UNCHANGED <<db, is_running, queue, current, last_entry, rows, saved,
                   newest, failed, misread>>

-----------------------------------------------------------------------------
(***************************************************************************)
(* persist_worker.                                                         *)
(***************************************************************************)

WorkerDecideWait ==
    /\ worker = "loop" /\ queue = << >> /\ is_running
    /\ worker' = "tested"
    /\ UNCHANGED <<db, is_running, saver, queue, current, last_entry, rows,
                   saved, newest, failed, misread>>

\* cv.wait(lck) releases mtx and blocks in one step.
WorkerWait ==
    /\ worker = "tested"
    /\ worker' = "waiting"
    /\ UNCHANGED <<db, is_running, saver, queue, current, last_entry, rows,
                   saved, newest, failed, misread>>

SpuriousWake ==
    /\ worker = "waiting"
    /\ worker' = "loop"
    /\ UNCHANGED <<db, is_running, saver, queue, current, last_entry, rows,
                   saved, newest, failed, misread>>

WorkerStop ==
    /\ worker = "loop" /\ ~is_running
    /\ worker' = "done"
    /\ UNCHANGED <<db, is_running, saver, queue, current, last_entry, rows,
                   saved, newest, failed, misread>>

\* Variant: the newest entry is taken first.
WorkerTakeLast ==
    /\ worker = "loop" /\ queue # << >> /\ is_running
    /\ current' = queue[Len(queue)] /\ queue' = SubSeq(queue, 1, Len(queue) - 1)
    /\ worker' = "persist"
    /\ UNCHANGED <<db, is_running, saver, last_entry, rows, saved, newest, failed,
                   misread>>

WorkerTake ==
    /\ worker = "loop" /\ queue # << >> /\ is_running
    /\ current' = Head(queue) /\ queue' = Tail(queue)
    /\ worker' = "persist"
    /\ UNCHANGED <<db, is_running, saver, last_entry, rows, saved, newest,
                   failed, misread>>

\* Variant: the names are not compared.
ContinuousInTime(e, f) == e.end = f.start

is_continuous(e, f) == e.end = f.start /\ e.app = f.app

tm_hour(t) == (t \div HourLength) % 24

\* What std::localtime(&t)->tm_hour may read.  A thread that logs calls
\* localtime with the present time, which is not before the newest sample's.
HourRead(t) ==
    {tm_hour(t)} \cup
    (IF LocaltimeRaces THEN {tm_hour(u) : u \in {u \in Time : newest.end <= u}}
                       ELSE {})

\* Variant: the hours are not compared.
ContinuesAnyHour(h1, h2) == is_continuous(last_entry, current)

\* The sample extends the row of the one before: h1 and h2 are the hours read
\* for the starts of the two.
Continues(h1, h2) == is_continuous(last_entry, current) /\ h1 = h2

\* The start of the sample, if two different hours were read as one.
Misread(h1, h2) ==
    {t \in {current.start} :
        is_continuous(last_entry, current) /\ h1 = h2
            /\ tm_hour(last_entry.start) # tm_hour(t)}

\* Variant: UPDATE ... WHERE TIME_START = e.start.
ExtendedByStart(e) ==
    {IF r.start = e.start THEN [r EXCEPT !.end = e.end] ELSE r : r \in rows}

\* UPDATE ... SET TIME_END = e.end WHERE TIME_END = e.start.
Extended(e) ==
    {IF r.end = e.start THEN [r EXCEPT !.end = e.end] ELSE r : r \in rows}

\* Variant: last_entry is bound instead of entry.
InsertedLast(e) == rows \cup {last_entry}

\* INSERT: refused when the primary key is taken.
Inserted(e) ==
    IF \E r \in rows : r.start = e.start THEN rows ELSE rows \cup {e}

\* persist_record: the entry becomes last_entry whatever SQLite answered.
persist_record ==
    /\ worker = "persist"
    /\ \E h1 \in HourRead(last_entry.start), h2 \in HourRead(current.start) :
         /\ \/ /\ rows' = IF Continues(h1, h2) THEN Extended(current)
                                              ELSE Inserted(current)
               /\ failed' = failed
            \/ SqlErrors /\ rows' = rows /\ failed' = TRUE
         /\ misread' = misread \cup Misread(h1, h2)
    /\ last_entry' = current
    /\ worker' = "loop" /\ current' = NoEntry
    /\ UNCHANGED <<db, is_running, saver, queue, saved, newest>>

-----------------------------------------------------------------------------
(***************************************************************************)
(* ~SQLiteDataAccess, on the client's thread, and the death of the process.*)
(***************************************************************************)

DtorClear ==
    /\ db = "open" /\ saver = "idle"
    /\ is_running' = FALSE
    /\ db' = "notify"
    /\ UNCHANGED <<saver, queue, worker, current, last_entry, rows, saved,
                   newest, failed, misread>>

DtorNotify ==
    /\ db = "notify"
    /\ db' = "join"
    /\ worker' = IF worker = "waiting" THEN "loop" ELSE worker
    /\ UNCHANGED <<is_running, saver, queue, current, last_entry, rows, saved,
                   newest, failed, misread>>

\* What a dead object leaves behind: the table.
Forget ==
    /\ db' = "closed" /\ is_running' = FALSE /\ saver' = "idle"
    /\ queue' = << >> /\ worker' = "none"
    /\ current' = NoEntry /\ last_entry' = NoEntry
    /\ failed' = FALSE
    /\ UNCHANGED <<rows, saved, newest, misread>>

DtorJoin == db = "join" /\ worker = "done" /\ Forget

Crash == db # "closed" /\ Forget

-----------------------------------------------------------------------------
WorkerStep ==
    \/ WorkerDecideWait \/ WorkerWait \/ WorkerTake \/ WorkerStop
    \/ persist_record

ClientStep ==
    \/ Open
    \/ \E e \in Entry : SaveEntry(e)
    \/ SaveNotify
    \/ DtorClear \/ DtorNotify \/ DtorJoin

Next == WorkerStep \/ SpuriousWake \/ ClientStep \/ Crash

Spec == Init /\ [][Next]_vars

\* The scheduler runs the threads that can run, and save_entry returns.
Fairness ==
    /\ WF_vars(WorkerStep)
    /\ WF_vars(SaveNotify)
    /\ WF_vars(DtorNotify)
    /\ WF_vars(DtorJoin)

FairSpec == Spec /\ Fairness

-----------------------------------------------------------------------------
Pending == {queue[i] : i \in 1..Len(queue)} \cup
           (IF worker = "persist" THEN {current} ELSE {})

TypeOK ==
    /\ db \in {"closed", "open", "notify", "join"}
    /\ is_running \in BOOLEAN
    /\ saver \in {"idle", "notify"}
    /\ queue \in Seq(Entry)
    /\ worker \in {"none", "loop", "tested", "waiting", "persist", "done"}
    /\ current \in Entry \cup {NoEntry}
    /\ last_entry \in Entry \cup {NoEntry}
    /\ rows \subseteq Entry
    /\ saved \subseteq Entry
    /\ failed \in BOOLEAN
    /\ misread \subseteq Time
    /\ newest \in [start : Instant, end : Instant, app : Apps \cup {NoApp}]

\* No instant is in two rows: totals over the table count nothing twice,
\* although UPDATE picks its row by TIME_END and keys repeat across sessions.
NoOverlap ==
    \A r1, r2 \in rows :
        r1 # r2 => r1.end <= r2.start \/ r2.end <= r1.start

\* Every instant of a row was sampled with the row's application, whichever
\* statements failed before and whichever row an UPDATE hit.
Attribution ==
    \A r \in rows : \A t \in Instants(r) :
        \E s \in saved : t \in Instants(s) /\ s.app = r.app

\* A row keeps to the clock hour it started in, by which the analyzer groups
\* it (time_start), up to the first sample in it for which persist_record read
\* two different hours as one, a logging thread having overwritten the result
\* of std::localtime (logger.cc:27).
RowsWithinHour ==
    \A r \in rows : \A s \in saved :
        r.start <= s.start /\ s.start < r.end =>
            \/ tm_hour(s.start) = tm_hour(r.start)
            \/ \E t \in misread : r.start < t /\ t <= s.start

\* While no statement fails, a sample that went through persist_record is in
\* the table, unless an empty
\* row of an earlier session held the primary key its run needed; then nothing
\* is recorded from that key on.
Recorded ==
    last_entry # NoEntry /\ ~failed =>
        \/ Instants(last_entry) \subseteq Covered
        \/ \E z \in rows :
              /\ z.start = z.end /\ z.end <= last_entry.start
              /\ \A t \in Covered : t < z.end

\* The table as a log: which application each recorded instant belongs to.
Recording == [t \in Covered |-> (CHOOSE r \in rows : t \in Instants(r)).app]

\* The table implements the append-only log of ActivityLog: an UPDATE adds at
\* the end of the log too, and no step changes or removes what was recorded.
Log == INSTANCE ActivityLog WITH log <- Recording
ImplementsActivityLog == Log!Spec

\* An object left open drains its queue: no wakeup of the worker is lost
\* between its test of the queue and its wait.
Drains == (queue # << >>) ~> (queue = << >> \/ db # "open")
=============================================================================
