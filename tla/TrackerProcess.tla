--------------------------- MODULE TrackerProcess ---------------------------
(***************************************************************************)
(* The daemon as a process: WorkerTracker::run on the main thread creates  *)
(* the TrackerJob, whose loop feeds the SQLiteDataAccess, and destroys     *)
(* both when the process ends.  stop() is called from signal handlers      *)
(* (Daemonizer::register_kill_method): a handler borrows a thread, which   *)
(* goes no further with its own code until the handler returns.  Handlers  *)
(* of different signals nest.  The process may die at any step and be      *)
(* started again on the same database.                                     *)
(***************************************************************************)
EXTENDS Integers, Sequences, FiniteSets

CONSTANTS
    Apps, NoApp, Period, MaxTime, HourLength, SqlErrors, LocaltimeRaces,
    Spurious,
    Signals,        \* the signals sent to one process, of different kinds
    HandlerThreads  \* the threads the kernel may deliver them to

Threads == {"main", "loop", "worker"}

ASSUME AppsAssumption == NoApp \notin Apps
ASSUME TimeAssumption == Period \in Int /\ MaxTime \in Nat \ {0}
ASSUME HourAssumption == HourLength \in Nat \ {0}
ASSUME FaultsAssumption ==
    SqlErrors \in BOOLEAN /\ LocaltimeRaces \in BOOLEAN /\ Spurious \in BOOLEAN
ASSUME SignalsAssumption == "free" \notin Signals /\ "loop" \notin Signals
ASSUME ThreadsAssumption == HandlerThreads \subseteq Threads

VARIABLES
    main,    \* where WorkerTracker::run and the static destructors are
    frames,  \* the handlers on each thread, the running one first
    now, waited, loop, entry, mutex, job_running, stop,
    db, db_running, saver, queue, worker, current, last_entry, rows, saved,
    newest, failed, misread

jobVars == <<now, waited, loop, entry, mutex, job_running, stop>>
dbVars == <<db, db_running, saver, queue, worker, current, last_entry, rows,
            saved, newest, failed, misread>>
vars == <<main, frames, jobVars, dbVars>>

Job == INSTANCE TrackerJob
         WITH Callers <- Signals, is_running <- job_running, given <- newest

\* data_queue has no bound; a session samples at most once a second and at
\* the stop.
DB == INSTANCE SQLiteDataAccess
        WITH Time <- 1..MaxTime, QueueBound <- MaxTime + 1,
             is_running <- db_running

\* No handler holds the thread up.
Free(t) == frames[t] = << >>

NoFrames == [t \in Threads |-> << >>]

Init ==
    /\ main = "off" /\ frames = NoFrames
    /\ Job!Init
    /\ DB!Init

-----------------------------------------------------------------------------
(***************************************************************************)
(* The main thread.  The job pointer is null until "run".                  *)
(***************************************************************************)

\* Handlers are registered, the process is in the background and has the lock.
Start ==
    /\ main = "off"
    /\ main' = "starting"
    /\ UNCHANGED <<frames, jobVars, dbVars>>

\* TrackerJob's constructor opens the data access...
ConstructStore ==
    /\ main = "starting"
    /\ DB!Open
    /\ main' = "constructing"
    /\ UNCHANGED <<frames, jobVars>>

\* ...and initialises the window provider, or calls stop() itself.
ConstructJob ==
    /\ main = "constructing"
    /\ job_running' \in BOOLEAN
    /\ main' = "run"
    /\ UNCHANGED <<frames, now, waited, loop, entry, mutex, stop, dbVars>>

RunJob ==
    /\ main = "run" /\ Free("main")
    /\ Job!Run
    /\ main' = "join"
    /\ UNCHANGED <<frames, dbVars>>

\* Variant: the loop's thread is not joined.
JoinNothing ==
    /\ main = "join" /\ Free("main")
    /\ main' = "exit"
    /\ UNCHANGED <<frames, jobVars, dbVars>>

JoinLoop ==
    /\ main = "join" /\ Free("main") /\ loop = "done"
    /\ main' = "exit"
    /\ UNCHANGED <<frames, jobVars, dbVars>>

DestroyStore ==
    /\ main = "exit" /\ Free("main")
    /\ DB!DtorClear \/ DB!DtorNotify
    /\ UNCHANGED <<main, frames, jobVars>>

Gone ==
    /\ main' = "off" /\ frames' = NoFrames
    /\ waited' = 0 /\ loop' = "idle" /\ entry' = Job!NoEntry
    /\ mutex' = "free" /\ job_running' = TRUE
    /\ stop' = [s \in Signals |-> "idle"]
    /\ now' = now

Exit ==
    /\ main = "exit" /\ Free("main")
    /\ DB!DtorJoin
    /\ Gone

MainStep ==
    \/ ConstructStore \/ ConstructJob \/ RunJob \/ JoinLoop
    \/ DestroyStore \/ Exit

-----------------------------------------------------------------------------
(***************************************************************************)
(* The sampling thread and the persist worker.                             *)
(***************************************************************************)

LoopOwnStep ==
    /\ Free("loop")
    /\ \/ Job!Begin \/ Job!LoopAgain \/ Job!Wait \/ Job!LoopEnd
       \/ Job!WaitReturns \/ Job!Relock \/ Job!Sample
    /\ UNCHANGED <<main, frames, dbVars>>

SaveEntry ==
    /\ Free("loop")
    /\ Job!Save /\ DB!Push(entry)
    /\ UNCHANGED <<main, frames>>

SaveReturns ==
    /\ Free("loop")
    /\ Job!SaveReturns /\ DB!SaveNotify
    /\ UNCHANGED <<main, frames>>

WorkerStep ==
    /\ Free("worker")
    /\ DB!WorkerStep
    /\ UNCHANGED <<main, frames, jobVars>>

WorkerSpuriousWake ==
    /\ Free("worker")
    /\ DB!SpuriousWake
    /\ UNCHANGED <<main, frames, jobVars>>

-----------------------------------------------------------------------------
(***************************************************************************)
(* Signals.                                                                *)
(***************************************************************************)

Alive(t) ==
    CASE t = "main" -> main # "off"
      [] t = "loop" -> loop \notin {"idle", "done"}
      [] t = "worker" -> worker \notin {"none", "done"}

\* The handler calls job->stop() on the thread it interrupts.
Signal(t, s) ==
    /\ Alive(t) /\ main \in {"run", "join", "exit"}
    /\ Job!StopCall(s)
    /\ frames' = [frames EXCEPT ![t] = <<s>> \o @]
    /\ UNCHANGED <<main, dbVars>>

Running(s) == \E t \in Threads : ~Free(t) /\ Head(frames[t]) = s

HandlerLock(s) ==
    /\ Running(s)
    /\ Job!StopLock(s)
    /\ UNCHANGED <<main, frames, dbVars>>

HandlerSet(s) ==
    /\ Running(s)
    /\ Job!StopSet(s)
    /\ UNCHANGED <<main, frames, dbVars>>

HandlerReturn(s) ==
    /\ Running(s)
    /\ Job!StopNotify(s)
    /\ frames' = [t \in Threads |->
                    IF ~Free(t) /\ Head(frames[t]) = s THEN Tail(frames[t])
                                                       ELSE frames[t]]
    /\ UNCHANGED <<main, dbVars>>

\* The process dies: it is killed, a handler meets the null job pointer, or
\* the constructor throws.
Die ==
    /\ main # "off"
    /\ DB!Crash \/ (db = "closed" /\ UNCHANGED dbVars)
    /\ Gone

Tick == Job!Tick /\ UNCHANGED <<main, frames, dbVars>>

-----------------------------------------------------------------------------
Next ==
    \/ Start \/ MainStep
    \/ LoopOwnStep \/ SaveEntry \/ SaveReturns
    \/ WorkerStep \/ WorkerSpuriousWake
    \/ \E t \in HandlerThreads, s \in Signals : Signal(t, s)
    \/ \E s \in Signals : HandlerLock(s) \/ HandlerSet(s) \/ HandlerReturn(s)
    \/ Die \/ Tick

Spec == Init /\ [][Next]_vars

HandlerFairness(s) ==
    SF_vars(HandlerLock(s)) /\ WF_vars(HandlerSet(s)) /\ WF_vars(HandlerReturn(s))

\* Threads that can run do.  The holders of the two mutexes keep releasing
\* them, so a thread that asks for one gets it.
Fairness ==
    /\ WF_vars(MainStep)
    /\ WF_vars(LoopOwnStep)
    /\ SF_vars(SaveEntry)
    /\ WF_vars(SaveReturns)
    /\ WF_vars(WorkerStep)
    /\ \A s \in Signals : HandlerFairness(s)

FairSpec == Spec /\ Fairness

-----------------------------------------------------------------------------
TypeOK ==
    /\ main \in {"off", "starting", "constructing", "run", "join", "exit"}
    /\ frames \in [Threads -> Seq(Signals)]
    /\ Job!TypeOK
    /\ DB!TypeOK

\* The loop never outlives what it uses: while the sampling thread is alive
\* the data access is open, and it is destroyed with no save_entry under way.
StoreOutlivesLoop ==
    /\ Alive("loop") => db = "open"
    /\ db \in {"notify", "join"} => saver = "idle"
    /\ saver = "notify" <=> loop = "saving"

\* The tracker gives the data access what SQLiteDataAccess expects of its
\* client (Admissible), over stops, crashes and restarts.
UsesStoreAsSpecified == DB!Spec

\* The thread whose code holds TrackerJob::mutex.
Holder ==
    IF mutex = "loop" THEN {"loop"}
    ELSE {t \in Threads : \E i \in 1..Len(frames[t]) : frames[t][i] = mutex}

\* A handler waits for the mutex its own thread holds underneath, or for the
\* loop, which waits for the worker's mtx, which the handler's thread holds.
Deadlocked ==
    \E t \in Threads :
        /\ ~Free(t) /\ stop[Head(frames[t])] = "lock"
        /\ \/ t \in Holder
           \/ t = "worker" /\ worker = "tested" /\ "loop" \in Holder
                           /\ loop = "save"

\* The destructor notified the worker after it tested is_running and before
\* it waited.
WakeupLost == db = "join" /\ worker = "waiting"

\* A signal ends the process, unless it meets one of these two accidents.
StopEndsOrIsStuck ==
    (\E s \in Signals : stop[s] = "lock") ~>
        (main = "off" \/ Deadlocked \/ WakeupLost)

\* "Stop daemon": a signal ends the sampling.
StopEndsLoop ==
    (\E s \in Signals : stop[s] = "lock") ~> (loop = "done" \/ main = "off")

\* "Stop daemon": a signal ends the process.
StopEndsProcess == (\E s \in Signals : stop[s] = "lock") ~> main = "off"

\* An orderly end leaves every sample in the database.
NothingLeftBehind == main = "exit" /\ worker = "done" => queue = << >>

\* No second is counted in two rows.
NoSecondTwice == DB!NoOverlap
=============================================================================
