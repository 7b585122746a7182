------------------------------ MODULE Startup ------------------------------
(***************************************************************************)
(* workertracker from its command line to a usable database: run() takes   *)
(* the lock (SingleInstance), and only then TrackerJob's constructor opens *)
(* the database file (DatabaseFile), which open() takes for its own.       *)
(***************************************************************************)
EXTENDS Processes

CONSTANTS Rows, Initially, FileErrors

ASSUME FileErrorsAssumption == FileErrors \in BOOLEAN

VARIABLES platform, pid_file, held, proc, sees, met,
          dbfile, backup, older, opener

Lock == INSTANCE SingleInstance
DB == INSTANCE DatabaseFile WITH Openers <- Pids

lockVars == <<platform, pid_file, held, proc, sees, met>>
dbVars == <<dbfile, backup, older, opener>>
vars == <<lockVars, dbVars>>

Init == Lock!Init /\ DB!Init

Outside(p) == opener[p] = "closed"

\* Steps of run() before the job is made, and of --stop.
LockStep(p) ==
    /\ \/ Lock!Start(p) \/ Lock!StartStep(p) \/ Lock!StopStep(p)
       \/ Lock!Leave(p)
    /\ UNCHANGED dbVars

\* TrackerJob's constructor, also if a signal has come by now.
OpenDatabase(p) ==
    /\ p \in Lock!Up /\ DB!Begin(p)
    /\ UNCHANGED lockVars

\* On Windows a file that someone has open cannot be renamed.
InUse(p) ==
    platform = "windows" /\ \E q \in Pids \ {p} : opener[q] \in {"exec", "open"}

DatabaseStep(p) ==
    /\ \/ DB!OpenStep(p) /\ (opener[p] = "create" => ~InUse(p))
       \/ InUse(p) /\ DB!SetAsideThrows(p)
    /\ UNCHANGED lockVars

Track(p) ==
    /\ \E r \in Rows : DB!Store(p, r)
    /\ UNCHANGED lockVars

\* The end of a process: killed, refused a database, or stopped in order.
Die(p) == Lock!Die(p) /\ DB!Close(p)

Next ==
    \/ \E p \in Pids : LockStep(p) \/ OpenDatabase(p) \/ DatabaseStep(p)
                       \/ Track(p) \/ Die(p)
    \/ DB!Tick /\ UNCHANGED lockVars

Spec == Init /\ [][Next]_vars

\* What a process does by itself: one that is refused a lock or a database, or
\* that is told to end, does end.
OwnStep(p) ==
    \/ (Lock!StartStep(p) \/ Lock!Leave(p)) /\ UNCHANGED dbVars
    \/ OpenDatabase(p) \/ DatabaseStep(p)
    \/ Die(p) /\ (opener[p] = "refused" \/ proc[p] = "ending")

-----------------------------------------------------------------------------
TypeOK == Lock!TypeOK /\ DB!TypeOK

\* POSIX: no two processes are at the database file at once, which is what
\* lets open() look, move away and create in separate steps.
OneAtTheFile ==
    platform = "posix" =>
        \A p, q \in Pids : ~Outside(p) /\ ~Outside(q) => p = q

LateComersYield == Lock!LateComersYield
StopAimsAtDaemon == Lock!StopAimsAtDaemon
RowsKept == DB!RowsKept
TableWhileOpen == DB!TableWhileOpen

\* A start neither waits for the daemon that is up nor hangs on the database
\* file: whatever the others hold, it can go on until it tracks or is gone.
NobodyWaits ==
    \A p \in Pids :
        proc[p] \notin {"none", "stop", "aim"} /\ opener[p] # "open" =>
            ENABLED OwnStep(p)

\* A tracker that is started on what an earlier one left behind, with nothing
\* failing, gets its table (violated: open() cannot use a file without it).
StartsAgain == DB!StartsAgain
=============================================================================
