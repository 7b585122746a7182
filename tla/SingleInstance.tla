--------------------------- MODULE SingleInstance ---------------------------
(***************************************************************************)
(* How workertracker keeps to one instance and how --stop finds it.        *)
(* POSIX: a lockf lock on a file that also holds the pid in decimal        *)
(* (posixsingleapplocker.cc, daemonizer.cc).  Windows: a named mutex, and  *)
(* a search of the process list (mswindowssingleapplocker.cc,              *)
(* mswindowsbgrunner.cc).  WorkerTracker::run is the order of the steps.   *)
(* Processes come and go, their pids are used again, and the lock file     *)
(* outlives them all.                                                      *)
(***************************************************************************)
EXTENDS Processes

VARIABLES
    platform,   \* the build; never changes
    pid_file,   \* the digits in the lock file, or NoFile
    held,       \* who holds the lock (POSIX) or a handle of the mutex (Windows)
    proc,       \* where each process is in run(); "none" when the pid is free
    sees,       \* the pids a --stop takes for the daemon's
    met         \* history: the daemons up when this process began, if still up

vars == <<platform, pid_file, held, proc, sees, met>>

\* What no number is written as.
NoFile == <<10>>

Alive(p) == proc[p] # "none"

\* The daemons: past lock(), also if the pid could not be written.
Up == {p \in Pids : proc[p] \in {"up", "unnamed"}}

Init ==
    /\ platform \in Platforms
    /\ pid_file = NoFile /\ held = {}
    /\ proc = [p \in Pids |-> "none"]
    /\ sees = [p \in Pids |-> {}] /\ met = [p \in Pids |-> {}]

\* p is no more; what it held is released, the file stays.
Gone(p) ==
    /\ proc' = [proc EXCEPT ![p] = "none"]
    /\ held' = held \ {p}
    /\ sees' = [sees EXCEPT ![p] = {}]
    /\ met' = [q \in Pids |-> IF q = p THEN {} ELSE met[q] \ {p}]
    /\ UNCHANGED <<platform, pid_file>>

Step(p, from, to) == proc[p] = from /\ proc' = [proc EXCEPT ![p] = to]

-----------------------------------------------------------------------------
(***************************************************************************)
(* Starting.                                                               *)
(***************************************************************************)

\* A process comes to lock(): one started in the foreground, or the child of
\* move_to_background's fork, whose parent returns 0 and is not seen again.
Start(p) ==
    /\ Step(p, "none", "lock")
    /\ met' = [met EXCEPT ![p] = Up]
    /\ UNCHANGED <<platform, pid_file, held, sees>>

\* Variant: the file is opened with O_TRUNC.
OpenLockFileTruncates(p) ==
    /\ platform = "posix" /\ Step(p, "lock", "opened")
    /\ pid_file' = << >>
    /\ UNCHANGED <<platform, held, sees, met>>

OpenLockFile(p) ==
    /\ platform = "posix" /\ Step(p, "lock", "opened")
    /\ pid_file' = IF pid_file = NoFile THEN << >> ELSE pid_file
    /\ UNCHANGED <<platform, held, sees, met>>

\* open() fails: lock() returns false.
CannotOpenLockFile(p) ==
    /\ platform = "posix" /\ Step(p, "lock", "turned")
    /\ UNCHANGED <<platform, pid_file, held, sees, met>>

\* Variant: F_LOCK, which waits for the lock.
TryLockWaits(p) ==
    /\ platform = "posix" /\ held = {}
    /\ Step(p, "opened", "locked") /\ held' = {p}
    /\ UNCHANGED <<platform, pid_file, sees, met>>

\* Variant: the process moves to the background once it has the lock, which
\* the child does not inherit.
TryLockThenFork(p) ==
    /\ platform = "posix"
    /\ \/ held = {} /\ Step(p, "opened", "locked") /\ held' = {}
       \/ held # {} /\ Step(p, "opened", "turned") /\ held' = held
    /\ UNCHANGED <<platform, pid_file, sees, met>>

\* lockf(F_TLOCK): the lock, or an error at once.
TryLock(p) ==
    /\ platform = "posix"
    /\ \/ held = {} /\ Step(p, "opened", "locked") /\ held' = {p}
       \/ held # {} /\ Step(p, "opened", "turned") /\ held' = held
    /\ UNCHANGED <<platform, pid_file, sees, met>>

\* Variant: the terminating null is written too.
WritePidTerminated(p) ==
    /\ platform = "posix" /\ Step(p, "locked", "up")
    /\ pid_file' = p \o <<10>>
    /\ UNCHANGED <<platform, held, sees, met>>

\* The pid is written over what is there; the file is not truncated.
WritePid(p) ==
    /\ platform = "posix" /\ Step(p, "locked", "up")
    /\ pid_file' = p \o SubSeq(pid_file, Len(p) + 1, Len(pid_file))
    /\ UNCHANGED <<platform, held, sees, met>>

\* The result of write() is not looked at: the daemon is up, and the file says
\* what it said before.
WriteFails(p) ==
    /\ platform = "posix" /\ Step(p, "locked", "unnamed")
    /\ UNCHANGED <<platform, pid_file, held, sees, met>>

\* Variant: the mutex is not looked for.
OpenMutexSkipped(p) ==
    /\ platform = "windows"
    /\ Step(p, "lock", "opened") /\ held' = held
    /\ UNCHANGED <<platform, pid_file, sees, met>>

\* OpenMutex gives a handle if some process has one; it is not closed.
OpenMutex(p) ==
    /\ platform = "windows"
    /\ \/ held = {} /\ Step(p, "lock", "opened") /\ held' = held
       \/ held # {} /\ Step(p, "lock", "turned") /\ held' = held \cup {p}
    /\ UNCHANGED <<platform, pid_file, sees, met>>

\* CreateMutex gives a handle whether or not the mutex exists by now.
CreateMutex(p) ==
    /\ platform = "windows" /\ Step(p, "opened", "up")
    /\ held' = held \cup {p}
    /\ UNCHANGED <<platform, pid_file, sees, met>>

\* "Cannot lock application": run() returns -1.
Leave(p) == proc[p] = "turned" /\ Gone(p)

\* The process ends, for whatever reason.
Die(p) == Alive(p) /\ Gone(p)

-----------------------------------------------------------------------------
(***************************************************************************)
(* --stop.                                                                 *)
(***************************************************************************)

LaunchStop(p) ==
    /\ Step(p, "none", "stop")
    /\ met' = [met EXCEPT ![p] = Up]
    /\ UNCHANGED <<platform, pid_file, held, sees>>

\* The pid is read; an empty file leaves pid_value uninitialised.
ReadPid(p) ==
    /\ platform = "posix" /\ pid_file # NoFile
    /\ Step(p, "stop", "aim")
    /\ \E v \in IF pid_file = << >> THEN Pids ELSE {pid_file} :
         sees' = [sees EXCEPT ![p] = {v}]
    /\ UNCHANGED <<platform, pid_file, held, met>>

\* The file is not there or cannot be read.
NoPidFile(p) ==
    /\ platform = "posix"
    /\ proc[p] = "stop" /\ Gone(p)

\* The processes of this name, other than the caller.
Snapshot(p) ==
    /\ platform = "windows" /\ Step(p, "stop", "aim")
    /\ sees' = [sees EXCEPT ![p] = {q \in Pids \ {p} : Alive(q)}]
    /\ UNCHANGED <<platform, pid_file, held, met>>

\* A signal, or TerminateProcess on the first one that still exists.
Kill(p) ==
    /\ proc[p] = "aim"
    /\ \E t \in {q \in sees[p] \cap Pids : Alive(q)} :
         proc' = [proc EXCEPT ![t] = "ending", ![p] = "none"]
    /\ sees' = [sees EXCEPT ![p] = {}]
    /\ met' = [met EXCEPT ![p] = {}]
    /\ UNCHANGED <<platform, pid_file, held>>

\* None of them is there any more, or the system refuses to signal, open or
\* terminate it.
KillNobody(p) == proc[p] = "aim" /\ Gone(p)

-----------------------------------------------------------------------------
StartStep(p) ==
    \/ OpenLockFile(p) \/ CannotOpenLockFile(p)
    \/ TryLock(p) \/ WritePid(p) \/ WriteFails(p)
    \/ OpenMutex(p) \/ CreateMutex(p)

StopStep(p) ==
    \/ LaunchStop(p)
    \/ ReadPid(p) \/ Snapshot(p) \/ NoPidFile(p) \/ Kill(p) \/ KillNobody(p)

Next == \E p \in Pids :
    Start(p) \/ StartStep(p) \/ Leave(p) \/ StopStep(p) \/ Die(p)

Spec == Init /\ [][Next]_vars

-----------------------------------------------------------------------------
TypeOK ==
    /\ platform \in Platforms
    /\ pid_file = NoFile \/ pid_file \in Seq(0..9)
    /\ held \subseteq Pids
    /\ proc \in [Pids -> {"none", "lock", "opened", "locked", "up", "unnamed",
                          "turned", "ending", "stop", "aim"}]
    /\ sees \in [Pids -> SUBSET Seq(0..9)]
    /\ met \in [Pids -> SUBSET Pids]

\* POSIX: at most one process is past lock(), however starts, forks and
\* deaths interleave and whatever a dead daemon left in the file.
AtMostOneUp ==
    platform = "posix" => \A p, q \in Up : p = q

\* On both platforms a process that finds a daemon up when it comes to lock()
\* is not up beside it.  (On Windows two that find none may both come up.)
LateComersYield ==
    \A p, q \in Pids : p \in Up /\ q \in Up => q \notin met[p]

\* A --stop begun while a daemon was up has that daemon among its targets as
\* long as it is up, unless its pid could not be written, or was written over
\* a longer one.
StopAimsAtDaemon ==
    \A p, q \in Pids : proc[p] = "aim" /\ q \in met[p] /\ proc[q] = "up" =>
        q \in sees[p] \/ \E v \in sees[p] : platform = "posix" /\ Len(v) > Len(q)
=============================================================================
