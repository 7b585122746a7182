----------------------------- MODULE TrackerJob -----------------------------
(***************************************************************************)
(* src/tracker/trackerjob.{h,cc}: the sampling loop of the daemon.  One    *)
(* thread (read_window_info) sleeps for a period, asks which window has    *)
(* the focus and gives the sample to the data access; it holds the job's   *)
(* mutex except while it sleeps.  stop() may be called at any time by      *)
(* others: they take the mutex, clear is_running and notify.               *)
(***************************************************************************)
EXTENDS Integers

CONSTANTS
    Apps,      \* what a sample may be attributed to
    NoApp,     \* the names of an entry not sampled yet
    Callers,   \* the calls of stop() there may be (a bound)
    Period,    \* general.read-info-interval, in seconds: any integer
    MaxTime,   \* bound on the clock
    Spurious   \* may wait_for return before its time, unnotified?

ASSUME AppsAssumption == NoApp \notin Apps
ASSUME CallersAssumption == "free" \notin Callers /\ "loop" \notin Callers
ASSUME TimeAssumption == Period \in Int /\ MaxTime \in Nat \ {0}
ASSUME FaultsAssumption == Spurious \in BOOLEAN

VARIABLES
    now,         \* std::time(nullptr)
    waited,      \* seconds slept on the steady clock, up to Period
    loop,        \* where the sampling thread is
    entry,       \* its local entry
    mutex,       \* who holds TrackerJob::mutex
    is_running,
    stop,        \* where each call of stop() is
    given        \* history: the newest entry given to save_entry

loopVars == <<waited, loop, entry, given>>
vars == <<now, loopVars, mutex, is_running, stop>>

Instant == 0..MaxTime

NoEntry == [start |-> 0, end |-> 0, app |-> NoApp]

Init ==
    /\ now = 1 /\ waited = 0
    /\ loop = "idle" /\ entry = NoEntry
    /\ mutex = "free" /\ is_running = TRUE
    /\ stop = [c \in Callers |-> "idle"]
    /\ given = NoEntry

-----------------------------------------------------------------------------
(***************************************************************************)
(* read_window_info, on the thread that run() starts.                      *)
(***************************************************************************)

Run ==
    /\ loop = "idle"
    /\ loop' = "begin"
    /\ UNCHANGED <<now, waited, entry, mutex, is_running, stop, given>>

Begin ==
    /\ loop = "begin" /\ mutex = "free"
    /\ mutex' = "loop"
    /\ entry' = [NoEntry EXCEPT !.end = now]
    /\ loop' = "test"
    /\ UNCHANGED <<now, waited, is_running, stop, given>>

\* Variant: time_start stays that of the first round.
LoopAgainKeepsStart ==
    /\ loop = "test" /\ is_running
    /\ entry' = [entry EXCEPT !.start = IF entry.start = 0 THEN entry.end ELSE @]
    /\ loop' = "round"
    /\ UNCHANGED <<now, waited, mutex, is_running, stop, given>>

\* Another round: time_start = time_end.
LoopAgain ==
    /\ loop = "test" /\ is_running
    /\ entry' = [entry EXCEPT !.start = entry.end]
    /\ loop' = "round"
    /\ UNCHANGED <<now, waited, mutex, is_running, stop, given>>

\* wait_for releases the mutex and sleeps, in one step.
Wait ==
    /\ loop = "round"
    /\ loop' = "wait" /\ mutex' = "free"
    /\ UNCHANGED <<now, waited, entry, is_running, stop, given>>

LoopEnd ==
    /\ loop = "test" /\ ~is_running
    /\ mutex' = "free"
    /\ loop' = "done"
    /\ UNCHANGED <<now, waited, entry, is_running, stop, given>>

\* wait_for has no predicate: it returns when the period is over, or earlier
\* when the implementation wakes it for no reason.
WaitReturns ==
    /\ loop = "wait"
    /\ waited >= Period \/ Spurious
    /\ loop' = "woken" /\ waited' = 0
    /\ UNCHANGED <<now, entry, mutex, is_running, stop, given>>

Relock ==
    /\ loop = "woken" /\ mutex = "free"
    /\ mutex' = "loop"
    /\ loop' = "sample"
    /\ UNCHANGED <<now, waited, entry, is_running, stop, given>>

TooLong(e) == e.end - e.start > Period * 3

\* Variant: the names are left as they were.
SampleUnnamed ==
    /\ loop = "sample"
    /\ entry' = [entry EXCEPT !.end = now]
    /\ loop' = IF TooLong(entry') THEN "test" ELSE "save"
    /\ UNCHANGED <<now, waited, mutex, is_running, stop, given>>

\* The clock is read, the window queried, the plugins consulted (any of them
\* may suspend the tracking or change what the entry says).
Sample ==
    /\ loop = "sample"
    /\ \E a \in Apps :
         entry' = [entry EXCEPT !.end = now, !.app = a]
    /\ \/ loop' = "test"
       \/ ~TooLong(entry') /\ loop' = "save"
    /\ UNCHANGED <<now, waited, mutex, is_running, stop, given>>

\* data_access->save_entry(entry).
Save ==
    /\ loop = "save"
    /\ given' = entry
    /\ loop' = "saving"
    /\ UNCHANGED <<now, waited, entry, mutex, is_running, stop>>

SaveReturns ==
    /\ loop = "saving"
    /\ loop' = "test"
    /\ UNCHANGED <<now, waited, entry, mutex, is_running, stop, given>>

-----------------------------------------------------------------------------
(***************************************************************************)
(* stop(), called by c.                                                    *)
(***************************************************************************)

StopCall(c) ==
    /\ stop[c] = "idle"
    /\ stop' = [stop EXCEPT ![c] = "lock"]
    /\ UNCHANGED <<now, loopVars, mutex, is_running>>

\* Variant: is_running is cleared without the mutex.
StopUnlocked(c) ==
    /\ stop[c] = "lock"
    /\ is_running' = FALSE
    /\ stop' = [stop EXCEPT ![c] = "notify"]
    /\ UNCHANGED <<now, loopVars, mutex>>

StopLock(c) ==
    /\ stop[c] = "lock" /\ mutex = "free"
    /\ mutex' = c
    /\ stop' = [stop EXCEPT ![c] = "set"]
    /\ UNCHANGED <<now, loopVars, is_running>>

\* Variant: the mutex is kept.
StopSetKeepsMutex(c) ==
    /\ stop[c] = "set"
    /\ is_running' = FALSE
    /\ stop' = [stop EXCEPT ![c] = "notify"]
    /\ UNCHANGED <<now, loopVars, mutex>>

\* is_running = false; the mutex is released.
StopSet(c) ==
    /\ stop[c] = "set"
    /\ is_running' = FALSE /\ mutex' = "free"
    /\ stop' = [stop EXCEPT ![c] = "notify"]
    /\ UNCHANGED <<now, loopVars>>

StopNotify(c) ==
    /\ stop[c] = "notify"
    /\ loop' = IF loop = "wait" THEN "woken" ELSE loop
    /\ waited' = 0
    /\ stop' = [stop EXCEPT ![c] = "returned"]
    /\ UNCHANGED <<now, entry, mutex, is_running, given>>

-----------------------------------------------------------------------------
\* A second passes; the machine may have been asleep for many of them.
Tick ==
    /\ now < MaxTime
    /\ now' \in (now + 1)..MaxTime
    /\ waited' = IF loop = "wait" /\ waited < Period THEN waited + 1 ELSE waited
    /\ UNCHANGED <<loop, entry, mutex, is_running, stop, given>>

LoopStep ==
    \/ Begin \/ LoopAgain \/ Wait \/ LoopEnd \/ WaitReturns \/ Relock
    \/ Sample \/ Save \/ SaveReturns

StopStep(c) == StopLock(c) \/ StopSet(c) \/ StopNotify(c)

Next ==
    \/ Run \/ LoopStep
    \/ \E c \in Callers : StopCall(c) \/ StopStep(c)
    \/ Tick

Spec == Init /\ [][Next]_vars

\* The loop sleeps with the mutex free for a period in every round, so a
\* caller that waits for the mutex gets it: strong fairness for StopLock.
\* run() follows the constructor in WorkerTracker::run.
StopFairness(c) == SF_vars(StopLock(c)) /\ WF_vars(StopSet(c)) /\ WF_vars(StopNotify(c))

Fairness == WF_vars(Run) /\ WF_vars(LoopStep) /\ \A c \in Callers : StopFairness(c)

FairSpec == Spec /\ Fairness

-----------------------------------------------------------------------------
TypeOK ==
    /\ now \in 1..MaxTime
    /\ waited \in Nat /\ (waited = 0 \/ waited <= Period)
    /\ loop \in {"idle", "begin", "test", "round", "wait", "woken", "sample",
                "save", "saving", "done"}
    /\ entry \in [start : Instant, end : Instant, app : Apps \cup {NoApp}]
    /\ loop \in {"save", "saving"} => entry.app \in Apps
    /\ mutex \in {"free", "loop"} \cup Callers
    /\ is_running \in BOOLEAN
    /\ stop \in [Callers -> {"idle", "lock", "set", "notify", "returned"}]
    /\ given \in [start : Instant, end : Instant, app : Apps \cup {NoApp}]

\* Once is_running is cleared and every stop() has notified, the loop does not
\* sleep: it cannot have tested is_running before and waited after.
StopIsPrompt ==
    ~is_running /\ (\A c \in Callers : stop[c] # "notify") => loop # "wait"

\* What the data access relies on: samples follow one another, none is longer
\* than three periods, and one of zero length (stop() came within the second
\* in which the round began) is the last.
SamplesFollow ==
    [][ loop = "save" /\ loop' = "saving" =>
          /\ given.end <= entry.start /\ entry.start <= entry.end
          /\ entry.end - entry.start <= 3 * Period
          /\ given # NoEntry => given.start < given.end ]_vars

\* A call of stop() ends the loop.
StopEnds == (\E c \in Callers : stop[c] = "lock") ~> loop = "done"
=============================================================================
