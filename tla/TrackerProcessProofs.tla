------------------------ MODULE TrackerProcessProofs ------------------------
(***************************************************************************)
(* The process for any signals, period, clock and faults.  A step of it is *)
(* a step of TrackerJob, unless the job is made or dies, and a step of     *)
(* SQLiteDataAccess as long as the loop gives save_entry what it may: what *)
(* is proved of the two parts holds of them here, over any number of runs  *)
(* on one database.                                                        *)
(***************************************************************************)
EXTENDS TrackerProcess, SequenceTheorems, TLAPS

JobP == INSTANCE TrackerJobProofs
          WITH Callers <- Signals, is_running <- job_running, given <- newest

DBP == INSTANCE SQLiteDataAccessProofs
         WITH Time <- 1..MaxTime, QueueBound <- MaxTime + 1,
              is_running <- db_running

\* What the assumptions of this module say of the two parts.
LEMMA JobConstants ==
    /\ NoApp \notin Apps
    /\ "free" \notin Signals /\ "loop" \notin Signals
    /\ Period \in Int /\ MaxTime \in Nat \ {0}
    /\ Spurious \in BOOLEAN
BY AppsAssumption, SignalsAssumption, TimeAssumption, FaultsAssumption

LEMMA DBConstants ==
    /\ NoApp \notin Apps
    /\ 1..MaxTime \subseteq Nat \ {0}
    /\ HourLength \in Nat \ {0}
    /\ MaxTime + 1 \in Nat
    /\ SqlErrors \in BOOLEAN /\ LocaltimeRaces \in BOOLEAN
BY AppsAssumption, TimeAssumption, HourAssumption, FaultsAssumption

-----------------------------------------------------------------------------
(***************************************************************************)
(* Where the threads are.                                                  *)
(***************************************************************************)

\* Before the job runs nobody has called it.
Untouched ==
    /\ loop = "idle" /\ entry = Job!NoEntry /\ waited = 0
    /\ mutex = "free" /\ stop = [s \in Signals |-> "idle"]
    /\ frames = NoFrames

\* The life of the two objects, as the main thread goes through it.
LifeInv ==
    /\ main \in {"off", "starting", "constructing", "run", "join", "exit"}
    /\ main \in {"off", "starting"} => db = "closed"
    /\ main \in {"constructing", "run", "join"} => db = "open"
    /\ main = "exit" => db \in {"open", "notify", "join"}
    /\ main \in {"off", "starting", "constructing"} => Untouched
    /\ main = "run" => loop = "idle"
    /\ main = "exit" => loop = "done"
    /\ saver \in {"idle", "notify"}
    /\ saver = "notify" <=> loop = "saving"

LEMMA InitLife == Init => LifeInv
BY DEF Init, LifeInv, Untouched, Job!Init, DB!Init

LEMMA NextLife == LifeInv /\ [Next]_vars => LifeInv'
<1> SUFFICES ASSUME LifeInv, [Next]_vars PROVE LifeInv'
  OBVIOUS
<1> USE DEF LifeInv, Untouched, jobVars, dbVars
<1>1. CASE Start \/ ConstructStore \/ ConstructJob
  BY <1>1 DEF Start, ConstructStore, DB!Open, ConstructJob
<1>2. CASE RunJob \/ JoinLoop
  BY <1>2 DEF RunJob, Job!Run, JoinLoop
<1>3. CASE DestroyStore
  BY <1>3 DEF DestroyStore, DB!DtorClear, DB!DtorNotify
<1>4. CASE Exit \/ Die
  BY <1>4 DEF Exit, Die, DB!DtorJoin, DB!Crash, DB!Forget, Gone
<1>5. CASE LoopOwnStep
  BY <1>5 DEF LoopOwnStep, Job!Begin, Job!LoopAgain, Job!Wait, Job!LoopEnd,
              Job!WaitReturns, Job!Relock, Job!Sample
<1>6. CASE SaveEntry \/ SaveReturns
  BY <1>6 DEF SaveEntry, SaveReturns, Job!Save, Job!SaveReturns, DB!Push, DB!SaveNotify
<1>7. CASE WorkerStep \/ WorkerSpuriousWake
  BY <1>7 DEF WorkerStep, WorkerSpuriousWake, DB!WorkerStep, DB!SpuriousWake,
              DB!WorkerDecideWait, DB!WorkerWait, DB!WorkerTake, DB!WorkerStop,
              DB!persist_record
<1>8. ASSUME NEW t \in HandlerThreads, NEW s \in Signals, Signal(t, s)
      PROVE  LifeInv'
  BY <1>8 DEF Signal, Job!StopCall, Job!loopVars
<1>9. ASSUME NEW s \in Signals, HandlerLock(s) \/ HandlerSet(s) \/ HandlerReturn(s)
      PROVE  LifeInv'
  <2>1. stop[s] \in {"lock", "set", "notify"}
    BY <1>9 DEF HandlerLock, HandlerSet, HandlerReturn, Job!StopLock, Job!StopSet,
                Job!StopNotify
  <2>2. main \in {"run", "join", "exit"}
    BY <2>1
  <2>3. /\ UNCHANGED <<main, db, saver>>
        /\ loop' = loop \/ (loop = "wait" /\ loop' = "woken")
    BY <1>9 DEF HandlerLock, HandlerSet, HandlerReturn, Job!StopLock, Job!StopSet,
                Job!StopNotify, Job!loopVars
  <2>4. QED
    BY <2>2, <2>3
<1>10. CASE Tick
  BY <1>10 DEF Tick, Job!Tick
<1>11. CASE UNCHANGED vars
  BY <1>11 DEF vars
<1>12. QED
  BY <1>1, <1>2, <1>3, <1>4, <1>5, <1>6, <1>7, <1>8, <1>9, <1>10, <1>11
     DEF Next, MainStep

\* The sampling thread never outlives the data access it saves to, nor is one
\* destroyed inside a save_entry: run() joins the thread before the job and
\* its members go (trackerjob.cc:96-104), and a signal does not cut that short.
THEOREM StoreOutlives == Spec => []StoreOutlivesLoop
<1>1. LifeInv => StoreOutlivesLoop
  BY DEF LifeInv, Untouched, StoreOutlivesLoop, Alive
<1>2. QED
  BY <1>1, InitLife, NextLife, PTL DEF Spec

-----------------------------------------------------------------------------
(***************************************************************************)
(* The steps of the parts.                                                 *)
(***************************************************************************)

\* The steps that make the job or end the process; TrackerJob has no such.
Ends == Gone /\ newest' = newest /\ db' = "closed"
JobReplaced == ConstructStore \/ ConstructJob \/ Ends

LEMMA Ending == Exit \/ Die => Ends
BY DEF Exit, Die, Ends, DB!DtorJoin, DB!Crash, DB!Forget, dbVars

LEMMA SameJob ==
    /\ Job!Run => JobP!Run
    /\ Job!Begin \/ Job!LoopAgain \/ Job!Wait \/ Job!LoopEnd \/ Job!WaitReturns
          \/ Job!Relock \/ Job!Sample \/ Job!Save \/ Job!SaveReturns => JobP!LoopStep
    /\ \A s \in Signals : Job!StopCall(s) => JobP!StopCall(s)
    /\ \A s \in Signals : Job!StopLock(s) \/ Job!StopSet(s) \/ Job!StopNotify(s) =>
                            JobP!StopStep(s)
    /\ Job!Tick => JobP!Tick
BY DEF Job!Run, Job!Begin, Job!LoopAgain, Job!Wait, Job!LoopEnd, Job!WaitReturns,
       Job!Relock, Job!Sample, Job!Save, Job!SaveReturns, Job!StopCall, Job!StopLock,
       Job!StopSet, Job!StopNotify, Job!Tick, Job!TooLong, Job!NoEntry, Job!loopVars,
       JobP!LoopStep, JobP!StopStep,
       JobP!Run, JobP!Begin, JobP!LoopAgain, JobP!Wait, JobP!LoopEnd, JobP!WaitReturns,
       JobP!Relock, JobP!Sample, JobP!Save, JobP!SaveReturns, JobP!StopCall,
       JobP!StopLock, JobP!StopSet, JobP!StopNotify, JobP!Tick, JobP!TooLong,
       JobP!NoEntry, JobP!loopVars

LEMMA JobNext == [Next]_vars => [JobP!Next]_(JobP!vars) \/ JobReplaced
<1> SUFFICES ASSUME [Next]_vars, ~JobReplaced PROVE [JobP!Next]_(JobP!vars)
  OBVIOUS
<1> USE DEF jobVars, JobP!vars, JobP!loopVars
<1>1. CASE Start \/ JoinLoop \/ UNCHANGED vars
  BY <1>1 DEF Start, JoinLoop, vars, dbVars
<1>2. CASE RunJob \/ Tick
  BY <1>2, SameJob DEF RunJob, Tick, JobP!Next
<1>3. CASE DestroyStore \/ WorkerStep \/ WorkerSpuriousWake
  <2>1. UNCHANGED <<jobVars, newest>>
    BY <1>3 DEF DestroyStore, WorkerStep, WorkerSpuriousWake, DB!DtorClear,
                DB!DtorNotify, DB!WorkerStep, DB!SpuriousWake, DB!WorkerDecideWait,
                DB!WorkerWait, DB!WorkerTake, DB!WorkerStop, DB!persist_record
  <2>2. QED
    BY <2>1
<1>4. CASE LoopOwnStep \/ SaveEntry \/ SaveReturns
  BY <1>4, SameJob DEF LoopOwnStep, SaveEntry, SaveReturns, JobP!Next
<1>5. ASSUME NEW t \in HandlerThreads, NEW s \in Signals, Signal(t, s)
      PROVE  JobP!Next
  BY <1>5, SameJob DEF Signal, JobP!Next
<1>6. ASSUME NEW s \in Signals, HandlerLock(s) \/ HandlerSet(s) \/ HandlerReturn(s)
      PROVE  JobP!Next
  BY <1>6, SameJob DEF HandlerLock, HandlerSet, HandlerReturn, JobP!Next
<1>7. ~ConstructStore /\ ~ConstructJob /\ ~Exit /\ ~Die
  BY Ending DEF JobReplaced
<1>8. QED
  BY <1>1, <1>2, <1>3, <1>4, <1>5, <1>6, <1>7 DEF Next, MainStep

\* The two instances of SQLiteDataAccess have the same steps.
LEMMA SameStore ==
    /\ DB!Open <=> DBP!Open
    /\ \A e : DB!Push(e) <=> DBP!Push(e)
    /\ DB!SaveNotify <=> DBP!SaveNotify
    /\ DB!WorkerStep <=> DBP!WorkerStep
    /\ DB!SpuriousWake <=> DBP!SpuriousWake
    /\ DB!DtorClear <=> DBP!DtorClear
    /\ DB!DtorNotify <=> DBP!DtorNotify
    /\ DB!DtorJoin <=> DBP!DtorJoin
    /\ DB!Crash <=> DBP!Crash
<1>1. /\ DB!Open <=> DBP!Open
      /\ \A e : DB!Push(e) <=> DBP!Push(e)
      /\ DB!SaveNotify <=> DBP!SaveNotify
      /\ DB!SpuriousWake <=> DBP!SpuriousWake
  BY DEF DB!Open, DB!Push, DB!SaveNotify, DB!SpuriousWake, DB!NoEntry, DBP!Open,
         DBP!Push, DBP!SaveNotify, DBP!SpuriousWake, DBP!NoEntry
<1>2. DB!WorkerStep <=> DBP!WorkerStep
  <2>1. \A t : DB!HourRead(t) = DBP!HourRead(t)
    BY DEF DB!HourRead, DB!tm_hour, DBP!HourRead, DBP!tm_hour
  <2>2. \A e : DB!Extended(e) = DBP!Extended(e) /\ DB!Inserted(e) = DBP!Inserted(e)
    BY DEF DB!Extended, DB!Inserted, DBP!Extended, DBP!Inserted
  <2>3. DB!persist_record <=> DBP!persist_record
    <3>1. \A h1, h2 : /\ DB!Continues(h1, h2) <=> DBP!Continues(h1, h2)
                      /\ DB!Misread(h1, h2) = DBP!Misread(h1, h2)
      BY DEF DB!Continues, DB!Misread, DB!is_continuous, DB!tm_hour,
             DBP!Continues, DBP!Misread, DBP!is_continuous, DBP!tm_hour
    <3>2. QED
      BY <2>1, <2>2, <3>1 DEF DB!persist_record, DB!NoEntry,
                              DBP!persist_record, DBP!NoEntry
  <2>4. QED
    BY <2>3 DEF DB!WorkerStep, DB!WorkerDecideWait, DB!WorkerWait, DB!WorkerTake,
                DB!WorkerStop, DBP!WorkerStep, DBP!WorkerDecideWait, DBP!WorkerWait,
                DBP!WorkerTake, DBP!WorkerStop
<1>3. /\ DB!DtorClear <=> DBP!DtorClear
      /\ DB!DtorNotify <=> DBP!DtorNotify
      /\ DB!DtorJoin <=> DBP!DtorJoin
      /\ DB!Crash <=> DBP!Crash
  BY DEF DB!DtorClear, DB!DtorNotify, DB!DtorJoin, DB!Crash, DB!Forget, DB!NoEntry,
         DBP!DtorClear, DBP!DtorNotify, DBP!DtorJoin, DBP!Crash, DBP!Forget,
         DBP!NoEntry
<1>4. QED
  BY <1>1, <1>2, <1>3

LEMMA StoreIsStore == [DBP!Next]_(DBP!vars) => [DB!Next]_(DB!vars)
<1>1. \A e : e \in DBP!Entry /\ DBP!SaveEntry(e) => e \in DB!Entry /\ DB!SaveEntry(e)
  BY SameStore DEF DBP!Entry, DBP!SaveEntry, DBP!Admissible, DB!Entry, DB!SaveEntry,
                   DB!Admissible
<1>2. QED
  BY <1>1, SameStore
     DEF DBP!Next, DBP!ClientStep, DBP!vars, DB!Next, DB!ClientStep, DB!vars

\* What SQLiteDataAccess asks of an entry that is pushed.
Allowed(e) ==
    e \in DBP!Entry /\ Len(queue) < MaxTime + 1 /\ DBP!Admissible(e)

LEMMA StoreNext ==
    ASSUME [Next]_vars, SaveEntry => Allowed(entry)
    PROVE  [DBP!Next]_(DBP!vars)
<1> USE DEF dbVars, DBP!vars
<1>1. CASE \/ Start \/ ConstructJob \/ RunJob \/ JoinLoop \/ LoopOwnStep \/ Tick
           \/ \E t \in HandlerThreads, s \in Signals : Signal(t, s)
           \/ \E s \in Signals : HandlerLock(s) \/ HandlerSet(s) \/ HandlerReturn(s)
           \/ UNCHANGED vars
  <2>1. UNCHANGED dbVars
    BY <1>1 DEF Start, ConstructJob, RunJob, JoinLoop, LoopOwnStep, Tick, Signal,
                HandlerLock, HandlerSet, HandlerReturn, vars
  <2>2. QED
    BY <2>1
<1>2. CASE ConstructStore \/ DestroyStore \/ Exit
  BY <1>2, SameStore DEF ConstructStore, DestroyStore, Exit, DBP!Next, DBP!ClientStep
<1>3. CASE SaveEntry
  BY <1>3, SameStore DEF SaveEntry, Allowed, DBP!Next, DBP!ClientStep, DBP!SaveEntry
<1>4. CASE SaveReturns \/ WorkerStep \/ WorkerSpuriousWake
  BY <1>4, SameStore
     DEF SaveReturns, WorkerStep, WorkerSpuriousWake, DBP!Next, DBP!ClientStep
<1>5. CASE Die
  BY <1>5, SameStore DEF Die, DBP!Next
<1>6. QED
  BY <1>1, <1>2, <1>3, <1>4, <1>5 DEF Next, MainStep

-----------------------------------------------------------------------------
(***************************************************************************)
(* Types.                                                                  *)
(***************************************************************************)

TypeInv ==
    /\ frames \in [Threads -> Seq(Signals)]
    /\ JobP!TypeOK /\ JobP!SampledInv
    /\ DBP!TypeInv

LEMMA InitTypes == Init => TypeInv
<1> SUFFICES ASSUME Init PROVE TypeInv
  OBVIOUS
<1>1. JobP!Init /\ DBP!Init
  BY DEF Init, Job!Init, JobP!Init, Job!NoEntry, JobP!NoEntry, DB!Init, DBP!Init,
         DB!NoEntry, DBP!NoEntry
<1>2. JobP!TypeOK /\ JobP!SampledInv
  BY <1>1, JobConstants, JobP!InitType, JobP!InitSampleInv
<1>3. DBP!TypeInv
  BY <1>1, DBConstants, DBP!InitType
<1>4. frames \in [Threads -> Seq(Signals)]
  BY EmptySeq DEF Init, NoFrames
<1>5. QED
  BY <1>2, <1>3, <1>4 DEF TypeInv

LEMMA NextFrames ==
    ASSUME frames \in [Threads -> Seq(Signals)], [Next]_vars
    PROVE  frames' \in [Threads -> Seq(Signals)]
<1>1. ASSUME NEW t \in HandlerThreads, NEW s \in Signals, Signal(t, s)
      PROVE  frames' \in [Threads -> Seq(Signals)]
  <2>1. t \in Threads
    BY ThreadsAssumption
  <2>2. <<s>> \in Seq(Signals) /\ frames[t] \in Seq(Signals)
    BY <2>1
  <2>3. <<s>> \o frames[t] \in Seq(Signals)
    BY <2>2, ConcatProperties
  <2>4. QED
    BY <1>1, <2>3 DEF Signal
<1>2. ASSUME NEW s \in Signals, HandlerReturn(s)
      PROVE  frames' \in [Threads -> Seq(Signals)]
  <2>1. \A t \in Threads : frames[t] # << >> => Tail(frames[t]) \in Seq(Signals)
    BY HeadTailProperties
  <2>2. QED
    BY <1>2, <2>1 DEF HandlerReturn, Free
<1>3. CASE Gone
  BY <1>3, EmptySeq DEF Gone, NoFrames
<1>4. CASE UNCHANGED frames
  BY <1>4
<1>5. QED
  BY <1>1, <1>2, <1>3, <1>4
     DEF Next, MainStep, Start, ConstructStore, ConstructJob, RunJob, JoinLoop,
         DestroyStore, Exit, LoopOwnStep, SaveEntry, SaveReturns, WorkerStep,
         WorkerSpuriousWake, HandlerLock, HandlerSet, Die, Tick, vars

\* The job is made on a newly opened store, and dies with everything else.
LEMMA Replaced ==
    ASSUME LifeInv, TypeInv, JobReplaced
    PROVE  /\ loop = loop' \/ loop' = "idle"
           /\ JobP!TypeOK' /\ JobP!SampledInv'
<1> USE JobConstants DEF TypeInv, JobP!TypeOK, JobP!Instant, JobP!SampledInv, JobP!Wakes
<1>1. CASE ConstructStore
  BY <1>1 DEF ConstructStore, DB!Open, jobVars, LifeInv, Untouched
<1>2. CASE ConstructJob
  BY <1>2 DEF ConstructJob, dbVars, LifeInv, Untouched
<1>3. CASE Ends
  BY <1>3 DEF Ends, Gone, Job!NoEntry
<1>4. QED
  BY <1>1, <1>2, <1>3 DEF JobReplaced

LEMMA EntryIsEntry == TypeInv /\ loop = "save" => entry \in DBP!Entry
BY JobConstants
   DEF TypeInv, JobP!TypeOK, JobP!Instant, JobP!SampledInv, JobP!Wakes, DBP!Entry

LEMMA NextTypes == LifeInv /\ TypeInv /\ [Next]_vars => TypeInv'
<1> SUFFICES ASSUME LifeInv, TypeInv, [Next]_vars PROVE TypeInv'
  OBVIOUS
<1>1. frames' \in [Threads -> Seq(Signals)]
  BY NextFrames DEF TypeInv
<1>2. JobP!TypeOK' /\ JobP!SampledInv'
  <2>1. CASE JobReplaced
    BY <2>1, Replaced
  <2>2. CASE [JobP!Next]_(JobP!vars)
    BY <2>2, JobConstants, JobP!NextType, JobP!NextSampledInv DEF TypeInv
  <2>3. QED
    BY <2>1, <2>2, JobNext
<1>3. DBP!TypeInv'
  <2>1. CASE SaveEntry
    <3>1. entry \in DBP!Entry
      BY <2>1, EntryIsEntry DEF SaveEntry, Job!Save
    <3>2. DBP!Push(entry)
      BY <2>1, SameStore DEF SaveEntry
    <3>3. QED
      BY <3>1, <3>2, DBConstants, DBP!PushType DEF TypeInv
  <2>2. CASE ~SaveEntry
    <3>1. [DBP!Next]_(DBP!vars)
      BY <2>2, StoreNext
    <3>2. QED
      BY <3>1, DBConstants, DBP!NextType DEF TypeInv
  <2>3. QED
    BY <2>1, <2>2
<1>4. QED
  BY <1>1, <1>2, <1>3 DEF TypeInv

\* The variables of the process have their types, at any period and however
\* wait_for wakes: nothing but a sampled entry reaches save_entry.
THEOREM TypeCorrect == Spec => []TypeOK
<1>1. LifeInv /\ TypeInv => TypeOK
  <2>1. JobP!TypeOK => Job!TypeOK
    BY DEF JobP!TypeOK, Job!TypeOK, JobP!Instant, Job!Instant
  <2>2. DBP!TypeOK => DB!TypeOK
    BY DEF DBP!TypeOK, DB!TypeOK, DBP!Entry, DB!Entry, DBP!NoEntry, DB!NoEntry,
           DBP!Instant, DB!Instant
  <2>3. QED
    BY <2>1, <2>2 DEF LifeInv, TypeInv, TypeOK, DBP!TypeInv
<1>2. QED
  BY <1>1, InitLife, NextLife, InitTypes, NextTypes, PTL DEF Spec

-----------------------------------------------------------------------------
(***************************************************************************)
(* stop(), in signal handlers that interrupt any thread.                   *)
(***************************************************************************)

LEMMA InitJob == Init => JobP!JobInv
<1>1. Init => JobP!Init
  BY DEF Init, Job!Init, JobP!Init, Job!NoEntry, JobP!NoEntry
<1>2. QED
  BY <1>1, JobConstants, JobP!InitJobInv

LEMMA NextJob ==
    ASSUME LifeInv, TypeInv, JobP!JobInv, [Next]_vars
    PROVE  JobP!JobInv'
<1> USE DEF JobP!JobInv, JobP!MutexInv, JobP!StopInv, JobP!Holding
<1>1. CASE ConstructStore
  BY <1>1 DEF ConstructStore, jobVars
<1>2. CASE ConstructJob
  BY <1>2 DEF ConstructJob, LifeInv, Untouched
<1>3. CASE Ends
  BY <1>3, JobConstants DEF Ends, Gone
<1>4. CASE [JobP!Next]_(JobP!vars)
  <2> HIDE DEF JobP!JobInv
  <2>1. QED
    BY <1>4, JobConstants, JobP!NextJobInv DEF TypeInv
<1>5. QED
  BY <1>1, <1>2, <1>3, <1>4, JobNext DEF JobReplaced

\* No signal is missed: once the handlers that cleared is_running have
\* notified, the loop does not sleep out its period, whichever threads they
\* interrupted and however they nested.
THEOREM SignalsNoticed == Spec => []Job!StopIsPrompt
<1>1. JobP!JobInv => Job!StopIsPrompt
  BY DEF JobP!JobInv, JobP!StopInv, Job!StopIsPrompt
<1>2. QED
  BY <1>1, InitLife, NextLife, InitTypes, NextTypes, InitJob, NextJob, PTL DEF Spec

-----------------------------------------------------------------------------
(***************************************************************************)
(* The samples, with a period of at least a second that is slept to its    *)
(* end or to a stop(): the store gets what it asks for.                    *)
(***************************************************************************)

\* The newest sample of all sessions; while a store is open, that of this one
\* or the time the last one ended.
NewestInv ==
    /\ newest.start <= newest.end /\ newest.end <= now
    /\ db # "closed" => JobP!GivenInv

\* No two waiting entries begin in the same second.
Spaced == \A i \in 1..Len(queue) : i <= queue[i].start

OrderInv == JobP!JobInv /\ JobP!EntryInv /\ NewestInv /\ DBP!IInv /\ Spaced

LEMMA InitOrder == Init => OrderInv
<1> SUFFICES ASSUME Init PROVE OrderInv
  OBVIOUS
<1>1. JobP!Init /\ DBP!Init
  BY DEF Init, Job!Init, JobP!Init, Job!NoEntry, JobP!NoEntry, DB!Init, DBP!Init,
         DB!NoEntry, DBP!NoEntry
<1>2. JobP!JobInv /\ JobP!EntryInv
  BY <1>1, JobConstants, JobP!InitJobInv, JobP!InitSampleInv
<1>3. DBP!IInv
  BY <1>1, DBConstants, DBP!InitIInv
<1>4. NewestInv /\ Spaced
  BY DEF Init, Job!Init, DB!Init, DB!NoEntry, NewestInv, Spaced
<1>5. QED
  BY <1>2, <1>3, <1>4 DEF OrderInv

\* The entry that is saved begins after everything that waits, by more
\* seconds than there are entries waiting.
LEMMA Room ==
    ASSUME LifeInv, TypeInv, OrderInv, SaveEntry
    PROVE  Len(queue) < entry.start
<1>1. /\ loop = "save" /\ db = "open"
      /\ entry \in DBP!Entry
  BY EntryIsEntry DEF SaveEntry, Job!Save, DB!Push
<1>2. /\ entry.start \in Nat /\ entry.start > 0 /\ Len(queue) \in Nat
      /\ newest.start \in Nat /\ newest.end \in Nat
  BY <1>1, JobConstants, LenProperties
     DEF DBP!Entry, TypeInv, DBP!TypeInv, DBP!TypeOK, JobP!TypeOK, JobP!Instant
<1>3. CASE Len(queue) = 0
  BY <1>2, <1>3
<1>4. CASE Len(queue) > 0
  <2> DEFINE n == Len(queue)
  <2>1. n \in 1..Len(queue) /\ n \in Nat
    BY <1>2, <1>4
  <2>2. n <= queue[n].start /\ queue[n] \in DBP!Entry /\ DBP!Sane(queue[n])
    BY <2>1 DEF OrderInv, Spaced, DBP!IInv, DBP!PipelineInv, DBP!EntriesSane, DBP!Sane
  <2>3. queue[n].start \in Nat /\ queue[n].end \in Nat
    BY <2>2 DEF DBP!Entry
  <2>4. queue # << >>
    BY <1>4
  <2>5. newest.app # NoApp
    BY <2>4 DEF OrderInv, DBP!IInv, DBP!PipelineInv, DBP!NewestSane
  <2>6. newest.start < newest.end /\ newest.end <= entry.start
    BY <1>1, <2>5 DEF OrderInv, NewestInv, JobP!GivenInv
  <2>7. queue[n] = newest \/ (queue[n].end <= newest.start /\ queue[n].start < queue[n].end)
    BY <2>2 DEF DBP!Sane, DBP!Before
  <2> HIDE DEF n
  <2>8. n < entry.start
    BY <1>2, <2>1, <2>2, <2>3, <2>6, <2>7
  <2>9. QED
    BY <2>8 DEF n
<1>5. QED
  BY <1>2, <1>3, <1>4

LEMMA SavesAllowed ==
    ASSUME LifeInv, TypeInv, OrderInv, SaveEntry
    PROVE  Allowed(entry)
<1>1. loop = "save" /\ db = "open"
  BY DEF SaveEntry, Job!Save, DB!Push
<1>2. entry \in DBP!Entry
  BY <1>1, EntryIsEntry
<1>3. Len(queue) < MaxTime + 1
  <2>1. Len(queue) \in Nat
    BY LenProperties DEF TypeInv, DBP!TypeInv, DBP!TypeOK
  <2>2. entry.start \in 1..MaxTime
    BY <1>2 DEF DBP!Entry
  <2>3. QED
    BY <2>1, <2>2, Room, JobConstants
<1>4. DBP!Admissible(entry)
  BY <1>1 DEF DBP!Admissible, OrderInv, NewestInv, JobP!GivenInv, JobP!EntryInv
<1>5. QED
  BY <1>2, <1>3, <1>4 DEF Allowed

\* The process as its store sees it.
LEMMA StoreStep ==
    ASSUME LifeInv, TypeInv, OrderInv, [Next]_vars
    PROVE  [DBP!Next]_(DBP!vars)
BY SavesAllowed, StoreNext

LEMMA NextEntry ==
    ASSUME ~Spurious, Period > 0, LifeInv, TypeInv, OrderInv, [Next]_vars
    PROVE  JobP!EntryInv'
<1>1. CASE ConstructStore \/ ConstructJob
  BY <1>1 DEF ConstructStore, ConstructJob, jobVars, LifeInv, Untouched, OrderInv,
              JobP!EntryInv, JobP!Wakes, JobP!TooLong
<1>2. CASE Ends
  BY <1>2, JobConstants DEF Ends, Gone, Job!NoEntry, TypeInv, JobP!TypeOK,
              JobP!EntryInv, JobP!Wakes
<1>3. CASE [JobP!Next]_(JobP!vars)
  BY <1>3, JobConstants, JobP!NextEntryInv DEF TypeInv, OrderInv
<1>4. QED
  BY <1>1, <1>2, <1>3, JobNext DEF JobReplaced

LEMMA NewestMoves ==
    ASSUME [Next]_vars
    PROVE  \/ ConstructStore \/ SaveEntry
           \/ newest' = newest /\ (db = "closed" => db' = "closed")
<1> USE DEF dbVars
<1>1. CASE \/ Start \/ ConstructJob \/ RunJob \/ JoinLoop \/ LoopOwnStep \/ Tick
           \/ \E t \in HandlerThreads, s \in Signals : Signal(t, s)
           \/ \E s \in Signals : HandlerLock(s) \/ HandlerSet(s) \/ HandlerReturn(s)
           \/ UNCHANGED vars
  <2>1. UNCHANGED dbVars
    BY <1>1 DEF Start, ConstructJob, RunJob, JoinLoop, LoopOwnStep, Tick, Signal,
                HandlerLock, HandlerSet, HandlerReturn, vars
  <2>2. QED
    BY <2>1
<1>2. CASE DestroyStore \/ SaveReturns
  BY <1>2 DEF DestroyStore, SaveReturns, DB!DtorClear, DB!DtorNotify, DB!SaveNotify
<1>3. CASE Exit \/ Die
  BY <1>3, Ending DEF Ends
<1>4. CASE WorkerStep \/ WorkerSpuriousWake
  BY <1>4 DEF WorkerStep, WorkerSpuriousWake, DB!WorkerStep, DB!SpuriousWake,
              DB!WorkerDecideWait, DB!WorkerWait, DB!WorkerTake, DB!WorkerStop,
              DB!persist_record
<1>5. QED
  BY <1>1, <1>2, <1>3, <1>4 DEF Next, MainStep

\* The clock of a machine that keeps time (std::time is taken to).
LEMMA ClockMoves ==
    ASSUME TypeInv, [Next]_vars
    PROVE  now \in Nat /\ now' \in Nat /\ now <= now'
<1>1. now \in Nat
  BY JobConstants DEF TypeInv, JobP!TypeOK
<1>2. CASE Tick
  BY <1>1, <1>2, JobConstants DEF Tick, Job!Tick
<1>3. CASE ~Tick
  <2>1. now' = now
    BY <1>3 DEF Next, MainStep, Start, ConstructStore, ConstructJob, RunJob, Job!Run,
         JoinLoop, DestroyStore, Exit, LoopOwnStep, Job!Begin, Job!LoopAgain, Job!Wait,
         Job!LoopEnd, Job!WaitReturns, Job!Relock, Job!Sample, SaveEntry, Job!Save,
         SaveReturns, Job!SaveReturns, WorkerStep, WorkerSpuriousWake, Signal,
         Job!StopCall, HandlerLock, Job!StopLock, HandlerSet, Job!StopSet,
         HandlerReturn, Job!StopNotify, Die, Gone, vars, jobVars
  <2>2. QED
    BY <1>1, <2>1
<1>4. QED
  BY <1>2, <1>3

LEMMA NextNewest ==
    ASSUME LifeInv, TypeInv, OrderInv, [Next]_vars
    PROVE  NewestInv'
<1>1. /\ newest.start \in Nat /\ newest.end \in Nat
      /\ newest.start <= newest.end /\ newest.end <= now
  BY JobConstants DEF TypeInv, JobP!TypeOK, JobP!Instant, OrderInv, NewestInv
<1>2. CASE ConstructStore
  <2>1. /\ newest'.start = newest.end /\ newest'.end = newest.end
        /\ newest'.app = NoApp /\ loop' = "idle" /\ now' = now
    BY <1>2 DEF ConstructStore, DB!Open, jobVars, LifeInv, Untouched
  <2>2. QED
    BY <1>1, <2>1 DEF NewestInv, JobP!GivenInv, JobP!Wakes
<1>3. CASE ~ConstructStore /\ db = "closed"
  <2>1. newest' = newest /\ db' = "closed"
    BY <1>3, NewestMoves DEF SaveEntry, DB!Push
  <2>2. QED
    BY <1>1, <2>1, ClockMoves DEF NewestInv
<1>4. CASE ConstructJob
  BY <1>1, <1>4 DEF ConstructJob, dbVars, LifeInv, Untouched, OrderInv, NewestInv, JobP!GivenInv,
                    JobP!Wakes
<1>5. CASE Ends
  BY <1>1, <1>5 DEF Ends, Gone, NewestInv
<1>6. CASE db # "closed" /\ [JobP!Next]_(JobP!vars)
  <2>1. JobP!GivenInv'
    BY <1>6, JobConstants, JobP!NextGivenInv DEF TypeInv, OrderInv, NewestInv
  <2>2. QED
    BY <2>1 DEF NewestInv, JobP!GivenInv
<1>7. QED
  BY <1>2, <1>3, <1>4, <1>5, <1>6, JobNext DEF JobReplaced

LEMMA NextSpaced ==
    ASSUME LifeInv, TypeInv, OrderInv, [Next]_vars
    PROVE  Spaced'
<1>1. queue \in Seq(DBP!Entry) /\ Len(queue) \in Nat
  BY LenProperties DEF TypeInv, DBP!TypeInv, DBP!TypeOK
<1>2. CASE SaveEntry
  <2>1. queue' = Append(queue, entry) /\ entry \in DBP!Entry
    BY <1>2, SavesAllowed DEF SaveEntry, DB!Push, Allowed
  <2>2. entry.start \in Nat /\ Len(queue) + 1 <= entry.start
    BY <1>1, <1>2, <2>1, Room DEF DBP!Entry
  <2>3. /\ Len(queue') = Len(queue) + 1
        /\ \A i \in 1..Len(queue) : queue'[i] = queue[i]
        /\ queue'[Len(queue) + 1] = entry
    BY <1>1, <2>1, AppendProperties
  <2>4. \A i \in 1..Len(queue') : i \in 1..Len(queue) \/ i = Len(queue) + 1
    BY <1>1, <2>3
  <2>5. QED
    BY <2>2, <2>3, <2>4 DEF OrderInv, Spaced
<1>3. CASE DBP!WorkerTake
  <2>1. queue # << >> /\ queue' = Tail(queue)
    BY <1>3 DEF DBP!WorkerTake
  <2>2. /\ Len(queue') = Len(queue) - 1
        /\ \A i \in 1..Len(queue') : queue'[i] = queue[i + 1]
    BY <1>1, <2>1, HeadTailProperties
  <2>3. \A i \in 1..Len(queue') :
          i + 1 \in 1..Len(queue) /\ queue[i + 1] \in DBP!Entry
    BY <1>1, <2>2
  <2>4. \A i \in 1..Len(queue') : queue[i + 1].start \in Nat
    BY <2>3 DEF DBP!Entry
  <2>5. QED
    BY <2>2, <2>3, <2>4 DEF OrderInv, Spaced
<1>4. CASE queue' = << >>
  BY <1>4 DEF Spaced
<1>5. CASE queue' = queue
  BY <1>5 DEF OrderInv, Spaced
<1>6. QED
  <2>1. CASE SaveEntry
    BY <1>2, <2>1
  <2>2. CASE ~SaveEntry
    <3>1. DBP!WorkerTake \/ queue' = << >> \/ queue' = queue
      BY <2>2 DEF Next, MainStep, Start, ConstructStore, ConstructJob, RunJob, JoinLoop,
           DestroyStore, Exit, LoopOwnStep, SaveReturns, WorkerStep, WorkerSpuriousWake,
           Signal, HandlerLock, HandlerSet, HandlerReturn, Die, Tick, vars, dbVars,
           DB!Open, DB!DtorClear, DB!DtorNotify, DB!DtorJoin, DB!Forget, DB!Crash,
           DB!SaveNotify, DB!WorkerStep, DB!WorkerDecideWait, DB!WorkerWait,
           DB!WorkerTake, DBP!WorkerTake, DB!WorkerStop, DB!SpuriousWake,
           DB!persist_record
    <3>2. QED
      BY <1>3, <1>4, <1>5, <3>1
  <2>3. QED
    BY <2>1, <2>2

LEMMA NextOrder ==
    ASSUME ~Spurious, Period > 0
    PROVE  LifeInv /\ TypeInv /\ OrderInv /\ [Next]_vars => OrderInv'
<1> SUFFICES ASSUME ~Spurious, Period > 0, LifeInv, TypeInv, OrderInv, [Next]_vars
             PROVE  OrderInv'
  OBVIOUS
<1>1. JobP!JobInv'
  BY NextJob DEF OrderInv
<1>2. DBP!IInv'
  BY StoreStep, DBConstants, DBP!NextIInv DEF OrderInv
<1>3. QED
  BY <1>1, <1>2, NextEntry, NextNewest, NextSpaced DEF OrderInv

LEMMA Ordering ==
    ASSUME ~Spurious, Period > 0
    PROVE  Spec => [](LifeInv /\ TypeInv /\ OrderInv)
<1>1. Init => LifeInv /\ TypeInv /\ OrderInv
  BY InitLife, InitTypes, InitOrder
<1>2. LifeInv /\ TypeInv /\ OrderInv /\ [Next]_vars => (LifeInv /\ TypeInv /\ OrderInv)'
  BY NextLife, NextTypes, NextOrder
<1>3. QED
  BY <1>1, <1>2, PTL DEF Spec

\* The tracker gives its data access what SQLiteDataAccess expects: over
\* signals, deaths and restarts on one database, samples follow one another
\* and only the last of a session is empty.
THEOREM UsesStore ==
    ASSUME ~Spurious, Period > 0
    PROVE  Spec => UsesStoreAsSpecified
<1>1. LifeInv /\ TypeInv /\ OrderInv /\ [Next]_vars => [DB!Next]_(DB!vars)
  BY StoreStep, StoreIsStore
<1>2. Init => DB!Init
  BY DEF Init
<1>3. QED
  BY <1>1, <1>2, Ordering, PTL DEF Spec, UsesStoreAsSpecified, DB!Spec

\* No second is counted twice in the database the process leaves, when
\* wait_for does not return early (with early returns the run EarlyWake finds
\* one that is).
THEOREM SecondsCountedOnce ==
    ASSUME ~Spurious, Period > 0
    PROVE  Spec => []NoSecondTwice
<1>1. DBP!IInv => NoSecondTwice
  BY DEF DBP!IInv, DBP!TableInv, DBP!NoOverlap, NoSecondTwice, DB!NoOverlap
<1>2. OrderInv => NoSecondTwice
  BY <1>1 DEF OrderInv
<1>3. QED
  BY <1>2, Ordering, PTL

\* Every second in the database was spent in the application the row names.
THEOREM SecondsTruthful ==
    ASSUME ~Spurious, Period > 0
    PROVE  Spec => []DB!Attribution
<1>1. DBP!IInv => DB!Attribution
  BY DEF DBP!IInv, DBP!TableInv, DBP!Attribution, DB!Attribution, DBP!Instants,
         DB!Instants
<1>2. OrderInv => DB!Attribution
  BY <1>1 DEF OrderInv
<1>3. QED
  BY <1>2, Ordering, PTL

-----------------------------------------------------------------------------
(***************************************************************************)
(* The same daemon with a period of zero or less.                          *)
(***************************************************************************)

\* An entry that says of no second where it was spent.
Nothing(e) == e.start = e.end /\ Period = 0

IdleStore ==
    /\ \A i \in 1..Len(queue) : Nothing(queue[i])
    /\ worker = "persist" => Nothing(current)
    /\ \A r \in rows : Nothing(r)

LEMMA InitIdle == Init => JobP!IdleInv /\ IdleStore
BY DEF Init, Job!Init, Job!NoEntry, JobP!IdleInv, JobP!EmptySample, JobP!NoEntry,
       DB!Init, DB!NoEntry, IdleStore

LEMMA NextIdleJob ==
    ASSUME Period <= 0, TypeInv, JobP!IdleInv, [Next]_vars
    PROVE  JobP!IdleInv'
<1> USE DEF JobP!IdleInv, JobP!EmptySample, JobP!NoEntry
<1>1. CASE ConstructStore
  BY <1>1 DEF ConstructStore, DB!Open, jobVars
<1>2. CASE ConstructJob
  BY <1>2 DEF ConstructJob, dbVars
<1>3. CASE Ends
  BY <1>3, JobConstants DEF Ends, Gone, Job!NoEntry, TypeInv, JobP!TypeOK
<1>4. CASE [JobP!Next]_(JobP!vars)
  <2> HIDE DEF JobP!IdleInv
  <2>1. QED
    BY <1>4, JobConstants, JobP!NextIdle DEF TypeInv
<1>5. QED
  BY <1>1, <1>2, <1>3, <1>4, JobNext DEF JobReplaced

\* An INSERT of such an entry adds a row that says nothing; an UPDATE with one
\* leaves its row as it is.
LEMMA NextIdleStore ==
    ASSUME TypeInv, JobP!IdleInv, IdleStore, [Next]_vars
    PROVE  IdleStore'
<1>1. queue \in Seq(DBP!Entry) /\ Len(queue) \in Nat
  BY LenProperties DEF TypeInv, DBP!TypeInv, DBP!TypeOK
<1> USE DEF IdleStore, Nothing
<1>2. CASE SaveEntry
  <2>1. /\ queue' = Append(queue, entry) /\ Nothing(entry) /\ entry \in DBP!Entry
        /\ UNCHANGED <<worker, current, rows>>
    BY <1>2, EntryIsEntry DEF SaveEntry, Job!Save, DB!Push, JobP!IdleInv
  <2>2. /\ Len(queue') = Len(queue) + 1
        /\ \A i \in 1..Len(queue) : queue'[i] = queue[i]
        /\ queue'[Len(queue) + 1] = entry
    BY <1>1, <2>1, AppendProperties
  <2>3. \A i \in 1..Len(queue') : i \in 1..Len(queue) \/ i = Len(queue) + 1
    BY <1>1, <2>2
  <2>4. QED
    BY <2>1, <2>2, <2>3
<1>3. CASE DB!WorkerTake
  <2>1. /\ queue # << >> /\ queue' = Tail(queue) /\ current' = Head(queue)
        /\ rows' = rows
    BY <1>3 DEF DB!WorkerTake
  <2>2. /\ Len(queue') = Len(queue) - 1
        /\ \A i \in 1..Len(queue') : queue'[i] = queue[i + 1]
        /\ current' = queue[1]
    BY <1>1, <2>1, HeadTailProperties
  <2>3. 1 \in 1..Len(queue) /\ \A i \in 1..Len(queue') : i + 1 \in 1..Len(queue)
    BY <1>1, <2>1, <2>2, EmptySeq, LenProperties
  <2>4. QED
    BY <2>1, <2>2, <2>3
<1>4. CASE DB!persist_record
  <2>1. /\ Nothing(current) /\ UNCHANGED queue /\ worker' = "loop"
        /\ \/ rows' = DB!Extended(current) \/ rows' = DB!Inserted(current)
           \/ rows' = rows
    BY <1>4 DEF DB!persist_record
  <2>2. \A r \in rows : r \in DBP!Entry
    BY DEF TypeInv, DBP!TypeInv, DBP!TypeOK
  <2>3. \A r \in DB!Extended(current) : Nothing(r)
    BY <2>1, <2>2 DEF DB!Extended, DBP!Entry
  <2>4. \A r \in DB!Inserted(current) : Nothing(r)
    BY <2>1 DEF DB!Inserted
  <2>5. QED
    BY <2>1, <2>3, <2>4
<1>5. CASE UNCHANGED dbVars
  BY <1>5 DEF dbVars
<1>6. CASE queue' \in {queue, << >>} /\ worker' # "persist" /\ rows' = rows
  BY <1>6
<1>7. CASE UNCHANGED <<queue, worker, current, rows>>
  BY <1>7
<1>8. QED
  <2>1. CASE \/ Start \/ ConstructJob \/ RunJob \/ JoinLoop \/ LoopOwnStep \/ Tick
             \/ \E t \in HandlerThreads, s \in Signals : Signal(t, s)
             \/ \E s \in Signals : HandlerLock(s) \/ HandlerSet(s) \/ HandlerReturn(s)
             \/ UNCHANGED vars
    BY <2>1, <1>5 DEF Start, ConstructJob, RunJob, JoinLoop, LoopOwnStep, Tick, Signal,
                HandlerLock, HandlerSet, HandlerReturn, vars
  <2>2. CASE ConstructStore \/ DestroyStore \/ SaveReturns \/ WorkerSpuriousWake
    BY <2>2, <1>6, <1>7
       DEF ConstructStore, DestroyStore, SaveReturns, WorkerSpuriousWake, DB!Open,
           DB!DtorClear, DB!DtorNotify, DB!SaveNotify, DB!SpuriousWake
  <2>3. CASE Exit \/ Die
    BY <2>3, <1>5, <1>6 DEF Exit, Die, DB!DtorJoin, DB!Crash, DB!Forget
  <2>4. CASE WorkerStep
    BY <2>4, <1>3, <1>4, <1>6
       DEF WorkerStep, DB!WorkerStep, DB!WorkerDecideWait, DB!WorkerWait, DB!WorkerStop
  <2>5. QED
    BY <1>2, <2>1, <2>2, <2>3, <2>4 DEF Next, MainStep

\* A configured interval of zero or less, which validate_configuration lets
\* through (configuration.cc:43), makes a daemon that records nothing, over
\* any number of sessions: no second is in any row, and with a negative one
\* there are no rows.
NothingRecorded == DB!Covered = {} /\ (Period < 0 => rows = {})

THEOREM NothingIsRecorded ==
    ASSUME Period <= 0
    PROVE  Spec => []NothingRecorded
<1>1. LifeInv /\ TypeInv /\ JobP!IdleInv /\ IdleStore /\ [Next]_vars =>
        (LifeInv /\ TypeInv /\ JobP!IdleInv /\ IdleStore)'
  BY NextLife, NextTypes, NextIdleJob, NextIdleStore
<1>2. TypeInv /\ IdleStore => NothingRecorded
  <2> SUFFICES ASSUME TypeInv, IdleStore PROVE NothingRecorded
    OBVIOUS
  <2>1. \A r \in rows : DB!Instants(r) = {}
    <3>1. \A r \in rows : r.start \in 1..MaxTime /\ r.end = r.start
      BY DEF TypeInv, DBP!TypeInv, DBP!TypeOK, DBP!Entry, IdleStore, Nothing
    <3>2. \A i, t \in 1..MaxTime : ~(i <= t /\ t < i)
      BY JobConstants
    <3>3. QED
      BY <3>1, <3>2 DEF DB!Instants
  <2>2. Period < 0 => rows = {}
    BY JobConstants DEF IdleStore, Nothing
  <2>3. QED
    BY <2>1, <2>2 DEF NothingRecorded, DB!Covered
<1>3. QED
  BY <1>1, <1>2, InitLife, InitTypes, InitIdle, PTL DEF Spec

-----------------------------------------------------------------------------
(***************************************************************************)
(* How the process can hang.  A handler is on one thread, once, so whoever *)
(* waits for a mutex waits for one definite thread.  The prover has no     *)
(* ENABLED: that a step can be taken is said by its guards.                *)
(***************************************************************************)

\* The calls of stop() that have not returned.
Calling == {"lock", "set", "notify"}

Places(t) == 1..Len(frames[t])

FramesInv ==
    /\ \A t \in Threads : \A i \in Places(t) : stop[frames[t][i]] \in Calling
    /\ \A s \in Signals : stop[s] \in Calling =>
         \E t \in Threads : \E i \in Places(t) : frames[t][i] = s
    /\ \A t, u \in Threads : \A i \in Places(t), j \in Places(u) :
         frames[t][i] = frames[u][j] => t = u /\ i = j

\* The main thread waits for threads that exist.
WaitInv ==
    /\ db # "closed" => worker # "none"
    /\ db_running => db = "open"
    /\ main = "join" => loop # "idle"

HangInv == JobP!JobInv /\ FramesInv /\ WaitInv

LEMMA InitHang == Init => HangInv
<1> SUFFICES ASSUME Init PROVE HangInv
  OBVIOUS
<1>1. \A t \in Threads : frames[t] = << >>
  BY DEF Init, NoFrames
<1>2. \A s \in Signals : stop[s] = "idle"
  BY DEF Init, Job!Init
<1>3. FramesInv
  BY <1>1, <1>2 DEF FramesInv, Places, Calling
<1>4. WaitInv
  BY DEF Init, DB!Init, WaitInv
<1>5. QED
  BY <1>3, <1>4, InitJob DEF HangInv

\* A handler goes on top of its thread's stack.
LEMMA SignalFrames ==
    ASSUME TypeInv, FramesInv, NEW t \in HandlerThreads, NEW s \in Signals, Signal(t, s)
    PROVE  FramesInv'
<1>1. t \in Threads /\ frames[t] \in Seq(Signals) /\ frames \in [Threads -> Seq(Signals)]
  BY ThreadsAssumption DEF TypeInv
<1>2. /\ stop[s] = "idle" /\ stop \in [Signals -> {"idle", "lock", "set", "notify", "returned"}]
      /\ stop' = [stop EXCEPT ![s] = "lock"]
  BY DEF Signal, Job!StopCall, TypeInv, JobP!TypeOK
<1>3. frames' = [frames EXCEPT ![t] = <<s>> \o frames[t]]
  BY DEF Signal
<1>4. \A u \in Threads : u # t => frames'[u] = frames[u]
  BY <1>1, <1>3
<1>5. Len(frames[t]) \in Nat
  BY <1>1
<1>6. Len(frames'[t]) = Len(frames[t]) + 1 /\ frames'[t][1] = s
  BY <1>1, <1>3
<1>7. \A i \in Places(t)' : i # 1 => i - 1 \in Places(t) /\ frames'[t][i] = frames[t][i - 1]
  BY <1>1, <1>3, <1>5, <1>6 DEF Places
<1>8. \A i \in Places(t) : i + 1 \in Places(t)' /\ frames'[t][i + 1] = frames[t][i]
  BY <1>1, <1>3, <1>5, <1>6 DEF Places
<1>9. 1 \in Places(t)'
  BY <1>5, <1>6 DEF Places
<1>10. \A u \in Threads : \A i \in Places(u) : frames[u][i] \in Signals /\ frames[u][i] # s
  <2>1. \A u \in Threads : \A i \in Places(u) : frames[u][i] \in Signals
    BY <1>1, ElementOfSeq DEF Places
  <2>2. QED
    BY <1>2, <2>1 DEF FramesInv, Calling
<1>11. \A u \in Threads : u # t => Places(u)' = Places(u)
  BY <1>4 DEF Places
<1>12. ASSUME NEW u \in Threads, NEW i \in Places(u)'
       PROVE  stop'[frames'[u][i]] \in Calling
  <2>1. CASE u = t /\ i = 1
    BY <1>2, <1>6, <2>1 DEF Calling
  <2>2. CASE u = t /\ i # 1
    BY <1>2, <1>7, <1>10, <2>2 DEF FramesInv
  <2>3. CASE u # t
    BY <1>2, <1>4, <1>10, <1>11, <2>3 DEF FramesInv
  <2>4. QED
    BY <2>1, <2>2, <2>3
<1>13. ASSUME NEW r \in Signals, stop'[r] \in Calling
       PROVE  \E u \in Threads : \E i \in Places(u)' : frames'[u][i] = r
  <2>1. CASE r = s
    BY <1>1, <1>6, <1>9, <2>1
  <2>2. CASE r # s
    <3>1. stop[r] \in Calling
      BY <1>2, <1>13, <2>2
    <3>2. PICK u \in Threads : \E i \in Places(u) : frames[u][i] = r
      BY <3>1 DEF FramesInv
    <3>3. PICK i \in Places(u) : frames[u][i] = r
      BY <3>2
    <3>4. CASE u = t
      BY <1>8, <3>3, <3>4
    <3>5. CASE u # t
      BY <1>4, <1>11, <3>3, <3>5
    <3>6. QED
      BY <3>4, <3>5
  <2>3. QED
    BY <2>1, <2>2
<1>14. ASSUME NEW u \in Threads, NEW v \in Threads, NEW i \in Places(u)', NEW j \in Places(v)',
              frames'[u][i] = frames'[v][j]
       PROVE  u = v /\ i = j
  <2>1. i \in Int /\ j \in Int
    BY <1>14 DEF Places
  <2>2. CASE u = t /\ i = 1
    <3>1. v = t
      BY <1>4, <1>6, <1>10, <1>11, <1>14, <2>2
    <3>2. j = 1
      BY <1>6, <1>7, <1>10, <1>14, <2>2, <3>1
    <3>3. QED
      BY <2>2, <3>1, <3>2
  <2>3. CASE v = t /\ j = 1
    <3>1. u = t
      BY <1>4, <1>6, <1>10, <1>11, <1>14, <2>3
    <3>2. i = 1
      BY <1>6, <1>7, <1>10, <1>14, <2>3, <3>1
    <3>3. QED
      BY <2>3, <3>1, <3>2
  <2>4. CASE ~(u = t /\ i = 1) /\ ~(v = t /\ j = 1)
    <3> DEFINE p == IF u = t THEN i - 1 ELSE i
               q == IF v = t THEN j - 1 ELSE j
    <3>1. p \in Places(u) /\ frames'[u][i] = frames[u][p]
      BY <1>4, <1>7, <1>11, <2>4
    <3>2. q \in Places(v) /\ frames'[v][j] = frames[v][q]
      BY <1>4, <1>7, <1>11, <2>4
    <3>3. frames[u][p] = frames[v][q]
      BY <1>14, <3>1, <3>2
    <3> HIDE DEF p, q
    <3>4. u = v /\ p = q
      BY <3>1, <3>2, <3>3 DEF FramesInv
    <3>5. QED
      BY <2>1, <3>4 DEF p, q
  <2>5. QED
    BY <2>2, <2>3, <2>4
<1>15. QED
  BY <1>12, <1>13, <1>14 DEF FramesInv

\* A handler that returns was on top of one thread's stack.
LEMMA ReturnFrames ==
    ASSUME TypeInv, FramesInv, NEW s \in Signals, HandlerReturn(s)
    PROVE  FramesInv'
<1>1. frames \in [Threads -> Seq(Signals)]
  BY DEF TypeInv
<1>2. /\ stop \in [Signals -> {"idle", "lock", "set", "notify", "returned"}]
      /\ stop' = [stop EXCEPT ![s] = "returned"]
  BY DEF HandlerReturn, Job!StopNotify, TypeInv, JobP!TypeOK
<1>3. PICK t \in Threads : ~Free(t) /\ Head(frames[t]) = s
  BY DEF HandlerReturn, Running
<1>4. frames[t] \in Seq(Signals) /\ frames[t] # << >>
  BY <1>1, <1>3 DEF Free
<1>5. /\ Len(frames[t]) \in Nat /\ Len(frames[t]) > 0
      /\ 1 \in Places(t) /\ frames[t][1] = s
  BY <1>3, <1>4 DEF Places
<1>6. \A u \in Threads : u # t => frames'[u] = frames[u]
  <2>1. ASSUME NEW u \in Threads, u # t, ~Free(u)
        PROVE  Head(frames[u]) # s
    <3>1. frames[u] \in Seq(Signals) /\ frames[u] # << >>
      BY <1>1, <2>1 DEF Free
    <3>2. 1 \in Places(u) /\ frames[u][1] = Head(frames[u])
      BY <3>1 DEF Places
    <3>3. QED
      BY <1>5, <2>1, <3>2 DEF FramesInv
  <2>2. QED
    BY <2>1 DEF HandlerReturn
<1>7. frames'[t] = Tail(frames[t])
  BY <1>3 DEF HandlerReturn
<1>8. Len(frames'[t]) = Len(frames[t]) - 1
  BY <1>4, <1>7
<1>9. \A i \in Places(t)' : i + 1 \in Places(t) /\ frames'[t][i] = frames[t][i + 1]
  BY <1>4, <1>5, <1>7, <1>8 DEF Places
<1>10. \A i \in Places(t) : i # 1 => i - 1 \in Places(t)' /\ frames'[t][i - 1] = frames[t][i]
  BY <1>4, <1>5, <1>7, <1>8 DEF Places
<1>11. \A u \in Threads : u # t => Places(u)' = Places(u)
  BY <1>6 DEF Places
<1>12. \A u \in Threads : \A i \in Places(u) : frames[u][i] \in Signals
  BY <1>1, ElementOfSeq DEF Places
<1>13. \A u \in Threads : \A i \in Places(u)' :
         LET p == IF u = t THEN i + 1 ELSE i
         IN  p \in Places(u) /\ frames'[u][i] = frames[u][p] /\ frames[u][p] # s
  <2>1. ASSUME NEW i \in Places(t)'
        PROVE  frames[t][i + 1] # s
    <3>1. i \in Int /\ i + 1 # 1
      BY <2>1 DEF Places
    <3>2. QED
      BY <1>5, <1>9, <2>1, <3>1 DEF FramesInv
  <2>2. ASSUME NEW u \in Threads, u # t, NEW i \in Places(u)
        PROVE  frames[u][i] # s
    BY <1>5, <2>2 DEF FramesInv
  <2>3. QED
    BY <1>6, <1>9, <1>11, <2>1, <2>2
<1>14. ASSUME NEW u \in Threads, NEW i \in Places(u)'
       PROVE  stop'[frames'[u][i]] \in Calling
  BY <1>2, <1>12, <1>13, <1>14 DEF FramesInv
<1>15. ASSUME NEW r \in Signals, stop'[r] \in Calling
       PROVE  \E u \in Threads : \E i \in Places(u)' : frames'[u][i] = r
  <2>1. r # s /\ stop[r] \in Calling
    BY <1>2, <1>15 DEF Calling
  <2>2. PICK u \in Threads : \E i \in Places(u) : frames[u][i] = r
    BY <2>1 DEF FramesInv
  <2>3. PICK i \in Places(u) : frames[u][i] = r
    BY <2>2
  <2>4. CASE u = t
    BY <1>5, <1>10, <2>1, <2>3, <2>4
  <2>5. CASE u # t
    BY <1>6, <1>11, <2>3, <2>5
  <2>6. QED
    BY <2>4, <2>5
<1>16. ASSUME NEW u \in Threads, NEW v \in Threads, NEW i \in Places(u)', NEW j \in Places(v)',
              frames'[u][i] = frames'[v][j]
       PROVE  u = v /\ i = j
  <2> DEFINE p == IF u = t THEN i + 1 ELSE i
             q == IF v = t THEN j + 1 ELSE j
  <2>1. i \in Int /\ j \in Int
    BY <1>16 DEF Places
  <2>2. /\ p \in Places(u) /\ frames'[u][i] = frames[u][p]
        /\ q \in Places(v) /\ frames'[v][j] = frames[v][q]
    BY <1>13
  <2>3. frames[u][p] = frames[v][q]
    BY <1>16, <2>2
  <2> HIDE DEF p, q
  <2>4. u = v /\ p = q
    BY <2>2, <2>3 DEF FramesInv
  <2>5. QED
    BY <2>1, <2>4 DEF p, q
<1>17. QED
  BY <1>14, <1>15, <1>16 DEF FramesInv

LEMMA NextFramesInv ==
    ASSUME LifeInv, TypeInv, FramesInv, [Next]_vars
    PROVE  FramesInv'
<1>1. ASSUME NEW t \in HandlerThreads, NEW s \in Signals, Signal(t, s)
      PROVE  FramesInv'
  BY <1>1, SignalFrames
<1>2. ASSUME NEW s \in Signals, HandlerLock(s) \/ HandlerSet(s)
      PROVE  FramesInv'
  <2>1. /\ frames' = frames
        /\ stop[s] \in Calling
        /\ \E l \in Calling : stop' = [stop EXCEPT ![s] = l]
    BY <1>2 DEF HandlerLock, HandlerSet, Job!StopLock, Job!StopSet, Calling
  <2>2. \A r \in Signals : stop'[r] \in Calling <=> stop[r] \in Calling
    BY <2>1 DEF TypeInv, JobP!TypeOK
  <2>3. \A u \in Threads : Places(u)' = Places(u) /\ frames'[u] = frames[u]
    BY <2>1 DEF Places
  <2>4. \A u \in Threads : \A i \in Places(u) : frames[u][i] \in Signals
    BY ElementOfSeq DEF Places, TypeInv
  <2>5. QED
    BY <2>2, <2>3, <2>4 DEF FramesInv
<1>3. ASSUME NEW s \in Signals, HandlerReturn(s)
      PROVE  FramesInv'
  BY <1>3, ReturnFrames
<1>4. CASE Gone
  <2>1. /\ \A t \in Threads : frames'[t] = << >>
        /\ \A s \in Signals : stop'[s] = "idle"
    BY <1>4 DEF Gone, NoFrames
  <2>2. QED
    BY <2>1 DEF FramesInv, Places, Calling
<1>5. CASE UNCHANGED <<frames, stop>>
  BY <1>5 DEF FramesInv, Places
<1>6. Exit \/ Die => Gone
  BY DEF Exit, Die
<1>7. Start \/ ConstructStore \/ ConstructJob \/ RunJob \/ JoinLoop \/ DestroyStore =>
        UNCHANGED <<frames, stop>>
  BY DEF Start, ConstructStore, ConstructJob, RunJob, JoinLoop, DestroyStore, Job!Run,
         jobVars
<1>8. LoopOwnStep => UNCHANGED <<frames, stop>>
  BY DEF LoopOwnStep, Job!Begin, Job!LoopAgain, Job!Wait, Job!LoopEnd, Job!WaitReturns,
         Job!Relock, Job!Sample
<1>9. SaveEntry \/ SaveReturns \/ WorkerStep \/ WorkerSpuriousWake \/ Tick
        \/ UNCHANGED vars => UNCHANGED <<frames, stop>>
  BY DEF SaveEntry, SaveReturns, WorkerStep, WorkerSpuriousWake, Tick, Job!Save,
         Job!SaveReturns, Job!Tick, vars, jobVars
<1>10. QED
  BY <1>1, <1>2, <1>3, <1>4, <1>5, <1>6, <1>7, <1>8, <1>9 DEF Next, MainStep

LEMMA NextWait ==
    ASSUME LifeInv, WaitInv, [Next]_vars
    PROVE  WaitInv'
<1> USE DEF WaitInv, dbVars, jobVars
<1>1. CASE Start \/ ConstructStore \/ ConstructJob
  BY <1>1 DEF Start, ConstructStore, DB!Open, ConstructJob
<1>2. CASE RunJob \/ JoinLoop
  BY <1>2 DEF RunJob, Job!Run, JoinLoop
<1>3. CASE DestroyStore
  BY <1>3 DEF DestroyStore, DB!DtorClear, DB!DtorNotify
<1>4. CASE Exit \/ Die
  BY <1>4 DEF Exit, Die, DB!DtorJoin, DB!Crash, DB!Forget, Gone
<1>5. CASE LoopOwnStep
  BY <1>5 DEF LoopOwnStep, Job!Begin, Job!LoopAgain, Job!Wait, Job!LoopEnd,
              Job!WaitReturns, Job!Relock, Job!Sample
<1>6. CASE SaveEntry \/ SaveReturns
  BY <1>6 DEF SaveEntry, SaveReturns, Job!Save, Job!SaveReturns, DB!Push, DB!SaveNotify
<1>7. CASE WorkerStep \/ WorkerSpuriousWake
  BY <1>7 DEF WorkerStep, WorkerSpuriousWake, DB!WorkerStep, DB!SpuriousWake,
              DB!WorkerDecideWait, DB!WorkerWait, DB!WorkerTake, DB!WorkerStop,
              DB!persist_record
<1>8. ASSUME NEW t \in HandlerThreads, NEW s \in Signals, Signal(t, s)
      PROVE  WaitInv'
  BY <1>8 DEF Signal, Job!StopCall, Job!loopVars
<1>9. ASSUME NEW s \in Signals, HandlerLock(s) \/ HandlerSet(s) \/ HandlerReturn(s)
      PROVE  WaitInv'
  BY <1>9 DEF HandlerLock, HandlerSet, HandlerReturn, Job!StopLock, Job!StopSet,
              Job!StopNotify, Job!loopVars
<1>10. CASE Tick \/ UNCHANGED vars
  BY <1>10 DEF Tick, Job!Tick, vars
<1>11. QED
  BY <1>1, <1>2, <1>3, <1>4, <1>5, <1>6, <1>7, <1>8, <1>9, <1>10 DEF Next, MainStep

LEMMA NextHang == LifeInv /\ TypeInv /\ HangInv /\ [Next]_vars => HangInv'
BY NextJob, NextFramesInv, NextWait DEF HangInv

\* The mutex is held by the loop's own code, or by a handler in its place.
LEMMA MutexHeld ==
    ASSUME TypeInv, HangInv, mutex # "free"
    PROVE  \/ mutex = "loop" /\ loop \in JobP!Holding
           \/ /\ mutex \in Signals /\ stop[mutex] = "set"
              /\ \E t \in Threads : \E i \in Places(t) : frames[t][i] = mutex
<1>1. mutex = "loop" \/ mutex \in Signals
  BY DEF TypeInv, JobP!TypeOK
<1>2. CASE mutex = "loop"
  BY <1>2 DEF HangInv, JobP!JobInv, JobP!MutexInv
<1>3. CASE mutex \in Signals
  <2>1. stop[mutex] = "set"
    BY <1>3 DEF HangInv, JobP!JobInv, JobP!MutexInv
  <2>2. QED
    BY <1>3, <2>1 DEF HangInv, FramesInv, Calling
<1>4. QED
  BY <1>1, <1>2, <1>3

\* A handler on t waits for the mutex, which is held by the code underneath
\* it, or by the loop that waits for the worker's mtx underneath it.
Stuck(t) ==
    /\ ~Free(t) /\ stop[Head(frames[t])] = "lock"
    /\ \/ mutex = "loop" /\ t = "loop"
       \/ mutex \in Signals /\ \E i \in Places(t) : frames[t][i] = mutex
       \/ mutex = "loop" /\ loop = "save" /\ t = "worker" /\ worker = "tested"

LEMMA DeadlockIsStuck ==
    TypeInv /\ HangInv => (Deadlocked <=> \E t \in Threads : Stuck(t))
<1> SUFFICES ASSUME TypeInv, HangInv PROVE Deadlocked <=> \E t \in Threads : Stuck(t)
  OBVIOUS
<1>1. frames \in [Threads -> Seq(Signals)] /\ mutex \in {"free", "loop"} \cup Signals
  BY DEF TypeInv, JobP!TypeOK
<1>2. \A t \in Threads : \A i \in Places(t) : frames[t][i] \in Signals
  BY <1>1, ElementOfSeq DEF Places
<1>3. loop = "save" => mutex = "loop"
  BY DEF HangInv, JobP!JobInv, JobP!MutexInv, JobP!Holding
<1>4. ASSUME NEW t \in Threads
      PROVE  t \in Holder <=> \/ mutex = "loop" /\ t = "loop"
                              \/ mutex \in Signals /\ \E i \in Places(t) : frames[t][i] = mutex
  <2>1. CASE mutex = "loop"
    BY <2>1, SignalsAssumption DEF Holder
  <2>2. CASE mutex # "loop"
    BY <1>2, <2>2 DEF Holder, Places
  <2>3. QED
    BY <2>1, <2>2
<1>5. "loop" \in Threads /\ "worker" \in Threads
  BY DEF Threads
<1>6. loop = "save" => "loop" \in Holder
  BY <1>3, <1>4, <1>5
<1>7. QED
  BY <1>3, <1>4, <1>6 DEF Deadlocked, Stuck

\* The guards of the steps that Fairness drives.
MainGoes ==
    \/ main \in {"starting", "constructing"}
    \/ Free("main") /\ main = "run" /\ loop = "idle"
    \/ Free("main") /\ main = "join" /\ loop = "done"
    \/ Free("main") /\ main = "exit" /\ db = "open" /\ saver = "idle"
    \/ Free("main") /\ main = "exit" /\ db = "notify"
    \/ Free("main") /\ main = "exit" /\ db = "join" /\ worker = "done"

LoopGoes ==
    /\ Free("loop")
    /\ \/ loop \in {"begin", "woken"} /\ mutex = "free"
       \/ loop \in {"test", "round"}
       \/ loop = "wait" /\ (waited >= Period \/ Spurious)
       \/ loop = "sample" /\ Apps # {}

EntryGoes ==
    Free("loop") /\ loop = "save" /\ db = "open" /\ saver = "idle" /\ worker # "tested"

SaveEnds == Free("loop") /\ loop = "saving" /\ saver = "notify"

WorkerGoes == Free("worker") /\ worker \in {"loop", "tested", "persist"}

HandlerGoes(s) ==
    /\ Running(s)
    /\ stop[s] \in Calling
    /\ stop[s] = "lock" => mutex = "free"

SomeoneGoes ==
    \/ MainGoes \/ LoopGoes \/ EntryGoes \/ SaveEnds \/ WorkerGoes
    \/ \E s \in Signals : HandlerGoes(s)

\* Nobody has asked the loop to stop, and it sleeps out its period.
SleepsUnasked == loop = "wait" /\ job_running /\ \A t \in Threads : Free(t)

NoOtherHang ==
    main # "off" => SomeoneGoes \/ SleepsUnasked \/ Deadlocked \/ WakeupLost

\* A handler that cannot go on waits for the mutex.
LEMMA HandlersWait ==
    ASSUME TypeInv, HangInv, ~SomeoneGoes, NEW t \in Threads, ~Free(t)
    PROVE  stop[Head(frames[t])] = "lock" /\ mutex # "free"
<1>1. frames[t] \in Seq(Signals) /\ frames[t] # << >>
  BY DEF TypeInv, Free
<1>2. Head(frames[t]) \in Signals /\ 1 \in Places(t) /\ frames[t][1] = Head(frames[t])
  BY <1>1, HeadTailProperties DEF Places
<1>3. stop[Head(frames[t])] \in Calling
  BY <1>2 DEF HangInv, FramesInv
<1>4. Running(Head(frames[t]))
  BY DEF Running
<1>5. QED
  BY <1>2, <1>3, <1>4 DEF SomeoneGoes, HandlerGoes

LEMMA HangsOnlySo ==
    ASSUME Apps # {}, LifeInv, TypeInv, HangInv, main # "off", ~SomeoneGoes
    PROVE  SleepsUnasked \/ Deadlocked \/ WakeupLost
<1>1. \A t \in Threads : ~Free(t) => stop[Head(frames[t])] = "lock" /\ mutex # "free"
  BY HandlersWait
<1>2. (\E t \in Threads : Stuck(t)) => Deadlocked
  BY DeadlockIsStuck
<1>3. {"main", "loop", "worker"} = Threads
  BY DEF Threads
<1>4. mutex = "loop" \/ mutex \in Signals => \E t \in Threads : Stuck(t)
  <2>1. CASE mutex \in Signals
    <3>1. PICK t \in Threads : \E i \in Places(t) : frames[t][i] = mutex
      BY <2>1, MutexHeld, SignalsAssumption
    <3>2. frames[t] # << >>
      BY <3>1 DEF Places
    <3>3. ~Free(t)
      BY <3>2 DEF Free
    <3>4. Stuck(t)
      BY <1>1, <2>1, <3>1, <3>3 DEF Stuck
    <3>5. QED
      BY <3>4
  <2>2. CASE mutex = "loop" /\ ~Free("loop")
    BY <1>1, <1>3, <2>2 DEF Stuck
  <2>3. CASE mutex = "loop" /\ Free("loop")
    <3>1. loop \in JobP!Holding
      BY <2>3, MutexHeld, SignalsAssumption
    <3>2. main = "join" /\ db = "open" /\ (saver = "notify" <=> loop = "saving")
          /\ saver \in {"idle", "notify"}
      BY <3>1 DEF LifeInv, Untouched, JobP!Holding
    <3>3. loop = "save" /\ worker = "tested"
      BY <2>3, <3>1, <3>2
         DEF SomeoneGoes, LoopGoes, EntryGoes, SaveEnds, JobP!Holding
    <3>4. ~Free("worker")
      BY <3>3 DEF SomeoneGoes, WorkerGoes
    <3>5. Stuck("worker")
      BY <1>1, <1>3, <2>3, <3>3, <3>4 DEF Stuck
    <3>6. QED
      BY <1>3, <3>5
  <2>4. QED
    BY <2>1, <2>2, <2>3
<1>5. CASE mutex # "free"
  <2>1. mutex = "loop" \/ mutex \in Signals
    BY <1>5 DEF TypeInv, JobP!TypeOK
  <2>2. QED
    BY <1>2, <1>4, <2>1
<1>6. CASE mutex = "free"
  <2>1. \A t \in Threads : Free(t)
    BY <1>1, <1>6
  <2>2. Free("main") /\ Free("loop") /\ Free("worker")
    BY <1>3, <2>1
  <2>3. loop \notin JobP!Holding
    BY <1>6 DEF HangInv, JobP!JobInv, JobP!MutexInv
  <2>4. \A s \in Signals : stop[s] # "notify"
    <3>1. ASSUME NEW s \in Signals, stop[s] = "notify" PROVE FALSE
      <4>1. PICK t \in Threads : \E i \in Places(t) : frames[t][i] = s
        BY <3>1 DEF HangInv, FramesInv, Calling
      <4>2. frames[t] # << >>
        BY <4>1 DEF Places
      <4>3. QED
        BY <2>1, <4>2 DEF Free
    <3>2. QED
      BY <3>1
  <2>5. main \in {"run", "join", "exit"}
    BY DEF LifeInv, SomeoneGoes, MainGoes
  <2>6. CASE main = "run"
    BY <2>2, <2>6 DEF LifeInv, SomeoneGoes, MainGoes
  <2>7. CASE main = "join"
    <3>1. loop = "wait"
      BY <1>6, <2>2, <2>3, <2>7
         DEF HangInv, WaitInv, TypeInv, JobP!TypeOK, JobP!Holding, SomeoneGoes, MainGoes,
             LoopGoes
    <3>2. job_running
      BY <2>4, <3>1 DEF HangInv, JobP!JobInv, JobP!StopInv
    <3>3. QED
      BY <2>1, <3>1, <3>2 DEF SleepsUnasked
  <2>8. CASE main = "exit"
    <3>1. db = "join" /\ worker # "done"
      BY <2>2, <2>8 DEF LifeInv, SomeoneGoes, MainGoes
    <3>2. worker = "waiting"
      BY <2>2, <3>1
         DEF HangInv, WaitInv, TypeInv, DBP!TypeInv, DBP!TypeOK, SomeoneGoes, WorkerGoes
    <3>3. QED
      BY <3>1, <3>2 DEF WakeupLost
  <2>9. QED
    BY <2>5, <2>6, <2>7, <2>8
<1>7. QED
  BY <1>5, <1>6

LEMMA HangInvariance == Spec => [](LifeInv /\ TypeInv /\ HangInv)
BY InitLife, NextLife, InitTypes, NextTypes, InitHang, NextHang, PTL DEF Spec

\* Besides an idle sleep there are two ways to hang, and no third: a handler
\* that waits for what its own thread holds (a std::mutex in stop(),
\* trackerjob.cc:89), and the notification of ~SQLiteDataAccess that comes
\* between the worker's test and its wait (sqlitedataaccess.cc:148).  In
\* any other state of a living process some thread has a step to take.
THEOREM TwoWaysToHang == ASSUME Apps # {} PROVE Spec => []NoOtherHang
<1>1. LifeInv /\ TypeInv /\ HangInv => NoOtherHang
  BY HangsOnlySo DEF NoOtherHang
<1>2. QED
  BY <1>1, HangInvariance, PTL

-----------------------------------------------------------------------------
\* A thread that is stuck stays so, and so does what it waits for.
LEMMA StuckStays ==
    ASSUME LifeInv, TypeInv, HangInv, [Next]_vars, main' # "off",
           NEW t \in Threads, Stuck(t)
    PROVE  Stuck(t)'
<1>1. /\ frames \in [Threads -> Seq(Signals)] /\ frames[t] \in Seq(Signals)
      /\ frames[t] # << >> /\ Len(frames[t]) \in Nat
      /\ stop \in [Signals -> {"idle", "lock", "set", "notify", "returned"}]
  BY DEF TypeInv, JobP!TypeOK, Stuck, Free
<1>2. /\ 1 \in Places(t) /\ frames[t][1] = Head(frames[t]) /\ Head(frames[t]) \in Signals
      /\ stop[Head(frames[t])] = "lock"
  BY <1>1, HeadTailProperties DEF Places, Stuck
<1>3. /\ mutex # "free"
      /\ \A s \in Signals : stop[s] = "set" <=> mutex = s
      /\ loop \in JobP!Holding <=> mutex = "loop"
  BY SignalsAssumption DEF Stuck, HangInv, JobP!JobInv, JobP!MutexInv
<1>4. main \in {"run", "join", "exit"}
  <2>1. frames # NoFrames
    BY <1>1 DEF NoFrames
  <2>2. QED
    BY <2>1 DEF LifeInv, Untouched
\* A step that leaves the handlers and the mutex alone.
<1>5. ASSUME UNCHANGED <<frames, stop, mutex>>,
             loop = "save" /\ worker = "tested" /\ t = "worker" =>
               loop' = loop /\ worker' = worker
      PROVE  Stuck(t)'
  BY <1>5 DEF Stuck, Free, Places
<1>6. CASE Start \/ ConstructStore \/ ConstructJob \/ Exit \/ Die
  BY <1>4, <1>6 DEF Start, ConstructStore, ConstructJob, Exit, Die, Gone
<1>7. CASE RunJob
  BY <1>5, <1>7 DEF RunJob, Job!Run, dbVars
<1>8. CASE JoinLoop \/ Tick \/ UNCHANGED vars
  BY <1>5, <1>8 DEF JoinLoop, Tick, Job!Tick, vars, jobVars, dbVars
<1>9. CASE DestroyStore
  <2>1. loop # "save"
    BY <1>9 DEF DestroyStore, LifeInv
  <2>2. QED
    BY <1>5, <1>9, <2>1 DEF DestroyStore, jobVars
<1>10. CASE LoopOwnStep
  <2>1. ~(mutex = "loop" /\ t = "loop") /\ loop # "save"
    BY <1>10
       DEF LoopOwnStep, Stuck, Job!Begin, Job!LoopAgain, Job!Wait, Job!LoopEnd,
           Job!WaitReturns, Job!Relock, Job!Sample
  <2>2. mutex \in Signals
    BY <2>1 DEF Stuck
  <2>3. loop \notin JobP!Holding
    BY <1>3, <2>2, SignalsAssumption
  <2>4. UNCHANGED <<frames, stop, mutex>>
    BY <1>3, <1>10, <2>3
       DEF LoopOwnStep, Job!Begin, Job!LoopAgain, Job!Wait, Job!LoopEnd,
           Job!WaitReturns, Job!Relock, Job!Sample, JobP!Holding
  <2>5. QED
    BY <1>5, <2>1, <2>4
<1>11. CASE SaveEntry
  BY <1>5, <1>11 DEF SaveEntry, Job!Save, DB!Push
<1>12. CASE SaveReturns
  BY <1>5, <1>12 DEF SaveReturns, Job!SaveReturns
<1>13. CASE WorkerStep \/ WorkerSpuriousWake
  <2>1. UNCHANGED <<frames, stop, mutex>> /\ Free("worker")
    BY <1>13 DEF WorkerStep, WorkerSpuriousWake, jobVars
  <2>2. t # "worker"
    BY <2>1 DEF Stuck
  <2>3. QED
    BY <1>5, <2>1, <2>2
<1>14. ASSUME NEW u \in HandlerThreads, NEW s \in Signals, Signal(u, s)
       PROVE  Stuck(t)'
  <2>1. /\ frames' = [frames EXCEPT ![u] = <<s>> \o frames[u]]
        /\ stop[s] = "idle" /\ stop' = [stop EXCEPT ![s] = "lock"]
        /\ mutex' = mutex /\ loop' = loop /\ worker' = worker
    BY <1>14 DEF Signal, Job!StopCall, Job!loopVars, dbVars
  <2>2. CASE u = t
    <3>1. frames'[t] = <<s>> \o frames[t]
      BY <1>1, <2>1, <2>2
    <3>2. frames'[t] # << >> /\ Head(frames'[t]) = s /\ Len(frames'[t]) = Len(frames[t]) + 1
      BY <1>1, <3>1
    <3>3. \A i \in Places(t) : i + 1 \in Places(t)' /\ frames'[t][i + 1] = frames[t][i]
      BY <1>1, <3>1, <3>2 DEF Places
    <3>4. stop'[s] = "lock"
      BY <1>1, <2>1
    <3>5. mutex \in Signals /\ (\E i \in Places(t) : frames[t][i] = mutex) =>
            mutex' \in Signals /\ \E i \in Places(t)' : frames'[t][i] = mutex'
      BY <2>1, <3>3
    <3>6. QED
      BY <2>1, <3>2, <3>4, <3>5 DEF Stuck, Free
  <2>3. CASE u # t
    <3>1. frames'[t] = frames[t]
      BY <1>1, <2>1, <2>3
    <3>2. stop'[Head(frames[t])] = "lock"
      BY <1>1, <1>2, <2>1
    <3>3. QED
      BY <2>1, <3>1, <3>2 DEF Stuck, Free, Places
  <2>4. QED
    BY <2>2, <2>3
<1>15. ASSUME NEW s \in Signals, HandlerLock(s)
       PROVE  Stuck(t)'
  BY <1>3, <1>15 DEF HandlerLock, Job!StopLock
\* The holder is under another handler and does not run.
<1>16. ASSUME NEW s \in Signals, HandlerSet(s)
       PROVE  Stuck(t)'
  <2>1. stop[s] = "set" /\ mutex = s
    BY <1>3, <1>16 DEF HandlerSet, Job!StopSet
  <2>2. PICK u \in Threads : ~Free(u) /\ Head(frames[u]) = s
    BY <1>16 DEF HandlerSet, Running
  <2>3. 1 \in Places(u) /\ frames[u][1] = s
    <3>1. frames[u] \in Seq(Signals) /\ frames[u] # << >>
      BY <1>1, <2>2 DEF Free
    <3>2. QED
      BY <2>2, <3>1 DEF Places
  <2>4. PICK i \in Places(t) : frames[t][i] = s
    BY <2>1, SignalsAssumption DEF Stuck
  <2>5. u = t /\ i = 1
    BY <2>3, <2>4 DEF HangInv, FramesInv
  <2>6. QED
    BY <1>2, <2>1, <2>2, <2>5
<1>17. ASSUME NEW s \in Signals, HandlerReturn(s)
       PROVE  Stuck(t)'
  <2>1. /\ stop[s] = "notify" /\ stop' = [stop EXCEPT ![s] = "returned"]
        /\ mutex' = mutex /\ (loop # "wait" => loop' = loop) /\ worker' = worker
    BY <1>17 DEF HandlerReturn, Job!StopNotify, dbVars
  <2>2. Head(frames[t]) # s
    BY <1>2, <2>1
  <2>3. frames'[t] = frames[t]
    BY <1>17, <2>2 DEF HandlerReturn
  <2>4. stop'[Head(frames[t])] = "lock"
    BY <1>1, <1>2, <2>1, <2>2
  <2>5. QED
    BY <2>1, <2>3, <2>4 DEF Stuck, Free, Places
<1>18. QED
  BY <1>6, <1>7, <1>8, <1>9, <1>10, <1>11, <1>12, <1>13, <1>14, <1>15, <1>16, <1>17
     DEF Next, MainStep

\* No step but the end of the process resolves a deadlock.
DeadlockLasts == [][Deadlocked => Deadlocked' \/ main' = "off"]_vars

\* A deadlock of the handlers is for ever: nothing any thread, signal or
\* clock does resolves it, only the death of the process.
THEOREM DeadlockIsForEver == Spec => DeadlockLasts
<1>1. ASSUME LifeInv /\ TypeInv /\ HangInv, (LifeInv /\ TypeInv /\ HangInv)', [Next]_vars
      PROVE  [Deadlocked => Deadlocked' \/ main' = "off"]_vars
  <2>1. (TypeInv /\ HangInv => (Deadlocked <=> \E t \in Threads : Stuck(t)))'
    BY DeadlockIsStuck, PTL
  <2>2. Deadlocked' <=> \E t \in Threads : Stuck(t)'
    BY <1>1, <2>1
  <2>3. SUFFICES ASSUME Deadlocked, main' # "off" PROVE Deadlocked'
    OBVIOUS
  <2>4. PICK t \in Threads : Stuck(t)
    BY <1>1, <2>3, DeadlockIsStuck
  <2>5. Stuck(t)'
    BY <1>1, <2>3, <2>4, StuckStays
  <2>6. QED
    BY <2>2, <2>5
<1>2. QED
  BY <1>1, HangInvariance, PTL DEF Spec, DeadlockLasts

\* A worker that missed the destructor's notification waits until wait wakes
\* by chance or the process dies.
LostWakeupLasts ==
    [][WakeupLost => WakeupLost' \/ WorkerSpuriousWake \/ main' = "off"]_vars

\* Nobody else ends the worker's last sleep: there is one notification.
THEOREM LostWakeupIsForEver == Spec => LostWakeupLasts
<1>1. ASSUME LifeInv, [Next]_vars, WakeupLost, ~WorkerSpuriousWake, main' # "off"
      PROVE  WakeupLost'
  <2>1. main = "exit" /\ db = "join" /\ worker = "waiting" /\ saver # "notify"
    BY <1>1 DEF WakeupLost, LifeInv
  <2>2. ~Start /\ ~MainStep /\ ~SaveReturns /\ ~SaveEntry /\ ~WorkerStep /\ ~Die
    BY <1>1, <2>1
       DEF Start, MainStep, ConstructStore, ConstructJob, RunJob, JoinLoop, DestroyStore,
           DB!DtorClear, DB!DtorNotify, Exit, SaveReturns, DB!SaveNotify, SaveEntry,
           DB!Push, WorkerStep, DB!WorkerStep, DB!WorkerDecideWait, DB!WorkerWait,
           DB!WorkerTake, DB!WorkerStop, DB!persist_record, Die, Gone
  <2>3. UNCHANGED dbVars
    BY <1>1, <2>2
       DEF Next, LoopOwnStep, Signal, HandlerLock, HandlerSet, HandlerReturn, Tick, vars
  <2>4. QED
    BY <2>1, <2>3 DEF WakeupLost, dbVars
<1>2. LifeInv /\ [Next]_vars =>
        [WakeupLost => WakeupLost' \/ WorkerSpuriousWake \/ main' = "off"]_vars
  BY <1>1
<1>3. QED
  BY <1>2, InitLife, NextLife, PTL DEF Spec, LostWakeupLasts

-----------------------------------------------------------------------------
\* Handlers are only where the kernel may put them.
OnHandlerThreads == \A t \in Threads : ~Free(t) => t \in HandlerThreads

LEMMA InitOnThreads == Init => OnHandlerThreads
BY DEF Init, NoFrames, OnHandlerThreads, Free

LEMMA NextOnThreads ==
    ASSUME TypeInv, OnHandlerThreads, [Next]_vars
    PROVE  OnHandlerThreads'
<1> USE DEF OnHandlerThreads, Free
<1>1. ASSUME NEW t \in HandlerThreads, NEW s \in Signals, Signal(t, s)
      PROVE  OnHandlerThreads'
  <2>1. \A u \in Threads : u # t => frames'[u] = frames[u]
    BY <1>1 DEF Signal, TypeInv
  <2>2. QED
    BY <1>1, <2>1
<1>2. ASSUME NEW s \in Signals, HandlerReturn(s)
      PROVE  OnHandlerThreads'
  <2>1. \A u \in Threads : frames[u] = << >> => frames'[u] = << >>
    BY <1>2 DEF HandlerReturn
  <2>2. QED
    BY <2>1
<1>3. CASE Gone
  BY <1>3 DEF Gone, NoFrames
<1>4. CASE UNCHANGED frames
  BY <1>4
<1>5. QED
  BY <1>1, <1>2, <1>3, <1>4
     DEF Next, MainStep, Start, ConstructStore, ConstructJob, RunJob, JoinLoop,
         DestroyStore, Exit, LoopOwnStep, SaveEntry, SaveReturns, WorkerStep,
         WorkerSpuriousWake, HandlerLock, HandlerSet, Die, Tick, vars

\* What would prevent the deadlocks: the sampling and persisting threads
\* block the signals, and a handler is not interrupted by another (sa_mask).
\* Either alone does not: a handler on the loop's thread waits for the loop,
\* and one on top of another for that one.
THEOREM MaskingPreventsDeadlock ==
    ASSUME HandlerThreads \subseteq {"main"}, \A r, s \in Signals : r = s
    PROVE  Spec => []~Deadlocked
<1>1. ASSUME TypeInv, HangInv, OnHandlerThreads
      PROVE  ~Deadlocked
  <2>1. SUFFICES ASSUME NEW t \in Threads, Stuck(t) PROVE FALSE
    BY <1>1, DeadlockIsStuck
  <2>2. t = "main"
    BY <1>1, <2>1 DEF OnHandlerThreads, Stuck
  <2>3. mutex \in Signals
    BY <2>1, <2>2 DEF Stuck
  <2>4. Head(frames[t]) \in Signals
    BY <1>1, <2>1, HeadTailProperties DEF TypeInv, Stuck, Free
  <2>5. stop[mutex] = "set" /\ stop[mutex] = "lock"
    BY <1>1, <2>1, <2>3, <2>4 DEF HangInv, JobP!JobInv, JobP!MutexInv, Stuck
  <2>6. QED
    BY <2>5
<1>2. QED
  BY <1>1, HangInvariance, InitOnThreads, NextOnThreads, NextTypes, PTL DEF Spec

-----------------------------------------------------------------------------
(***************************************************************************)
(* One signal ends the process, or one of the two accidents happens.  That *)
(* the actions of Fairness are possible where their guards hold is a       *)
(* hypothesis, GuardsEnable.  With handlers on top of each other the       *)
(* argument would be an induction over their number.                       *)
(***************************************************************************)

GuardsEnable ==
    /\ MainGoes => ENABLED <<MainStep>>_vars
    /\ LoopGoes => ENABLED <<LoopOwnStep>>_vars
    /\ EntryGoes => ENABLED <<SaveEntry>>_vars
    /\ SaveEnds => ENABLED <<SaveReturns>>_vars
    /\ WorkerGoes => ENABLED <<WorkerStep>>_vars
    /\ \A s \in Signals :
         /\ Running(s) /\ stop[s] = "lock" /\ mutex = "free" => ENABLED <<HandlerLock(s)>>_vars
         /\ Running(s) /\ stop[s] = "set" => ENABLED <<HandlerSet(s)>>_vars
         /\ Running(s) /\ stop[s] = "notify" => ENABLED <<HandlerReturn(s)>>_vars

Inv == LifeInv /\ TypeInv /\ HangInv

Live ==
    /\ [][Next]_vars /\ []Inv /\ []GuardsEnable
    /\ WF_vars(MainStep) /\ WF_vars(LoopOwnStep) /\ SF_vars(SaveEntry)
    /\ WF_vars(SaveReturns) /\ WF_vars(WorkerStep)

Over == main = "off" \/ Deadlocked \/ WakeupLost

OneSignal == \A r, s \in Signals : r = s

\* Where the steps of the process take the loop.
LEMMA LoopMoves ==
    ASSUME Inv, [Next]_vars, main' # "off"
    PROVE  loop' \in {loop} \cup JobP!After[loop]
<1>1. CASE [JobP!Next]_(JobP!vars)
  BY <1>1, JobConstants, JobP!LoopStaysOrGoes DEF Inv, TypeInv
<1>2. CASE JobReplaced
  BY <1>2 DEF JobReplaced, ConstructStore, ConstructJob, Ends, Gone, jobVars
<1>3. QED
  BY <1>1, <1>2, JobNext

LEMMA LoopSteps ==
    ASSUME Inv, LoopOwnStep \/ SaveEntry \/ SaveReturns
    PROVE  loop' \in JobP!After[loop]
<1>1. JobP!LoopStep
  BY SameJob DEF LoopOwnStep, SaveEntry, SaveReturns
<1>2. QED
  BY <1>1, JobConstants, JobP!LoopGoes DEF Inv, TypeInv

LEMMA LoopReleases ==
    ASSUME Inv, [Next]_vars, loop \in {"test", "round"}
    PROVE  (loop' = loop /\ mutex' = mutex) \/ loop' = "round" \/ mutex' = "free"
<1>1. CASE [JobP!Next]_(JobP!vars)
  BY <1>1, JobConstants, JobP!LoopFrees DEF Inv, TypeInv, HangInv
<1>2. CASE JobReplaced
  BY <1>2 DEF JobReplaced, ConstructStore, ConstructJob, Ends, Gone, jobVars
<1>3. QED
  BY <1>1, <1>2, JobNext

\* Where the main thread goes, and the store with it.
LEMMA MainMoves ==
    ASSUME Inv, [Next]_vars, main' # "off", main \in {"run", "join", "exit"}
    PROVE  /\ main = "run" => main' \in {"run", "join"}
           /\ main = "join" => main' \in {"join", "exit"}
           /\ main = "exit" => main' = "exit"
           /\ main = "exit" /\ db = "open" => db' \in {"open", "notify"}
           /\ main = "exit" /\ db = "notify" => db' \in {"notify", "join"}
           /\ main = "exit" /\ db = "join" => db' = "join"
<1> USE DEF dbVars, jobVars
<1>1. CASE MainStep
  BY <1>1 DEF MainStep, ConstructStore, ConstructJob, RunJob, JoinLoop, DestroyStore,
              DB!DtorClear, DB!DtorNotify, Exit, Gone
<1>2. CASE Start \/ Die
  BY <1>2 DEF Start, Die, Gone
<1>3. CASE LoopOwnStep \/ SaveEntry \/ SaveReturns
  BY <1>3 DEF LoopOwnStep, SaveEntry, SaveReturns, DB!Push, DB!SaveNotify
<1>4. CASE WorkerStep \/ WorkerSpuriousWake
  BY <1>4 DEF WorkerStep, WorkerSpuriousWake, DB!WorkerStep, DB!SpuriousWake,
              DB!WorkerDecideWait, DB!WorkerWait, DB!WorkerTake, DB!WorkerStop,
              DB!persist_record
<1>5. CASE Tick \/ UNCHANGED vars
  BY <1>5 DEF Tick, vars
<1>6. ASSUME NEW t \in HandlerThreads, NEW s \in Signals, Signal(t, s)
      PROVE  UNCHANGED <<main, db>>
  BY <1>6 DEF Signal
<1>7. ASSUME NEW s \in Signals, HandlerLock(s) \/ HandlerSet(s) \/ HandlerReturn(s)
      PROVE  UNCHANGED <<main, db>>
  BY <1>7 DEF HandlerLock, HandlerSet, HandlerReturn
<1>8. QED
  BY <1>1, <1>2, <1>3, <1>4, <1>5, <1>6, <1>7 DEF Next

\* Where a handler goes, and is_running and the mutex with it.
LEMMA HandlerMoves ==
    ASSUME Inv, [Next]_vars, main' # "off", NEW c \in Signals
    PROVE  /\ stop[c] = "lock" => stop'[c] \in {"lock", "set"}
           /\ stop[c] = "set" => stop'[c] \in {"set", "notify"}
           /\ stop[c] = "notify" => stop'[c] \in {"notify", "returned"}
           /\ stop[c] = "returned" => stop'[c] = "returned"
           /\ stop[c] # "idle" /\ ~job_running => ~job_running'
<1>1. stop \in [Signals -> {"idle", "lock", "set", "notify", "returned"}]
  BY DEF Inv, TypeInv, JobP!TypeOK
<1>2. ASSUME NEW t \in HandlerThreads, NEW s \in Signals, Signal(t, s)
      PROVE  /\ stop' = [stop EXCEPT ![s] = "lock"] /\ stop[s] = "idle"
             /\ job_running' = job_running
  BY <1>2 DEF Signal, Job!StopCall
<1>3. ASSUME NEW s \in Signals, HandlerLock(s) \/ HandlerSet(s) \/ HandlerReturn(s)
      PROVE  /\ \/ stop' = [stop EXCEPT ![s] = "set"] /\ stop[s] = "lock"
                \/ stop' = [stop EXCEPT ![s] = "notify"] /\ stop[s] = "set"
                \/ stop' = [stop EXCEPT ![s] = "returned"] /\ stop[s] = "notify"
             /\ job_running' = job_running \/ ~job_running'
  BY <1>3 DEF HandlerLock, HandlerSet, HandlerReturn, Job!StopLock, Job!StopSet,
              Job!StopNotify
<1>4. CASE ConstructJob
  BY <1>4 DEF ConstructJob, Inv, LifeInv, Untouched
<1>5. CASE UNCHANGED <<stop, job_running>>
  BY <1>5
<1>6. ~Exit /\ ~Die
  BY DEF Exit, Die, Gone
<1>7. Start \/ ConstructStore \/ RunJob \/ JoinLoop \/ DestroyStore =>
        UNCHANGED <<stop, job_running>>
  BY DEF Start, ConstructStore, RunJob, JoinLoop, DestroyStore, Job!Run, jobVars
<1>8. LoopOwnStep => UNCHANGED <<stop, job_running>>
  BY DEF LoopOwnStep, Job!Begin, Job!LoopAgain, Job!Wait, Job!LoopEnd, Job!WaitReturns,
         Job!Relock, Job!Sample
<1>9. SaveEntry \/ SaveReturns \/ WorkerStep \/ WorkerSpuriousWake \/ Tick
        \/ UNCHANGED vars => UNCHANGED <<stop, job_running>>
  BY DEF SaveEntry, SaveReturns, WorkerStep, WorkerSpuriousWake, Tick, Job!Save,
         Job!SaveReturns, Job!Tick, vars, jobVars
<1>10. CASE \E t \in HandlerThreads, s \in Signals : Signal(t, s)
  BY <1>1, <1>2, <1>10
<1>11. CASE \E s \in Signals : HandlerLock(s) \/ HandlerSet(s) \/ HandlerReturn(s)
  BY <1>1, <1>3, <1>11
<1>12. QED
  BY <1>4, <1>5, <1>6, <1>7, <1>8, <1>9, <1>10, <1>11 DEF Next, MainStep

\* The only handler is on top of its thread's stack, alone.
LEMMA Alone ==
    ASSUME OneSignal, Inv, NEW c \in Signals
    PROVE  /\ stop[c] \in Calling => Running(c)
           /\ stop[c] \notin Calling => \A t \in Threads : Free(t)
           /\ \A t \in Threads : ~Free(t) => Head(frames[t]) = c
<1>1. \A t \in Threads : frames[t] \in Seq(Signals)
  BY DEF Inv, TypeInv
<1>2. ASSUME NEW t \in Threads, ~Free(t)
      PROVE  Head(frames[t]) = c /\ stop[c] \in Calling
  <2>1. frames[t] \in Seq(Signals) /\ frames[t] # << >>
    BY <1>1, <1>2 DEF Free
  <2>2. 1 \in Places(t) /\ frames[t][1] = Head(frames[t]) /\ Head(frames[t]) \in Signals
    BY <2>1, HeadTailProperties DEF Places
  <2>3. Head(frames[t]) = c
    BY <2>2 DEF OneSignal
  <2>4. QED
    BY <2>2, <2>3 DEF Inv, HangInv, FramesInv
<1>3. ASSUME stop[c] \in Calling
      PROVE  Running(c)
  <2>1. PICK t \in Threads : \E i \in Places(t) : frames[t][i] = c
    BY <1>3 DEF Inv, HangInv, FramesInv
  <2>2. frames[t] # << >>
    BY <2>1 DEF Places
  <2>3. QED
    BY <1>2, <2>2 DEF Free, Running
<1>4. QED
  BY <1>2, <1>3

\* A handler that waits for the mutex does not hold up its holder, or it is a
\* deadlock.
LEMMA LoopNotHeldUp ==
    ASSUME OneSignal, Inv, NEW c \in Signals, stop[c] = "lock", ~Deadlocked
    PROVE  /\ mutex = "free" \/ mutex = "loop"
           /\ mutex = "loop" => Free("loop")
           /\ loop = "save" /\ worker = "tested" => Free("worker")
<1>1. \A t \in Threads : ~Stuck(t)
  BY DeadlockIsStuck DEF Inv
<1>2. \A t \in Threads : ~Free(t) => stop[Head(frames[t])] = "lock"
  BY Alone
<1>3. "loop" \in Threads /\ "worker" \in Threads
  BY DEF Threads
<1>4. mutex \notin Signals
  <2>1. ASSUME mutex \in Signals PROVE FALSE
    <3>1. mutex = c
      BY <2>1 DEF OneSignal
    <3>2. stop[c] = "set"
      BY <3>1 DEF Inv, HangInv, JobP!JobInv, JobP!MutexInv
    <3>3. QED
      BY <3>2
  <2>2. QED
    BY <2>1
<1>5. loop = "save" => mutex = "loop"
  BY DEF Inv, HangInv, JobP!JobInv, JobP!MutexInv, JobP!Holding
<1>6. QED
  BY <1>1, <1>2, <1>3, <1>4, <1>5 DEF Stuck, Inv, TypeInv, JobP!TypeOK

\* A loop that is about to save finds the store open, and the main thread
\* waits for it.
LEMMA LoopAlive ==
    ASSUME Inv, loop \notin {"idle", "done"}
    PROVE  main = "join" /\ db = "open" /\ (saver = "notify" <=> loop = "saving")
           /\ saver \in {"idle", "notify"}
BY DEF Inv, LifeInv, Untouched

-----------------------------------------------------------------------------
\* The loop lets go of the mutex while a handler waits for it.
LEMMA LoopLetsGo ==
    ASSUME Apps # {}, OneSignal, NEW s \in Signals
    PROVE  Live => (stop[s] = "lock" /\ mutex = "loop" ~>
                      (stop[s] = "lock" /\ mutex = "free") \/ stop[s] = "set" \/ Over)
<1> DEFINE Asks == stop[s] = "lock"
           At(l) == stop[s] = "lock" /\ loop = l
           Released == stop[s] = "lock" /\ mutex = "free"
           Out == stop[s] = "set" \/ Over
           Open == worker # "tested"
<1> USE DEF Over
<1>1. Inv /\ Asks /\ [Next]_vars => Asks' \/ Out'
  BY HandlerMoves
<1>2. ASSUME NEW l \in {"test", "round", "sample"}, Inv, ~Over, At(l), GuardsEnable
      PROVE  ENABLED <<LoopOwnStep>>_vars
  <2>1. mutex = "loop"
    BY <1>2 DEF Inv, HangInv, JobP!JobInv, JobP!MutexInv, JobP!Holding
  <2>2. Free("loop")
    BY <1>2, <2>1, LoopNotHeldUp
  <2>3. QED
    BY <1>2, <2>2 DEF GuardsEnable, LoopGoes
<1>3. Live => (At("sample") ~> At("save") \/ At("test") \/ Out)
  <2>1. Inv /\ At("sample") /\ [Next]_vars =>
          At("sample")' \/ (At("save") \/ At("test") \/ Out)'
    BY <1>1, LoopMoves DEF JobP!After
  <2>2. Inv /\ At("sample") /\ <<LoopOwnStep>>_vars => (At("save") \/ At("test") \/ Out)'
    BY <1>1, LoopSteps DEF JobP!After, Next
  <2>3. Inv /\ At("sample") /\ ~Out /\ GuardsEnable => ENABLED <<LoopOwnStep>>_vars
    BY <1>2
  <2>4. QED
    BY <2>1, <2>2, <2>3, PTL DEF Live
<1>4. Live => (At("save") ~> At("saving") \/ Out)
  <2>1. Inv /\ At("save") /\ [Next]_vars => At("save")' \/ (At("saving") \/ Out)'
    BY <1>1, LoopMoves DEF JobP!After
  <2>2. Inv /\ At("save") /\ <<SaveEntry>>_vars => (At("saving") \/ Out)'
    BY <1>1, LoopSteps DEF JobP!After, Next
  <2>3. Inv /\ At("save") /\ ~Out /\ Open /\ GuardsEnable => ENABLED <<SaveEntry>>_vars
    <3> SUFFICES ASSUME Inv, At("save"), ~Over, Open, GuardsEnable
                 PROVE  ENABLED <<SaveEntry>>_vars
      OBVIOUS
    <3>1. mutex = "loop"
      BY DEF Inv, HangInv, JobP!JobInv, JobP!MutexInv, JobP!Holding
    <3>2. Free("loop") /\ db = "open" /\ saver = "idle"
      BY <3>1, LoopNotHeldUp, LoopAlive
    <3>3. QED
      BY <3>2 DEF GuardsEnable, EntryGoes
  \* The worker lets go of its mtx.
  <2>4. ~Open /\ <<WorkerStep>>_vars => Open'
    BY DEF WorkerStep, DB!WorkerStep, DB!WorkerDecideWait, DB!WorkerWait,
           DB!WorkerTake, DB!WorkerStop, DB!persist_record
  <2>5. Inv /\ At("save") /\ ~Out /\ ~Open /\ GuardsEnable => ENABLED <<WorkerStep>>_vars
    BY LoopNotHeldUp DEF GuardsEnable, WorkerGoes
  <2>6. QED
    BY <2>1, <2>2, <2>3, <2>4, <2>5, PTL DEF Live
<1>5. Live => (At("saving") ~> At("test") \/ Out)
  <2>1. Inv /\ At("saving") /\ [Next]_vars => At("saving")' \/ (At("test") \/ Out)'
    BY <1>1, LoopMoves DEF JobP!After
  <2>2. Inv /\ At("saving") /\ <<SaveReturns>>_vars => (At("test") \/ Out)'
    BY <1>1, LoopSteps DEF JobP!After, Next
  <2>3. Inv /\ At("saving") /\ ~Out /\ GuardsEnable => ENABLED <<SaveReturns>>_vars
    <3> SUFFICES ASSUME Inv, At("saving"), ~Over, GuardsEnable
                 PROVE  ENABLED <<SaveReturns>>_vars
      OBVIOUS
    <3>1. mutex = "loop"
      BY DEF Inv, HangInv, JobP!JobInv, JobP!MutexInv, JobP!Holding
    <3>2. Free("loop") /\ saver = "notify"
      BY <3>1, LoopNotHeldUp, LoopAlive
    <3>3. QED
      BY <3>2 DEF GuardsEnable, SaveEnds
  <2>4. QED
    BY <2>1, <2>2, <2>3, PTL DEF Live
<1>6. Live => (At("test") ~> At("round") \/ Released \/ Out)
  <2>1. Inv /\ At("test") /\ [Next]_vars => At("test")' \/ (At("round") \/ Released \/ Out)'
    BY <1>1, LoopReleases
  <2>2. Inv /\ At("test") /\ <<LoopOwnStep>>_vars => (At("round") \/ Released \/ Out)'
    BY <1>1, LoopReleases, LoopSteps DEF JobP!After, Next
  <2>3. Inv /\ At("test") /\ ~Out /\ GuardsEnable => ENABLED <<LoopOwnStep>>_vars
    BY <1>2
  <2>4. QED
    BY <2>1, <2>2, <2>3, PTL DEF Live
<1>7. Live => (At("round") ~> Released \/ Out)
  <2>1. Inv /\ At("round") /\ [Next]_vars => At("round")' \/ (Released \/ Out)'
    BY <1>1, LoopReleases
  <2>2. Inv /\ At("round") /\ <<LoopOwnStep>>_vars => (Released \/ Out)'
    BY <1>1, LoopReleases, LoopSteps DEF JobP!After, Next
  <2>3. Inv /\ At("round") /\ ~Out /\ GuardsEnable => ENABLED <<LoopOwnStep>>_vars
    BY <1>2
  <2>4. QED
    BY <2>1, <2>2, <2>3, PTL DEF Live
<1>8. Inv /\ Asks /\ mutex = "loop" =>
        At("test") \/ At("round") \/ At("sample") \/ At("save") \/ At("saving")
  BY DEF Inv, HangInv, JobP!JobInv, JobP!MutexInv, JobP!Holding
<1>9. QED
  BY <1>3, <1>4, <1>5, <1>6, <1>7, <1>8, PTL DEF Live

\* A caller of stop() that has come to its end has cleared is_running.
Quiet(s) == stop[s] = "returned" /\ ~job_running

LEMMA HandlerEnds ==
    ASSUME Apps # {}, OneSignal, NEW s \in Signals
    PROVE  Live /\ HandlerFairness(s) => (stop[s] = "lock" ~> Quiet(s) \/ Over)
<1> DEFINE Asks == stop[s] = "lock"
           Has == stop[s] = "set"
           Tells == stop[s] = "notify"
           Released == mutex = "free"
           Held == mutex = "loop"
<1> USE DEF Over, Calling
<1>1. Live /\ HandlerFairness(s) => (Asks ~> Has \/ Over)
  <2>1. Inv /\ Asks /\ [Next]_vars => Asks' \/ Has' \/ Over'
    BY HandlerMoves
  <2>2. Inv /\ <<HandlerLock(s)>>_vars => Has'
    BY DEF HandlerLock, Job!StopLock, Inv, TypeInv, JobP!TypeOK
  <2>3. Inv /\ Asks /\ Released /\ GuardsEnable => ENABLED <<HandlerLock(s)>>_vars
    BY Alone DEF GuardsEnable
  <2>4. Inv /\ Asks /\ ~Over => Held \/ Released
    BY LoopNotHeldUp
  <2>5. Live => (Asks /\ Held ~> (Asks /\ Released) \/ Has \/ Over)
    BY LoopLetsGo
  <2> HIDE DEF Over
  <2>6. QED
    BY <2>1, <2>2, <2>3, <2>4, <2>5, PTL DEF Live, HandlerFairness
<1>2. Live /\ HandlerFairness(s) => (Has ~> Tells \/ Over)
  <2>1. Inv /\ Has /\ [Next]_vars => Has' \/ Tells' \/ Over'
    BY HandlerMoves
  <2>2. Inv /\ <<HandlerSet(s)>>_vars => Tells'
    BY DEF HandlerSet, Job!StopSet, Inv, TypeInv, JobP!TypeOK
  <2>3. Inv /\ Has /\ GuardsEnable => ENABLED <<HandlerSet(s)>>_vars
    BY Alone DEF GuardsEnable
  <2> HIDE DEF Over
  <2>4. QED
    BY <2>1, <2>2, <2>3, PTL DEF Live, HandlerFairness
<1>3. Live /\ HandlerFairness(s) => (Tells ~> Quiet(s) \/ Over)
  <2>1. Inv /\ Tells => ~job_running
    BY DEF Inv, HangInv, JobP!JobInv, JobP!StopInv
  <2>2. Inv /\ Tells /\ [Next]_vars => Tells' \/ Quiet(s)' \/ Over'
    BY <2>1, HandlerMoves DEF Quiet
  <2>3. Inv /\ Tells /\ <<HandlerReturn(s)>>_vars => Quiet(s)'
    BY <2>1 DEF HandlerReturn, Job!StopNotify, Inv, TypeInv, JobP!TypeOK, Quiet
  <2>4. Inv /\ Tells /\ GuardsEnable => ENABLED <<HandlerReturn(s)>>_vars
    BY Alone DEF GuardsEnable
  <2> HIDE DEF Over
  <2>5. QED
    BY <2>2, <2>3, <2>4, PTL DEF Live, HandlerFairness
<1> HIDE DEF Over
<1>4. QED
  BY <1>1, <1>2, <1>3, PTL

LEMMA QuietStays ==
    ASSUME Inv, [Next]_vars, NEW s \in Signals, Quiet(s)
    PROVE  Quiet(s)' \/ Over'
BY HandlerMoves DEF Quiet, Over

\* Nobody holds up a thread, and the loop does not sleep.
LEMMA QuietFree ==
    ASSUME OneSignal, Inv, NEW s \in Signals, Quiet(s)
    PROVE  /\ Free("main") /\ Free("loop") /\ Free("worker")
           /\ loop \notin {"wait", "round"}
           /\ loop \in {"begin", "woken"} => mutex = "free"
           /\ main \in {"run", "join", "exit"}
<1>1. /\ \A t \in Threads : Free(t)
      /\ \A r \in Signals : stop[r] = "returned"
  BY Alone DEF Quiet, Calling, OneSignal
<1>2. \A r \in Signals : stop[r] # "notify" /\ stop[r] # "set"
  BY <1>1
<1>3. {"main", "loop", "worker"} = Threads
  BY DEF Threads
<1>4. mutex \notin Signals /\ loop \notin {"wait", "round"}
  BY <1>2 DEF Inv, HangInv, JobP!JobInv, JobP!MutexInv, JobP!StopInv, Quiet
<1>5. loop \in {"begin", "woken"} => mutex = "free"
  BY <1>4 DEF Inv, HangInv, TypeInv, JobP!TypeOK, JobP!JobInv, JobP!MutexInv, JobP!Holding
<1>6. main \in {"run", "join", "exit"}
  BY DEF Quiet, Inv, LifeInv, Untouched
<1>7. QED
  BY <1>1, <1>3, <1>4, <1>5, <1>6

\* The loop comes to its end and is joined.
LEMMA LoopIsJoined ==
    ASSUME Apps # {}, OneSignal, NEW s \in Signals
    PROVE  Live => (Quiet(s) ~> (Quiet(s) /\ main = "exit") \/ Over)
<1> DEFINE Early == Quiet(s) /\ main = "run"
           Joining == Quiet(s) /\ main = "join"
           Exiting == Quiet(s) /\ main = "exit"
           At(l) == Quiet(s) /\ main = "join" /\ loop = l
           Out == Exiting \/ Over
<1>1. Live => (Early ~> Joining \/ Over)
  <2>1. Inv /\ Early /\ [Next]_vars => Early' \/ Joining' \/ Over'
    BY QuietStays, MainMoves DEF Over
  <2>2. Inv /\ Early /\ <<MainStep>>_vars => Joining' \/ Over'
    <3> SUFFICES ASSUME Inv, Early, MainStep PROVE Joining' \/ Over'
      OBVIOUS
    <3>1. main' = "join"
      BY DEF MainStep, ConstructStore, ConstructJob, RunJob, JoinLoop, DestroyStore, Exit
    <3>2. QED
      BY <3>1, QuietStays DEF Next
  <2>3. Inv /\ Early /\ GuardsEnable => ENABLED <<MainStep>>_vars
    BY QuietFree DEF GuardsEnable, MainGoes, Inv, LifeInv
  <2>4. QED
    BY <2>1, <2>2, <2>3, PTL DEF Live
<1>2. Inv /\ Quiet(s) => loop \notin {"wait", "round"}
  BY QuietFree
<1>3. (Inv /\ Quiet(s) => loop \notin {"wait", "round"})'
  BY <1>2, PTL
\* How the loop moves on while it is waited for.
<1>4. ASSUME NEW l, Inv, Inv', At(l), [Next]_vars
      PROVE  At(l)' \/ Out' \/ \E k \in JobP!After[l] \ {"round", "wait"} : At(k)'
  <2>1. CASE main' = "off"
    BY <2>1 DEF Over
  <2>2. CASE main' # "off"
    <3>1. Quiet(s)' \/ Over'
      BY <1>4, QuietStays
    <3>2. main' \in {"join", "exit"}
      BY <1>4, <2>2, MainMoves
    <3>3. loop' \in {l} \cup JobP!After[l]
      BY <1>4, <2>2, LoopMoves
    <3>4. QED
      BY <1>3, <1>4, <3>1, <3>2, <3>3
  <2>3. QED
    BY <2>1, <2>2
<1>5. ASSUME NEW l, Inv, Inv', At(l), LoopOwnStep \/ SaveEntry \/ SaveReturns
      PROVE  Out' \/ \E k \in JobP!After[l] \ {"round", "wait"} : At(k)'
  <2>1. [Next]_vars
    BY <1>5 DEF Next
  <2>2. loop' # loop
    BY <1>5
       DEF LoopOwnStep, SaveEntry, SaveReturns, Job!Begin, Job!LoopAgain, Job!Wait,
           Job!LoopEnd, Job!WaitReturns, Job!Relock, Job!Sample, Job!Save, Job!SaveReturns
  <2>3. QED
    BY <1>4, <1>5, <2>1, <2>2
<1>6. Live => (At("begin") ~> At("test") \/ Out)
  <2>1. Inv /\ Inv' /\ At("begin") /\ [Next]_vars => At("begin")' \/ (At("test") \/ Out)'
    BY <1>4 DEF JobP!After
  <2>2. Inv /\ Inv' /\ At("begin") /\ <<LoopOwnStep>>_vars => (At("test") \/ Out)'
    BY <1>5 DEF JobP!After
  <2>3. Inv /\ At("begin") /\ GuardsEnable => ENABLED <<LoopOwnStep>>_vars
    BY QuietFree DEF GuardsEnable, LoopGoes
  <2>4. QED
    BY <2>1, <2>2, <2>3, PTL DEF Live
<1>7. Live => (At("woken") ~> At("sample") \/ Out)
  <2>1. Inv /\ Inv' /\ At("woken") /\ [Next]_vars => At("woken")' \/ (At("sample") \/ Out)'
    BY <1>4 DEF JobP!After
  <2>2. Inv /\ Inv' /\ At("woken") /\ <<LoopOwnStep>>_vars => (At("sample") \/ Out)'
    BY <1>5 DEF JobP!After
  <2>3. Inv /\ At("woken") /\ GuardsEnable => ENABLED <<LoopOwnStep>>_vars
    BY QuietFree DEF GuardsEnable, LoopGoes
  <2>4. QED
    BY <2>1, <2>2, <2>3, PTL DEF Live
<1>8. Live => (At("sample") ~> At("save") \/ At("test") \/ Out)
  <2>1. Inv /\ Inv' /\ At("sample") /\ [Next]_vars =>
          At("sample")' \/ (At("save") \/ At("test") \/ Out)'
    BY <1>4 DEF JobP!After
  <2>2. Inv /\ Inv' /\ At("sample") /\ <<LoopOwnStep>>_vars =>
          (At("save") \/ At("test") \/ Out)'
    BY <1>5 DEF JobP!After
  <2>3. Inv /\ At("sample") /\ GuardsEnable => ENABLED <<LoopOwnStep>>_vars
    BY QuietFree DEF GuardsEnable, LoopGoes
  <2>4. QED
    BY <2>1, <2>2, <2>3, PTL DEF Live
<1>9. Live => (At("save") ~> At("saving") \/ Out)
  <2> DEFINE Unlocked == worker # "tested"
  <2>1. Inv /\ Inv' /\ At("save") /\ [Next]_vars => At("save")' \/ (At("saving") \/ Out)'
    BY <1>4 DEF JobP!After
  <2>2. Inv /\ Inv' /\ At("save") /\ <<SaveEntry>>_vars => (At("saving") \/ Out)'
    BY <1>5 DEF JobP!After
  <2>3. Inv /\ At("save") /\ Unlocked /\ GuardsEnable => ENABLED <<SaveEntry>>_vars
    BY QuietFree, LoopAlive DEF GuardsEnable, EntryGoes
  <2>4. ~Unlocked /\ <<WorkerStep>>_vars => Unlocked'
    BY DEF WorkerStep, DB!WorkerStep, DB!WorkerDecideWait, DB!WorkerWait,
           DB!WorkerTake, DB!WorkerStop, DB!persist_record
  <2>5. Inv /\ At("save") /\ ~Unlocked /\ GuardsEnable => ENABLED <<WorkerStep>>_vars
    BY QuietFree DEF GuardsEnable, WorkerGoes
  <2>6. QED
    BY <2>1, <2>2, <2>3, <2>4, <2>5, PTL DEF Live
<1>10. Live => (At("saving") ~> At("test") \/ Out)
  <2>1. Inv /\ Inv' /\ At("saving") /\ [Next]_vars => At("saving")' \/ (At("test") \/ Out)'
    BY <1>4 DEF JobP!After
  <2>2. Inv /\ Inv' /\ At("saving") /\ <<SaveReturns>>_vars => (At("test") \/ Out)'
    BY <1>5 DEF JobP!After
  <2>3. Inv /\ At("saving") /\ GuardsEnable => ENABLED <<SaveReturns>>_vars
    BY QuietFree, LoopAlive DEF GuardsEnable, SaveEnds
  <2>4. QED
    BY <2>1, <2>2, <2>3, PTL DEF Live
<1>11. Live => (At("test") ~> At("done") \/ Out)
  <2>1. Inv /\ Inv' /\ At("test") /\ [Next]_vars => At("test")' \/ (At("done") \/ Out)'
    BY <1>4 DEF JobP!After
  <2>2. Inv /\ Inv' /\ At("test") /\ <<LoopOwnStep>>_vars => (At("done") \/ Out)'
    BY <1>5 DEF JobP!After
  <2>3. Inv /\ At("test") /\ GuardsEnable => ENABLED <<LoopOwnStep>>_vars
    BY QuietFree DEF GuardsEnable, LoopGoes
  <2>4. QED
    BY <2>1, <2>2, <2>3, PTL DEF Live
<1>12. Live => (At("done") ~> Out)
  <2>1. Inv /\ Inv' /\ At("done") /\ [Next]_vars => At("done")' \/ Out'
    BY <1>4 DEF JobP!After
  <2>2. Inv /\ At("done") /\ <<MainStep>>_vars => Out'
    <3> SUFFICES ASSUME Inv, At("done"), MainStep PROVE Out'
      OBVIOUS
    <3>1. main' = "exit"
      BY DEF MainStep, ConstructStore, ConstructJob, RunJob, JoinLoop, DestroyStore, Exit
    <3>2. QED
      BY <3>1, QuietStays DEF Next
  <2>3. Inv /\ At("done") /\ GuardsEnable => ENABLED <<MainStep>>_vars
    BY QuietFree DEF GuardsEnable, MainGoes
  <2>4. QED
    BY <2>1, <2>2, <2>3, PTL DEF Live
<1>13. Inv /\ Quiet(s) => Early \/ Joining \/ Exiting
  BY QuietFree
<1>14. Inv /\ Joining =>
         \/ At("begin") \/ At("test") \/ At("woken") \/ At("sample") \/ At("save")
         \/ At("saving") \/ At("done")
  BY QuietFree DEF Inv, TypeInv, JobP!TypeOK, HangInv, WaitInv
<1>15. QED
  BY <1>1, <1>6, <1>7, <1>8, <1>9, <1>10, <1>11, <1>12, <1>13, <1>14, PTL DEF Live

\* Where the worker goes after the destructor's notification.
LEMMA WorkerMoves ==
    ASSUME Inv, [Next]_vars, main' # "off", main = "exit", db = "join"
    PROVE  /\ worker = "persist" => worker' \in {"persist", "loop"}
           /\ worker = "tested" => worker' \in {"tested", "waiting"}
           /\ worker = "loop" => worker' \in {"loop", "done"}
           /\ worker = "done" => worker' = "done"
<1>1. ~db_running /\ saver # "notify"
  BY DEF Inv, LifeInv, HangInv, WaitInv
<1>2. CASE MainStep
  BY <1>2 DEF MainStep, ConstructStore, ConstructJob, RunJob, JoinLoop, DestroyStore,
              DB!DtorClear, DB!DtorNotify, Exit, Gone
<1>3. CASE SaveEntry \/ SaveReturns
  BY <1>1, <1>3 DEF SaveEntry, SaveReturns, DB!Push, DB!SaveNotify
<1>4. CASE WorkerStep \/ WorkerSpuriousWake
  BY <1>1, <1>4
     DEF WorkerStep, WorkerSpuriousWake, DB!WorkerStep, DB!SpuriousWake,
         DB!WorkerDecideWait, DB!WorkerWait, DB!WorkerTake, DB!WorkerStop,
         DB!persist_record
<1>5. CASE Start \/ Die
  BY <1>5 DEF Start, Die, Gone
<1>6. CASE UNCHANGED dbVars
  BY <1>6 DEF dbVars
<1>7. QED
  BY <1>2, <1>3, <1>4, <1>5, <1>6
     DEF Next, LoopOwnStep, Signal, HandlerLock, HandlerSet, HandlerReturn, Tick, vars

\* The store is destroyed, unless the worker misses the notification.
LEMMA StoreIsDestroyed ==
    ASSUME OneSignal, NEW s \in Signals
    PROVE  Live => (Quiet(s) /\ main = "exit" ~> Over)
<1> DEFINE At(d) == Quiet(s) /\ main = "exit" /\ db = d
           Worker(w) == Quiet(s) /\ main = "exit" /\ db = "join" /\ worker = w
<1>1. ASSUME NEW d, Inv, At(d), [Next]_vars
      PROVE  Over' \/ (Quiet(s)' /\ main' = "exit")
  BY <1>1, QuietStays, MainMoves DEF Over
<1>2. ASSUME Inv, Quiet(s), main = "exit", db \in {"open", "notify"}, MainStep
      PROVE  /\ db = "open" => db' = "notify"
             /\ db = "notify" => db' = "join"
  BY <1>2 DEF MainStep, ConstructStore, ConstructJob, RunJob, JoinLoop, DestroyStore,
              DB!DtorClear, DB!DtorNotify, Exit, DB!DtorJoin
<1>3. Live => (At("open") ~> At("notify") \/ Over)
  <2>1. Inv /\ At("open") /\ [Next]_vars => At("open")' \/ (At("notify") \/ Over)'
    BY <1>1, MainMoves DEF Over
  <2>2. Inv /\ At("open") /\ <<MainStep>>_vars => (At("notify") \/ Over)'
    BY <1>1, <1>2 DEF Next
  <2>3. Inv /\ At("open") /\ GuardsEnable => ENABLED <<MainStep>>_vars
    BY QuietFree DEF GuardsEnable, MainGoes, Inv, LifeInv
  <2>4. QED
    BY <2>1, <2>2, <2>3, PTL DEF Live
<1>4. Live => (At("notify") ~> At("join") \/ Over)
  <2>1. Inv /\ At("notify") /\ [Next]_vars => At("notify")' \/ (At("join") \/ Over)'
    BY <1>1, MainMoves DEF Over
  <2>2. Inv /\ At("notify") /\ <<MainStep>>_vars => (At("join") \/ Over)'
    BY <1>1, <1>2 DEF Next
  <2>3. Inv /\ At("notify") /\ GuardsEnable => ENABLED <<MainStep>>_vars
    BY QuietFree DEF GuardsEnable, MainGoes
  <2>4. QED
    BY <2>1, <2>2, <2>3, PTL DEF Live
<1>5. ASSUME NEW w \in {"persist", "tested", "loop"}, Inv, Worker(w), GuardsEnable
      PROVE  ENABLED <<WorkerStep>>_vars
  BY <1>5, QuietFree DEF GuardsEnable, WorkerGoes
<1>6. ASSUME Inv, NEW w, Worker(w), [Next]_vars
      PROVE  Over' \/ (At("join")' /\ main' # "off")
  BY <1>6, <1>1, MainMoves DEF Over
<1>7. ASSUME WorkerStep PROVE worker' # worker
  BY <1>7 DEF WorkerStep, DB!WorkerStep, DB!WorkerDecideWait, DB!WorkerWait,
              DB!WorkerTake, DB!WorkerStop, DB!persist_record
<1>8. Live => (Worker("persist") ~> Worker("loop") \/ Over)
  <2>1. Inv /\ Worker("persist") /\ [Next]_vars =>
          Worker("persist")' \/ (Worker("loop") \/ Over)'
    BY <1>6, WorkerMoves
  <2>2. Inv /\ Worker("persist") /\ <<WorkerStep>>_vars => (Worker("loop") \/ Over)'
    BY <1>6, <1>7, WorkerMoves DEF Next
  <2>3. Inv /\ Worker("persist") /\ GuardsEnable => ENABLED <<WorkerStep>>_vars
    BY <1>5
  <2>4. QED
    BY <2>1, <2>2, <2>3, PTL DEF Live
<1>9. Live => (Worker("tested") ~> Over)
  <2>1. Inv /\ Worker("tested") /\ [Next]_vars => Worker("tested")' \/ Over'
    BY <1>6, WorkerMoves DEF Over, WakeupLost
  <2>2. Inv /\ Worker("tested") /\ <<WorkerStep>>_vars => Over'
    BY <1>6, <1>7, WorkerMoves DEF Next, Over, WakeupLost
  <2>3. Inv /\ Worker("tested") /\ GuardsEnable => ENABLED <<WorkerStep>>_vars
    BY <1>5
  <2>4. QED
    BY <2>1, <2>2, <2>3, PTL DEF Live
<1>10. Live => (Worker("loop") ~> Worker("done") \/ Over)
  <2>1. Inv /\ Worker("loop") /\ [Next]_vars => Worker("loop")' \/ (Worker("done") \/ Over)'
    BY <1>6, WorkerMoves
  <2>2. Inv /\ Worker("loop") /\ <<WorkerStep>>_vars => (Worker("done") \/ Over)'
    BY <1>6, <1>7, WorkerMoves DEF Next
  <2>3. Inv /\ Worker("loop") /\ GuardsEnable => ENABLED <<WorkerStep>>_vars
    BY <1>5
  <2>4. QED
    BY <2>1, <2>2, <2>3, PTL DEF Live
<1>11. Live => (Worker("done") ~> Over)
  <2>1. Inv /\ Worker("done") /\ [Next]_vars => Worker("done")' \/ Over'
    BY <1>6, WorkerMoves
  <2>2. Inv /\ Worker("done") /\ <<MainStep>>_vars => Over'
    BY DEF MainStep, ConstructStore, ConstructJob, RunJob, JoinLoop, DestroyStore,
           DB!DtorClear, DB!DtorNotify, Exit, Gone, Over
  <2>3. Inv /\ Worker("done") /\ GuardsEnable => ENABLED <<MainStep>>_vars
    BY QuietFree DEF GuardsEnable, MainGoes
  <2>4. QED
    BY <2>1, <2>2, <2>3, PTL DEF Live
<1>12. Inv /\ Quiet(s) /\ main = "exit" => At("open") \/ At("notify") \/ At("join")
  BY DEF Inv, LifeInv
<1>13. Inv /\ At("join") =>
         \/ Worker("persist") \/ Worker("tested") \/ Worker("loop") \/ Worker("done") \/ Over
  BY DEF Inv, TypeInv, DBP!TypeInv, DBP!TypeOK, HangInv, WaitInv, Over, WakeupLost
<1>14. QED
  BY <1>3, <1>4, <1>8, <1>9, <1>10, <1>11, <1>12, <1>13, PTL DEF Live

\* One signal, to any thread at any moment, ends the process, or it meets one
\* of the two accidents: stop() is seen by the loop, run() joins it, and the
\* destructor stops the worker (trackerjob.cc:86-104, sqlitedataaccess.cc:141-149).
THEOREM SignalEnds ==
    ASSUME Apps # {}, OneSignal
    PROVE  FairSpec /\ []GuardsEnable => StopEndsOrIsStuck
<1> DEFINE Asks(s) == stop[s] = "lock"
<1>1. FairSpec /\ []GuardsEnable => Live /\ (\A s \in Signals : HandlerFairness(s))
  BY HangInvariance, PTL DEF FairSpec, Spec, Fairness, Live, Inv
<1>2. ASSUME NEW s \in Signals
      PROVE  Live /\ HandlerFairness(s) => [](Asks(s) => <>Over)
  <2>1. Live /\ HandlerFairness(s) => (Asks(s) ~> Quiet(s) \/ Over)
    BY HandlerEnds
  <2>2. Live => (Quiet(s) ~> (Quiet(s) /\ main = "exit") \/ Over)
    BY LoopIsJoined
  <2>3. Live => (Quiet(s) /\ main = "exit" ~> Over)
    BY StoreIsDestroyed
  <2>4. QED
    BY <2>1, <2>2, <2>3, PTL
<1>3. Live /\ (\A s \in Signals : HandlerFairness(s)) =>
        \A s \in Signals : [](Asks(s) => <>Over)
  BY <1>2
<1>4. (\A s \in Signals : [](Asks(s) => <>Over)) => [](\A s \in Signals : Asks(s) => <>Over)
  OBVIOUS
<1>5. (\A s \in Signals : Asks(s) => <>Over) => ((\E s \in Signals : Asks(s)) => <>Over)
  OBVIOUS
<1>6. QED
  BY <1>1, <1>3, <1>4, <1>5, PTL DEF StopEndsOrIsStuck, Over

\* With the signals kept from the sampling and persisting threads too, only
\* the lost notification keeps the process from its end.
THEOREM MaskedSignalEnds ==
    ASSUME Apps # {}, OneSignal, HandlerThreads \subseteq {"main"}
    PROVE  FairSpec /\ []GuardsEnable =>
             ((\E s \in Signals : stop[s] = "lock") ~> main = "off" \/ WakeupLost)
<1>1. FairSpec /\ []GuardsEnable => StopEndsOrIsStuck
  BY SignalEnds
<1>2. Spec => []~Deadlocked
  BY MaskingPreventsDeadlock DEF OneSignal
<1>3. QED
  BY <1>1, <1>2, PTL DEF FairSpec, StopEndsOrIsStuck
=============================================================================
