-------------------------- MODULE TrackerJobProofs --------------------------
(***************************************************************************)
(* For any number of callers of stop(), any period and any clock: the      *)
(* variables of TrackerJob have their types, a stop() is noticed without   *)
(* waiting for the period, and, when wait_for does not return early, the   *)
(* samples are what the data access relies on.                             *)
(***************************************************************************)
EXTENDS TrackerJob, TLAPS

USE CallersAssumption, TimeAssumption, FaultsAssumption

\* Where the sampling thread holds the mutex.
Holding == {"test", "round", "sample", "save", "saving"}

\* The mutex tells who is in its critical section.
MutexInv ==
    /\ loop \in Holding <=> mutex = "loop"
    /\ \A c \in Callers : stop[c] = "set" <=> mutex = c

\* The loop decides for a round, and sleeps, only while nobody stopped it or
\* somebody is about to wake it.
StopInv ==
    /\ loop = "round" => is_running
    /\ loop = "wait" /\ ~is_running => \E c \in Callers : stop[c] = "notify"
    /\ (\E c \in Callers : stop[c] = "notify") => ~is_running

JobInv == MutexInv /\ StopInv

-----------------------------------------------------------------------------
LEMMA InitType == Init => TypeOK
BY DEF Init, TypeOK, NoEntry, Instant

LEMMA NextType == TypeOK /\ [Next]_vars => TypeOK'
<1> SUFFICES ASSUME TypeOK, [Next]_vars
             PROVE  TypeOK'
  OBVIOUS
<1> USE DEF TypeOK, Instant, loopVars
<1>1. ASSUME Run \/ Begin \/ LoopAgain \/ Wait \/ LoopEnd \/ WaitReturns \/ Relock
      PROVE  TypeOK'
  BY <1>1 DEF Run, Begin, LoopAgain, Wait, LoopEnd, WaitReturns, Relock, NoEntry
<1>2. CASE Sample
  <2>1. PICK a \in Apps : entry' = [entry EXCEPT !.end = now, !.app = a]
    BY <1>2 DEF Sample
  <2>2. now \in Instant
    OBVIOUS
  <2>3. entry' = [start |-> entry.start, end |-> now, app |-> a]
    BY <2>1
  <2>4. entry' \in [start : Instant, end : Instant, app : Apps \cup {NoApp}]
    BY <2>2, <2>3
  <2>5. entry'.app \in Apps
    BY <2>3
  <2>6. QED
    BY <1>2, <2>4, <2>5 DEF Sample
<1>3. CASE Save \/ SaveReturns
  BY <1>3 DEF Save, SaveReturns
<1>4. ASSUME NEW c \in Callers, StopCall(c) \/ StopStep(c)
      PROVE  TypeOK'
  <2>1. CASE StopCall(c)
    BY <2>1 DEF StopCall
  <2>2. CASE StopLock(c)
    BY <2>2 DEF StopLock
  <2>3. CASE StopSet(c)
    BY <2>3 DEF StopSet
  <2>4. CASE StopNotify(c)
    BY <2>4 DEF StopNotify
  <2>5. QED
    BY <1>4, <2>1, <2>2, <2>3, <2>4 DEF StopStep
<1>5. CASE Tick
  BY <1>5 DEF Tick
<1>6. CASE UNCHANGED vars
  BY <1>6 DEF vars
<1>7. QED
  BY <1>1, <1>2, <1>3, <1>4, <1>5, <1>6 DEF Next, LoopStep

\* The variables of the job have their types.
THEOREM TypeCorrect == Spec => []TypeOK
BY InitType, NextType, PTL DEF Spec

-----------------------------------------------------------------------------
LEMMA InitJobInv == Init => JobInv
BY DEF Init, JobInv, MutexInv, StopInv, Holding

LEMMA NextJobInv == TypeOK /\ JobInv /\ [Next]_vars => JobInv'
<1> SUFFICES ASSUME TypeOK, JobInv, [Next]_vars
             PROVE  JobInv'
  OBVIOUS
<1> USE DEF JobInv, MutexInv, StopInv, Holding, loopVars
<1>1. ASSUME Run \/ Begin \/ LoopAgain \/ Wait \/ LoopEnd \/ WaitReturns \/ Relock
      PROVE  JobInv'
  BY <1>1 DEF Run, Begin, LoopAgain, Wait, LoopEnd, WaitReturns, Relock
<1>2. CASE Sample \/ Save \/ SaveReturns
  <2>1. loop \in Holding /\ loop' \in Holding \ {"round"}
    BY <1>2 DEF Sample, Save, SaveReturns
  <2>2. UNCHANGED <<mutex, is_running, stop>>
    BY <1>2 DEF Sample, Save, SaveReturns
  <2>3. QED
    BY <2>1, <2>2
<1>3. ASSUME NEW c \in Callers, StopCall(c) \/ StopStep(c)
      PROVE  JobInv'
  <2>1. CASE StopCall(c)
    BY <2>1 DEF StopCall, TypeOK
  <2>2. CASE StopLock(c)
    BY <2>2 DEF StopLock, TypeOK
  <2>3. CASE StopSet(c)
    BY <2>3 DEF StopSet, TypeOK
  <2>4. CASE StopNotify(c)
    BY <2>4 DEF StopNotify, TypeOK
  <2>5. QED
    BY <1>3, <2>1, <2>2, <2>3, <2>4 DEF StopStep
<1>4. CASE Tick \/ UNCHANGED vars
  BY <1>4 DEF Tick, vars
<1>5. QED
  BY <1>1, <1>2, <1>3, <1>4 DEF Next, LoopStep

\* No stop() is missed: once every caller that cleared is_running has
\* notified, the loop is not asleep, however many callers there are.
THEOREM StopNoticed == Spec => []StopIsPrompt
<1>1. JobInv => StopIsPrompt
  BY DEF JobInv, StopInv, StopIsPrompt
<1>2. QED
  BY <1>1, InitType, NextType, InitJobInv, NextJobInv, PTL DEF Spec

-----------------------------------------------------------------------------
(***************************************************************************)
(* The samples, with a period of at least a second that is slept to its    *)
(* end or to a stop().                                                     *)
(***************************************************************************)

Wakes == {"woken", "sample"}

\* What has been filled in of the local entry.
SampledInv ==
    /\ loop \notin {"idle", "begin"} => entry.end > 0
    /\ loop \in {"round", "wait", "save", "saving"} \cup Wakes => entry.start > 0
    /\ loop \in {"save", "saving"} => entry.app \in Apps

\* Its times at each place of the loop.
EntryInv ==
    /\ entry.start <= entry.end /\ entry.end <= now
    /\ loop \in {"round", "wait"} \cup Wakes => entry.start = entry.end
    /\ loop = "wait" => entry.end + waited <= now
    /\ loop # "wait" => waited = 0
    /\ loop \in Wakes /\ is_running => entry.end < now
    /\ loop \in {"save", "saving"} =>
         /\ ~TooLong(entry)
         /\ is_running => entry.start < entry.end

\* What the newest sample is to it.  One with no application is what a data
\* access newly opened begins from.
GivenInv ==
    /\ given.start <= given.end /\ given.end <= now
    /\ loop \notin {"idle", "begin"} => given.end <= entry.end
    /\ loop \in {"round", "wait", "save"} \cup Wakes => given.end <= entry.start
    /\ given.app # NoApp =>
         \/ given.start < given.end
         \/ ~is_running /\ loop \in {"saving", "test", "done"}

\* The job alone begins from no sample at all.
FirstGiven == given.app = NoApp => given = NoEntry

LEMMA InitSampleInv == Init => SampledInv /\ EntryInv /\ GivenInv /\ FirstGiven
BY DEF Init, SampledInv, EntryInv, GivenInv, FirstGiven, NoEntry, Wakes

LEMMA NaturalTimes ==
    ASSUME TypeOK
    PROVE  /\ now \in Nat \ {0} /\ waited \in Nat
           /\ entry \in [start : Nat, end : Nat, app : Apps \cup {NoApp}]
           /\ given \in [start : Nat, end : Nat, app : Apps \cup {NoApp}]
BY DEF TypeOK, Instant

LEMMA NextSampledInv == TypeOK /\ SampledInv /\ [Next]_vars => SampledInv'
<1> SUFFICES ASSUME TypeOK, SampledInv, [Next]_vars
             PROVE  SampledInv'
  OBVIOUS
<1> USE DEF SampledInv, Wakes, loopVars
<1>1. CASE Run \/ LoopEnd \/ Relock \/ Wait \/ WaitReturns \/ Save \/ SaveReturns
  BY <1>1 DEF Run, LoopEnd, Relock, Wait, WaitReturns, Save, SaveReturns
<1>2. CASE Begin \/ LoopAgain
  BY <1>2, NaturalTimes DEF Begin, LoopAgain, NoEntry
<1>3. CASE Sample
  BY <1>3, NaturalTimes DEF Sample
<1>4. ASSUME NEW c \in Callers, StopCall(c) \/ StopStep(c)
      PROVE  SampledInv'
  BY <1>4 DEF StopCall, StopStep, StopLock, StopSet, StopNotify
<1>5. CASE Tick \/ UNCHANGED vars
  BY <1>5 DEF Tick, vars
<1>6. QED
  BY <1>1, <1>2, <1>3, <1>4, <1>5 DEF Next, LoopStep

LEMMA NextEntryInv ==
    ASSUME ~Spurious, Period > 0
    PROVE  TypeOK /\ JobInv /\ EntryInv /\ [Next]_vars => EntryInv'
<1> SUFFICES ASSUME ~Spurious, Period > 0, TypeOK, JobInv, EntryInv, [Next]_vars
             PROVE  EntryInv'
  OBVIOUS
<1> USE DEF EntryInv, Wakes, loopVars
<1>1. CASE Run \/ LoopEnd \/ Relock
  BY <1>1 DEF Run, LoopEnd, Relock, TooLong
<1>2. CASE Begin
  BY <1>2, NaturalTimes DEF Begin, NoEntry, TooLong
<1>3. CASE LoopAgain \/ Wait
  BY <1>3, NaturalTimes DEF LoopAgain, Wait, TooLong
<1>4. CASE WaitReturns
  BY <1>4, NaturalTimes DEF WaitReturns, TooLong
<1>5. CASE Sample
  BY <1>5, NaturalTimes DEF Sample
<1>6. CASE Save \/ SaveReturns
  BY <1>6, NaturalTimes DEF Save, SaveReturns, TooLong
<1>7. ASSUME NEW c \in Callers, StopCall(c) \/ StopStep(c)
      PROVE  EntryInv'
  <2>1. CASE StopCall(c) \/ StopLock(c)
    BY <2>1 DEF StopCall, StopLock, TooLong
  <2>2. CASE StopSet(c)
    BY <2>2 DEF StopSet, TooLong
  <2>3. CASE StopNotify(c)
    BY <2>3, NaturalTimes DEF StopNotify, TooLong, JobInv, StopInv
  <2>4. QED
    BY <1>7, <2>1, <2>2, <2>3 DEF StopStep
<1>8. CASE Tick
  BY <1>8, NaturalTimes DEF Tick, TooLong
<1>9. CASE UNCHANGED vars
  BY <1>9 DEF vars, TooLong
<1>10. QED
  BY <1>1, <1>2, <1>3, <1>4, <1>5, <1>6, <1>7, <1>8, <1>9 DEF Next, LoopStep

LEMMA NextGivenInv == TypeOK /\ EntryInv /\ GivenInv /\ [Next]_vars => GivenInv'
<1> SUFFICES ASSUME TypeOK, EntryInv, GivenInv, [Next]_vars
             PROVE  GivenInv'
  OBVIOUS
<1> USE DEF EntryInv, GivenInv, Wakes, loopVars
<1>1. CASE Run \/ LoopEnd \/ Relock
  BY <1>1 DEF Run, LoopEnd, Relock
<1>2. CASE Begin
  BY <1>2, NaturalTimes DEF Begin, NoEntry
<1>3. CASE LoopAgain \/ Wait \/ WaitReturns
  BY <1>3, NaturalTimes DEF LoopAgain, Wait, WaitReturns
<1>4. CASE Sample
  BY <1>4, NaturalTimes DEF Sample
<1>5. CASE Save \/ SaveReturns
  BY <1>5, NaturalTimes DEF Save, SaveReturns
<1>6. ASSUME NEW c \in Callers, StopCall(c) \/ StopStep(c)
      PROVE  GivenInv'
  BY <1>6, NaturalTimes DEF StopCall, StopStep, StopLock, StopSet, StopNotify
<1>7. CASE Tick \/ UNCHANGED vars
  BY <1>7, NaturalTimes DEF Tick, vars
<1>8. QED
  BY <1>1, <1>2, <1>3, <1>4, <1>5, <1>6, <1>7 DEF Next, LoopStep

LEMMA NextFirstGiven ==
    ASSUME SampledInv, FirstGiven, [Next]_vars
    PROVE  FirstGiven'
<1>1. CASE Save
  BY <1>1, AppsAssumption DEF Save, FirstGiven, SampledInv
<1>2. CASE UNCHANGED given
  BY <1>2 DEF FirstGiven, NoEntry
<1>3. QED
  BY <1>1, <1>2
     DEF Next, LoopStep, StopStep, Run, Begin, LoopAgain, Wait, LoopEnd, WaitReturns,
         Relock, Sample, SaveReturns, StopCall, StopLock, StopSet, StopNotify, Tick,
         vars, loopVars

\* The entries given to save_entry follow one another, none longer than three
\* periods, and an empty one comes after a stop() and is the last.
THEOREM SamplesInOrder ==
    ASSUME ~Spurious, Period > 0
    PROVE  Spec => SamplesFollow
<1> DEFINE Kept == TypeOK /\ JobInv /\ SampledInv /\ EntryInv /\ GivenInv /\ FirstGiven
           Follows == loop = "save" /\ loop' = "saving" =>
                        /\ given.end <= entry.start /\ entry.start <= entry.end
                        /\ entry.end - entry.start <= 3 * Period
                        /\ given # NoEntry => given.start < given.end
<1>1. Init => Kept
  BY InitType, InitJobInv, InitSampleInv
<1>2. Kept /\ [Next]_vars => Kept'
  BY NextType, NextJobInv, NextSampledInv, NextEntryInv, NextGivenInv, NextFirstGiven
<1>3. Kept => [Follows]_vars
  BY NaturalTimes DEF EntryInv, GivenInv, FirstGiven, TooLong
<1>4. Spec => [][Follows]_vars
  BY <1>1, <1>2, <1>3, PTL DEF Spec
<1>5. QED
  BY <1>4 DEF SamplesFollow

-----------------------------------------------------------------------------
(***************************************************************************)
(* Configuration::validate_configuration bounds the period from above      *)
(* only.  With a period of zero or less wait_for returns at once, and      *)
(* every sample of non-zero length is longer than three periods.           *)
(***************************************************************************)

EmptySample(e) == e.start = e.end /\ (Period < 0 => e = NoEntry)

\* What is left of the samples then.
IdleInv ==
    /\ entry.start <= now /\ entry.end <= now
    /\ loop = "save" => Period = 0 /\ entry.start = entry.end
    /\ EmptySample(given)

LEMMA InitIdle == Init => IdleInv
BY DEF Init, IdleInv, EmptySample, NoEntry

LEMMA NextIdle ==
    ASSUME Period <= 0, TypeOK, IdleInv, [Next]_vars
    PROVE  IdleInv'
<1> USE DEF IdleInv, EmptySample, NoEntry, loopVars
<1>1. CASE Run \/ LoopEnd \/ Wait \/ WaitReturns \/ Relock \/ SaveReturns
  BY <1>1 DEF Run, LoopEnd, Wait, WaitReturns, Relock, SaveReturns
<1>2. CASE Begin \/ LoopAgain
  BY <1>2, NaturalTimes DEF Begin, LoopAgain
<1>3. CASE Sample
  <2>1. PICK a \in Apps : entry' = [entry EXCEPT !.end = now, !.app = a]
    BY <1>3 DEF Sample
  <2>2. /\ entry'.start = entry.start /\ entry'.end = now
        /\ now' = now /\ given' = given
    BY <1>3, <2>1, NaturalTimes DEF Sample
  <2>3. loop' = "save" => ~(entry'.end - entry'.start > Period * 3)
    BY <1>3 DEF Sample, TooLong
  <2>4. loop' = "save" => Period = 0 /\ entry'.start = entry'.end
    BY <2>2, <2>3, NaturalTimes, Period <= 0
  <2>5. QED
    BY <2>2, <2>4, NaturalTimes
<1>4. CASE Save
  BY <1>4 DEF Save
<1>5. ASSUME NEW c \in Callers, StopCall(c) \/ StopStep(c)
      PROVE  IdleInv'
  BY <1>5 DEF StopCall, StopStep, StopLock, StopSet, StopNotify
<1>6. CASE Tick \/ UNCHANGED vars
  BY <1>6, NaturalTimes DEF Tick, vars
<1>7. QED
  BY <1>1, <1>2, <1>3, <1>4, <1>5, <1>6 DEF Next, LoopStep

\* With a period of zero no sample ever says that time passed; with a negative
\* one no sample is given to save_entry at all.
THEOREM NothingMeasured ==
    ASSUME Period <= 0
    PROVE  Spec => []EmptySample(given)
<1>1. TypeOK /\ IdleInv /\ [Next]_vars => IdleInv'
  BY NextIdle
<1>2. IdleInv => EmptySample(given)
  BY DEF IdleInv
<1>3. QED
  BY <1>1, <1>2, InitType, NextType, InitIdle, PTL DEF Spec

-----------------------------------------------------------------------------
(***************************************************************************)
(* A stop() ends the loop.  The prover has no ENABLED: that the actions    *)
(* of Fairness are possible when their guards hold (and always change      *)
(* something) is a hypothesis, GuardsEnable.  TLC needs no such help, nor  *)
(* LoopGetsMutex for the few callers of a run; an endless supply of        *)
(* callers could keep the mutex from a loop that is only weakly fair.      *)
(***************************************************************************)

LoopCan ==
    \/ loop \in Holding /\ (loop = "sample" => Apps # {})
    \/ loop \in {"begin", "woken"} /\ mutex = "free"

GuardsEnable ==
    /\ loop = "idle" => ENABLED <<Run>>_vars
    /\ LoopCan => ENABLED <<LoopStep>>_vars
    /\ loop = "begin" /\ mutex = "free" => ENABLED <<Begin>>_vars
    /\ loop = "woken" /\ mutex = "free" => ENABLED <<Relock>>_vars
    /\ \A c \in Callers :
         /\ stop[c] = "lock" /\ mutex = "free" => ENABLED <<StopLock(c)>>_vars
         /\ stop[c] = "set" => ENABLED <<StopSet(c)>>_vars
         /\ stop[c] = "notify" => ENABLED <<StopNotify(c)>>_vars

LoopGetsMutex == SF_vars(Begin) /\ SF_vars(Relock)

\* What the behaviours in question have.
Live ==
    /\ [][Next]_vars /\ [](TypeOK /\ JobInv) /\ []GuardsEnable
    /\ WF_vars(Run) /\ WF_vars(LoopStep) /\ LoopGetsMutex

\* Where the loop goes next.
After ==
    [idle |-> {"begin"}, begin |-> {"test"}, test |-> {"round", "done"},
     round |-> {"wait"}, wait |-> {"woken"}, woken |-> {"sample"},
     sample |-> {"save", "test"}, save |-> {"saving"}, saving |-> {"test"},
     done |-> {}]

LEMMA LoopGoes ==
    ASSUME TypeOK, LoopStep
    PROVE  loop' \in After[loop]
<1>1. CASE Begin \/ LoopAgain \/ Wait \/ LoopEnd \/ WaitReturns \/ Relock
  BY <1>1 DEF After, Begin, LoopAgain, Wait, LoopEnd, WaitReturns, Relock
<1>2. CASE Sample
  <2>1. loop = "sample" /\ loop' \in {"save", "test"}
    BY <1>2 DEF Sample
  <2>2. QED
    BY <2>1 DEF After
<1>3. CASE Save \/ SaveReturns
  BY <1>3 DEF After, Save, SaveReturns
<1>4. QED
  BY <1>1, <1>2, <1>3 DEF LoopStep

LEMMA LoopStaysOrGoes ==
    ASSUME TypeOK, [Next]_vars
    PROVE  loop' \in {loop} \cup After[loop]
<1>1. CASE LoopStep
  BY <1>1, LoopGoes
<1>2. ASSUME NEW c \in Callers, StopCall(c) \/ StopStep(c)
      PROVE  loop' \in {loop} \cup After[loop]
  BY <1>2 DEF TypeOK, After, StopCall, StopStep, StopLock, StopSet, StopNotify, loopVars
<1>3. CASE Run \/ Tick \/ UNCHANGED vars
  BY <1>3 DEF After, Run, Tick, vars, loopVars
<1>4. QED
  BY <1>1, <1>2, <1>3 DEF Next

\* The loop keeps the mutex or goes to sleep or ends.
LEMMA LoopFrees ==
    ASSUME TypeOK, JobInv, [Next]_vars, loop \in {"test", "round"}
    PROVE  (loop' = loop /\ mutex' = mutex) \/ loop' = "round" \/ mutex' = "free"
<1> USE DEF JobInv, MutexInv, Holding, loopVars
<1>1. CASE LoopStep
  BY <1>1 DEF LoopStep, Begin, LoopAgain, Wait, LoopEnd, WaitReturns, Relock, Sample,
              Save, SaveReturns
<1>2. ASSUME NEW c \in Callers, StopCall(c) \/ StopStep(c)
      PROVE  loop' = loop /\ mutex' = mutex
  <2>1. mutex = "loop" /\ ~StopSet(c)
    BY CallersAssumption DEF StopSet
  <2>2. QED
    BY <1>2, <2>1, CallersAssumption DEF StopCall, StopStep, StopLock, StopNotify
<1>3. CASE Run \/ Tick \/ UNCHANGED vars
  BY <1>3 DEF Run, Tick, vars
<1>4. QED
  BY <1>1, <1>2, <1>3 DEF Next

LEMMA LoopFreesMutex ==
    ASSUME Apps # {}
    PROVE  Live => (mutex = "loop" ~> mutex = "free")
<1> DEFINE At(l) == loop = l
           Released == mutex = "free"
<1>1. Live => (At("sample") ~> At("save") \/ At("test"))
  <2>1. TypeOK /\ At("sample") /\ [Next]_vars => At("sample")' \/ (At("save") \/ At("test"))'
    BY LoopStaysOrGoes DEF After
  <2>2. TypeOK /\ At("sample") /\ <<LoopStep>>_vars => (At("save") \/ At("test"))'
    BY LoopGoes DEF After
  <2>3. At("sample") /\ GuardsEnable => ENABLED <<LoopStep>>_vars
    BY DEF GuardsEnable, LoopCan, Holding
  <2>4. QED
    BY <2>1, <2>2, <2>3, PTL DEF Live
<1>2. Live => (At("save") ~> At("saving"))
  <2>1. TypeOK /\ At("save") /\ [Next]_vars => At("save")' \/ (At("saving"))'
    BY LoopStaysOrGoes DEF After
  <2>2. TypeOK /\ At("save") /\ <<LoopStep>>_vars => (At("saving"))'
    BY LoopGoes DEF After
  <2>3. At("save") /\ GuardsEnable => ENABLED <<LoopStep>>_vars
    BY DEF GuardsEnable, LoopCan, Holding
  <2>4. QED
    BY <2>1, <2>2, <2>3, PTL DEF Live
<1>3. Live => (At("saving") ~> At("test"))
  <2>1. TypeOK /\ At("saving") /\ [Next]_vars => At("saving")' \/ (At("test"))'
    BY LoopStaysOrGoes DEF After
  <2>2. TypeOK /\ At("saving") /\ <<LoopStep>>_vars => (At("test"))'
    BY LoopGoes DEF After
  <2>3. At("saving") /\ GuardsEnable => ENABLED <<LoopStep>>_vars
    BY DEF GuardsEnable, LoopCan, Holding
  <2>4. QED
    BY <2>1, <2>2, <2>3, PTL DEF Live
<1>4. Live => (At("test") ~> At("round") \/ Released)
  <2>1. TypeOK /\ JobInv /\ At("test") /\ [Next]_vars
          => At("test")' \/ (At("round") \/ Released)'
    BY LoopFrees
  <2>2. TypeOK /\ JobInv /\ At("test") /\ <<LoopStep>>_vars => (At("round") \/ Released)'
    BY LoopFrees, LoopGoes DEF Next, After
  <2>3. At("test") /\ GuardsEnable => ENABLED <<LoopStep>>_vars
    BY DEF GuardsEnable, LoopCan, Holding
  <2>4. QED
    BY <2>1, <2>2, <2>3, PTL DEF Live
<1>5. Live => (At("round") ~> Released)
  <2>1. TypeOK /\ JobInv /\ At("round") /\ [Next]_vars => At("round")' \/ Released'
    BY LoopFrees
  <2>2. TypeOK /\ JobInv /\ At("round") /\ <<LoopStep>>_vars => Released'
    BY LoopFrees, LoopGoes DEF Next, After
  <2>3. At("round") /\ GuardsEnable => ENABLED <<LoopStep>>_vars
    BY DEF GuardsEnable, LoopCan, Holding
  <2>4. QED
    BY <2>1, <2>2, <2>3, PTL DEF Live
<1>6. JobInv /\ mutex = "loop" =>
        At("sample") \/ At("save") \/ At("saving") \/ At("test") \/ At("round")
  BY DEF JobInv, MutexInv, Holding
<1>7. QED
  BY <1>1, <1>2, <1>3, <1>4, <1>5, <1>6, PTL DEF Live

\* A holder of the mutex always releases it, so it is free again and again.
LEMMA CallerFreesMutex ==
    ASSUME NEW c \in Callers
    PROVE  Live /\ StopFairness(c) => (mutex = c ~> mutex = "free")
<1> DEFINE Held == mutex = c
           Released == mutex = "free"
<1>1. TypeOK /\ JobInv /\ Held /\ [Next]_vars => Held' \/ Released'
  <2> SUFFICES ASSUME TypeOK, JobInv, Held, [Next]_vars
               PROVE  Held' \/ Released'
    OBVIOUS
  <2> USE DEF JobInv, MutexInv, Holding
  <2>1. loop \notin Holding
    OBVIOUS
  <2>2. CASE LoopStep
    BY <2>1, <2>2 DEF LoopStep, Begin, LoopAgain, Wait, LoopEnd, WaitReturns, Relock,
                      Sample, Save, SaveReturns
  <2>3. ASSUME NEW d \in Callers, StopCall(d) \/ StopStep(d)
        PROVE  Held' \/ Released'
    BY <2>3 DEF TypeOK, StopCall, StopStep, StopLock, StopSet, StopNotify
  <2>4. CASE Run \/ Tick \/ UNCHANGED vars
    BY <2>4 DEF Run, Tick, vars
  <2>5. QED
    BY <2>2, <2>3, <2>4 DEF Next
<1>2. Held /\ <<StopSet(c)>>_vars => Released'
  BY DEF StopSet
<1>3. JobInv /\ Held /\ GuardsEnable => ENABLED <<StopSet(c)>>_vars
  BY DEF GuardsEnable, JobInv, MutexInv
<1>4. QED
  BY <1>1, <1>2, <1>3, PTL DEF Live, StopFairness

LEMMA MutexFreeAgain ==
    ASSUME Apps # {}
    PROVE  Live /\ (\A c \in Callers : StopFairness(c)) => []<>(mutex = "free")
<1>1. Live /\ (\A c \in Callers : StopFairness(c)) =>
        \A c \in Callers : [](mutex = c => <>(mutex = "free"))
  <2>1. ASSUME NEW c \in Callers
        PROVE  Live /\ StopFairness(c) => [](mutex = c => <>(mutex = "free"))
    BY <2>1, CallerFreesMutex, PTL
  <2>2. QED
    BY <2>1
<1>2. (\A c \in Callers : [](mutex = c => <>(mutex = "free"))) =>
        [](\A c \in Callers : mutex = c => <>(mutex = "free"))
  OBVIOUS
<1>3. (\A c \in Callers : mutex = c => <>(mutex = "free")) =>
        (mutex \in Callers => <>(mutex = "free"))
  OBVIOUS
<1>4. Live => (mutex = "loop" ~> mutex = "free")
  BY LoopFreesMutex
<1>5. TypeOK => mutex \in Callers \/ mutex = "loop" \/ mutex = "free"
  BY DEF TypeOK
<1>6. QED
  BY <1>1, <1>2, <1>3, <1>4, <1>5, PTL DEF Live

\* So whoever calls stop() gets it, and clears is_running.
LEMMA StopClears ==
    ASSUME Apps # {}, NEW c \in Callers
    PROVE  Live /\ (\A d \in Callers : StopFairness(d)) => (stop[c] = "lock" ~> ~is_running)
<1> DEFINE Asks == stop[c] = "lock"
           Has == stop[c] = "set"
           Cleared == ~is_running
           Released == mutex = "free"
<1>1. TypeOK /\ Asks /\ [Next]_vars => Asks' \/ Has'
  <2> SUFFICES ASSUME TypeOK, Asks, [Next]_vars
               PROVE  Asks' \/ Has'
    OBVIOUS
  <2>1. ASSUME NEW d \in Callers, StopCall(d) \/ StopStep(d)
        PROVE  Asks' \/ Has'
    BY <2>1 DEF TypeOK, StopCall, StopStep, StopLock, StopSet, StopNotify
  <2>2. CASE UNCHANGED stop
    BY <2>2
  <2>3. QED
    BY <2>1, <2>2
       DEF Next, LoopStep, Run, Begin, LoopAgain, Wait, LoopEnd, WaitReturns, Relock,
           Sample, Save, SaveReturns, Tick, vars
<1>2. TypeOK /\ <<StopLock(c)>>_vars => Has'
  BY DEF StopLock, TypeOK
<1>3. Asks /\ Released /\ GuardsEnable => ENABLED <<StopLock(c)>>_vars
  BY DEF GuardsEnable
<1>4. TypeOK /\ Has /\ [Next]_vars => Has' \/ Cleared'
  <2> SUFFICES ASSUME TypeOK, Has, [Next]_vars
               PROVE  Has' \/ Cleared'
    OBVIOUS
  <2>1. ASSUME NEW d \in Callers, StopCall(d) \/ StopStep(d)
        PROVE  Has' \/ Cleared'
    BY <2>1 DEF TypeOK, StopCall, StopStep, StopLock, StopSet, StopNotify
  <2>2. CASE UNCHANGED stop
    BY <2>2
  <2>3. QED
    BY <2>1, <2>2
       DEF Next, LoopStep, Run, Begin, LoopAgain, Wait, LoopEnd, WaitReturns, Relock,
           Sample, Save, SaveReturns, Tick, vars
<1>5. <<StopSet(c)>>_vars => Cleared'
  BY DEF StopSet
<1>6. Has /\ GuardsEnable => ENABLED <<StopSet(c)>>_vars
  BY DEF GuardsEnable
<1>7. Live /\ (\A d \in Callers : StopFairness(d)) => []<>Released
  BY MutexFreeAgain
<1>8. (\A d \in Callers : StopFairness(d)) => StopFairness(c)
  OBVIOUS
<1>9. QED
  BY <1>1, <1>2, <1>3, <1>4, <1>5, <1>6, <1>7, <1>8, PTL DEF Live, StopFairness

LEMMA RunningStays == ~is_running /\ [Next]_vars => ~is_running'
BY DEF Next, LoopStep, StopStep, Run, Begin, LoopAgain, Wait, LoopEnd, WaitReturns,
       Relock, Sample, Save, SaveReturns, StopCall, StopLock, StopSet, StopNotify,
       Tick, vars, loopVars

\* A loop asleep when is_running is cleared is woken.
LEMMA Wakened ==
    Live /\ (\A c \in Callers : StopFairness(c)) =>
        (loop = "wait" /\ ~is_running ~> loop = "woken")
<1> DEFINE Woken == loop = "woken"
           Asleep(c) == loop = "wait" /\ stop[c] = "notify"
<1>1. ASSUME NEW c \in Callers
      PROVE  Live /\ StopFairness(c) => [](Asleep(c) => <>Woken)
  <2>1. TypeOK /\ Asleep(c) /\ [Next]_vars => Asleep(c)' \/ Woken'
    <3> SUFFICES ASSUME TypeOK, Asleep(c), [Next]_vars
                 PROVE  Asleep(c)' \/ Woken'
      OBVIOUS
    <3>1. loop' \in {"wait", "woken"}
      BY LoopStaysOrGoes DEF After
    <3>2. ASSUME NEW d \in Callers, StopCall(d) \/ StopStep(d), loop' = "wait"
          PROVE  stop'[c] = "notify"
      BY <3>2 DEF TypeOK, StopCall, StopStep, StopLock, StopSet, StopNotify
    <3>3. CASE UNCHANGED stop
      BY <3>1, <3>3
    <3>4. QED
      BY <3>1, <3>2, <3>3
         DEF Next, LoopStep, Run, Begin, LoopAgain, Wait, LoopEnd, WaitReturns, Relock,
             Sample, Save, SaveReturns, Tick, vars
  <2>2. Asleep(c) /\ <<StopNotify(c)>>_vars => Woken'
    BY DEF StopNotify
  <2>3. Asleep(c) /\ GuardsEnable => ENABLED <<StopNotify(c)>>_vars
    BY DEF GuardsEnable
  <2>4. QED
    BY <2>1, <2>2, <2>3, PTL DEF Live, StopFairness
<1>2. Live /\ (\A c \in Callers : StopFairness(c)) =>
        \A c \in Callers : [](Asleep(c) => <>Woken)
  BY <1>1
<1>3. (\A c \in Callers : [](Asleep(c) => <>Woken)) =>
        [](\A c \in Callers : Asleep(c) => <>Woken)
  OBVIOUS
<1>4. JobInv /\ loop = "wait" /\ ~is_running /\ (\A c \in Callers : Asleep(c) => <>Woken)
        => <>Woken
  BY DEF JobInv, StopInv
<1>5. QED
  BY <1>2, <1>3, <1>4, PTL DEF Live

\* From then on the loop goes on to its end.
LEMMA LoopEnds ==
    ASSUME Apps # {}
    PROVE  Live /\ (\A c \in Callers : StopFairness(c)) => (~is_running ~> loop = "done")
<1> DEFINE At(l) == loop = l
           Released == mutex = "free"
           Ended == loop = "done"
<1>1. Live => (At("idle") ~> At("begin"))
  <2>1. TypeOK /\ At("idle") /\ [Next]_vars => At("idle")' \/ At("begin")'
    BY LoopStaysOrGoes DEF After
  <2>2. At("idle") /\ <<Run>>_vars => At("begin")'
    BY DEF Run
  <2>3. At("idle") /\ GuardsEnable => ENABLED <<Run>>_vars
    BY DEF GuardsEnable
  <2>4. QED
    BY <2>1, <2>2, <2>3, PTL DEF Live
<1>2. Live /\ []<>Released => (At("begin") ~> At("test"))
  <2>1. TypeOK /\ At("begin") /\ [Next]_vars => At("begin")' \/ (At("test"))'
    BY LoopStaysOrGoes DEF After
  <2>2. TypeOK /\ At("begin") /\ <<Begin>>_vars => (At("test"))'
    BY LoopGoes DEF After, LoopStep
  <2>3. At("begin") /\ Released /\ GuardsEnable => ENABLED <<Begin>>_vars
    BY DEF GuardsEnable, LoopCan, Holding
  <2>4. QED
    BY <2>1, <2>2, <2>3, PTL DEF Live, LoopGetsMutex
<1>3. Live /\ []<>Released => (At("woken") ~> At("sample"))
  <2>1. TypeOK /\ At("woken") /\ [Next]_vars => At("woken")' \/ (At("sample"))'
    BY LoopStaysOrGoes DEF After
  <2>2. TypeOK /\ At("woken") /\ <<Relock>>_vars => (At("sample"))'
    BY LoopGoes DEF After, LoopStep
  <2>3. At("woken") /\ Released /\ GuardsEnable => ENABLED <<Relock>>_vars
    BY DEF GuardsEnable, LoopCan, Holding
  <2>4. QED
    BY <2>1, <2>2, <2>3, PTL DEF Live, LoopGetsMutex
<1>4. Live => (At("sample") ~> At("save") \/ At("test"))
  <2>1. TypeOK /\ At("sample") /\ [Next]_vars => At("sample")' \/ (At("save") \/ At("test"))'
    BY LoopStaysOrGoes DEF After
  <2>2. TypeOK /\ At("sample") /\ <<LoopStep>>_vars => (At("save") \/ At("test"))'
    BY LoopGoes DEF After, LoopStep
  <2>3. At("sample") /\ GuardsEnable => ENABLED <<LoopStep>>_vars
    BY DEF GuardsEnable, LoopCan, Holding
  <2>4. QED
    BY <2>1, <2>2, <2>3, PTL DEF Live, LoopGetsMutex
<1>5. Live => (At("save") ~> At("saving"))
  <2>1. TypeOK /\ At("save") /\ [Next]_vars => At("save")' \/ (At("saving"))'
    BY LoopStaysOrGoes DEF After
  <2>2. TypeOK /\ At("save") /\ <<LoopStep>>_vars => (At("saving"))'
    BY LoopGoes DEF After, LoopStep
  <2>3. At("save") /\ GuardsEnable => ENABLED <<LoopStep>>_vars
    BY DEF GuardsEnable, LoopCan, Holding
  <2>4. QED
    BY <2>1, <2>2, <2>3, PTL DEF Live, LoopGetsMutex
<1>6. Live => (At("saving") ~> At("test"))
  <2>1. TypeOK /\ At("saving") /\ [Next]_vars => At("saving")' \/ (At("test"))'
    BY LoopStaysOrGoes DEF After
  <2>2. TypeOK /\ At("saving") /\ <<LoopStep>>_vars => (At("test"))'
    BY LoopGoes DEF After, LoopStep
  <2>3. At("saving") /\ GuardsEnable => ENABLED <<LoopStep>>_vars
    BY DEF GuardsEnable, LoopCan, Holding
  <2>4. QED
    BY <2>1, <2>2, <2>3, PTL DEF Live, LoopGetsMutex
<1>7. Live => (At("test") /\ ~is_running ~> Ended)
  <2>1. ASSUME TypeOK, At("test"), ~is_running, LoopStep
        PROVE  Ended'
    BY <2>1 DEF LoopStep, Begin, LoopAgain, Wait, LoopEnd, WaitReturns, Relock, Sample,
                Save, SaveReturns
  <2>2. ASSUME TypeOK, At("test"), ~is_running, [Next]_vars
        PROVE  (At("test") /\ ~is_running)' \/ Ended'
    <3>1. ASSUME NEW c \in Callers, StopCall(c) \/ StopStep(c)
          PROVE  At("test")'
      BY <2>2, <3>1 DEF StopCall, StopStep, StopLock, StopSet, StopNotify, loopVars
    <3>2. CASE Run \/ Tick \/ UNCHANGED vars
      BY <2>2, <3>2 DEF Run, Tick, vars, loopVars
    <3>3. QED
      BY <2>1, <2>2, <3>1, <3>2, RunningStays DEF Next
  <2>3. At("test") /\ GuardsEnable => ENABLED <<LoopStep>>_vars
    BY DEF GuardsEnable, LoopCan, Holding
  <2>4. QED
    BY <2>1, <2>2, <2>3, PTL DEF Live
<1>8. Live /\ (\A c \in Callers : StopFairness(c)) =>
        (At("wait") /\ ~is_running ~> At("woken"))
  BY Wakened
<1>9. Live /\ (\A c \in Callers : StopFairness(c)) => []<>Released
  BY MutexFreeAgain
<1>10. TypeOK /\ JobInv /\ ~is_running =>
         \/ At("idle") \/ At("begin") \/ At("test") \/ At("wait") \/ At("woken")
         \/ At("sample") \/ At("save") \/ At("saving") \/ Ended
  BY DEF TypeOK, JobInv, StopInv
<1>11. QED
  BY <1>1, <1>2, <1>3, <1>4, <1>5, <1>6, <1>7, <1>8, <1>9, <1>10, RunningStays, PTL
     DEF Live

\* A call of stop() ends the loop, whatever the calls, the period and the
\* clock: with the actions possible where their guards hold, and a loop that
\* gets a mutex that is free again and again.
THEOREM StopEnding ==
    ASSUME Apps # {}
    PROVE  FairSpec /\ []GuardsEnable /\ LoopGetsMutex => StopEnds
<1> DEFINE Ended == loop = "done"
           Asks(c) == stop[c] = "lock"
<1>1. FairSpec /\ []GuardsEnable /\ LoopGetsMutex =>
        Live /\ (\A c \in Callers : StopFairness(c))
  <2>1. Spec => [](TypeOK /\ JobInv)
    BY InitType, NextType, InitJobInv, NextJobInv, PTL DEF Spec
  <2>2. QED
    BY <2>1, PTL DEF FairSpec, Spec, Fairness, Live
<1>2. ASSUME NEW c \in Callers
      PROVE  Live /\ (\A d \in Callers : StopFairness(d)) => [](Asks(c) => <>Ended)
  <2>1. Live /\ (\A d \in Callers : StopFairness(d)) => (Asks(c) ~> ~is_running)
    BY StopClears
  <2>2. Live /\ (\A d \in Callers : StopFairness(d)) => (~is_running ~> Ended)
    BY LoopEnds
  <2>3. QED
    BY <2>1, <2>2, PTL
<1>3. Live /\ (\A c \in Callers : StopFairness(c)) =>
        \A c \in Callers : [](Asks(c) => <>Ended)
  BY <1>2
<1>4. (\A c \in Callers : [](Asks(c) => <>Ended)) => [](\A c \in Callers : Asks(c) => <>Ended)
  OBVIOUS
<1>5. (\A c \in Callers : Asks(c) => <>Ended) => ((\E c \in Callers : Asks(c)) => <>Ended)
  OBVIOUS
<1>6. QED
  BY <1>1, <1>3, <1>4, <1>5, PTL DEF StopEnds
=============================================================================
