---------------------------- MODULE StartupProofs ----------------------------
(***************************************************************************)
(* Startup for any pids, rows and faults.  Every step is one of            *)
(* SingleInstance or leaves its variables alone, so what is proved of the  *)
(* lock holds here; the database file then has one user on POSIX because a *)
(* process at it is up, or ending, and holds the lock.                     *)
(***************************************************************************)
EXTENDS Startup, TLAPS

LockP == INSTANCE SingleInstanceProofs

\* A process at the file has come up and has not gone; on POSIX it has the lock.
UserInv ==
    \A p \in Pids : ~Outside(p) =>
        proc[p] \in {"up", "unnamed", "ending"} /\ (platform = "posix" => held = {p})

StartupInv == LockP!IInv /\ DB!TypeOK /\ UserInv /\ TableWhileOpen

-----------------------------------------------------------------------------
LEMMA LockInit == Lock!Init => LockP!Init
BY DEF Lock!Init, LockP!Init, Lock!NoFile, LockP!NoFile

\* The two instances of SingleInstance have the same steps.
LEMMA SameSteps ==
    ASSUME NEW p \in Pids
    PROVE  /\ Lock!Start(p) => LockP!Start(p)
           /\ Lock!StartStep(p) => LockP!StartStep(p)
           /\ Lock!StopStep(p) => LockP!StopStep(p)
           /\ Lock!Leave(p) => LockP!Leave(p)
           /\ Lock!Die(p) => LockP!Die(p)
<1> USE DEF Lock!Step, LockP!Step
<1>1. Lock!Start(p) => LockP!Start(p)
  BY DEF Lock!Start, LockP!Start, Lock!Up, LockP!Up
<1>2. Lock!StartStep(p) => LockP!StartStep(p)
  BY DEF Lock!StartStep, LockP!StartStep, Lock!OpenLockFile, LockP!OpenLockFile,
         Lock!CannotOpenLockFile, LockP!CannotOpenLockFile, Lock!WriteFails, LockP!WriteFails,
         Lock!NoFile, LockP!NoFile, Lock!TryLock, LockP!TryLock, Lock!WritePid,
         LockP!WritePid, Lock!OpenMutex, LockP!OpenMutex, Lock!CreateMutex,
         LockP!CreateMutex
<1>3. Lock!StopStep(p) => LockP!StopStep(p)
  BY DEF Lock!StopStep, LockP!StopStep, Lock!LaunchStop, LockP!LaunchStop,
         Lock!Up, LockP!Up, Lock!ReadPid, LockP!ReadPid, Lock!NoFile,
         LockP!NoFile, Lock!NoPidFile, LockP!NoPidFile, Lock!Snapshot,
         LockP!Snapshot, Lock!Alive, LockP!Alive, Lock!Kill, LockP!Kill,
         Lock!KillNobody, LockP!KillNobody, Lock!Gone, LockP!Gone
<1>4. (Lock!Leave(p) => LockP!Leave(p)) /\ (Lock!Die(p) => LockP!Die(p))
  BY DEF Lock!Leave, LockP!Leave, Lock!Die, LockP!Die, Lock!Gone, LockP!Gone,
         Lock!Alive, LockP!Alive
<1>5. QED
  BY <1>1, <1>2, <1>3, <1>4

\* What SingleInstance takes for a step.
LEMMA LockNext ==
    ASSUME [Next]_vars
    PROVE  [LockP!Next]_(LockP!vars)
<1> USE DEF lockVars, LockP!vars
<1>1. CASE UNCHANGED vars
  BY <1>1 DEF vars
<1>2. ASSUME NEW p \in Pids, OpenDatabase(p) \/ DatabaseStep(p) \/ Track(p)
      PROVE  UNCHANGED LockP!vars
  BY <1>2 DEF OpenDatabase, DatabaseStep, Track
<1>3. ASSUME NEW p \in Pids, LockStep(p) \/ Die(p)
      PROVE  LockP!Next
  BY <1>3, SameSteps DEF LockStep, Die, LockP!Next
<1>4. QED
  BY <1>1, <1>2, <1>3 DEF Next

\* The lock's side of Startup is SingleInstance: no step of the database adds
\* to what the processes may do there.
THEOREM Locking == Spec => LockP!Spec
BY LockInit, LockNext, PTL DEF Spec, LockP!Spec, Init

LEMMA LockIInv == LockP!IInv /\ [Next]_vars => LockP!IInv'
BY LockNext, LockP!NextIInv, PidsAssumption, PlatformsAssumption

THEOREM LockInvariance == Spec => []LockP!IInv
BY Locking, LockP!Invariance, PidsAssumption, PlatformsAssumption, PTL

-----------------------------------------------------------------------------
LEMMA InitStartup == Init => StartupInv
<1>1. Init => LockP!IInv
  BY LockInit, LockP!InitIInv, PidsAssumption, PlatformsAssumption DEF Init
<1>2. Init => DB!TypeOK /\ UserInv /\ TableWhileOpen
  BY DEF Init, DB!Init, DB!TypeOK, DB!Files, DB!File, UserInv, Outside,
         TableWhileOpen, DB!TableWhileOpen
<1>3. QED
  BY <1>1, <1>2 DEF StartupInv

\* What a step of the database does to where its process is.
LEMMA OpenerMoves ==
    ASSUME DB!TypeOK, NEW p \in Pids, DatabaseStep(p)
    PROVE  /\ opener[p] \in {"look", "create", "make", "exec"}
           /\ \E to \in {"open", "refused", "create", "make", "exec"} :
                opener' = [opener EXCEPT ![p] = to]
           /\ UNCHANGED lockVars
BY DEF DatabaseStep, DB!OpenStep, DB!UseExisting, DB!PrepareThrows, DB!Unusable,
       DB!SetAside, DB!SetAsideThrows, DB!NothingToSetAside, DB!MakeFile,
       DB!CreateTable, DB!CreateThrows, DB!PrepareThrowsAfterwards, DB!To, DB!TypeOK

LEMMA NextUser ==
    ASSUME StartupInv, [Next]_vars
    PROVE  UserInv'
<1> USE DEF StartupInv
<1>1. CASE UNCHANGED vars \/ (DB!Tick /\ UNCHANGED lockVars)
  BY <1>1 DEF vars, lockVars, dbVars, UserInv, Outside, DB!Tick
<1>2. ASSUME NEW p \in Pids, LockStep(p)
      PROVE  UserInv'
  <2>1. UNCHANGED opener
    BY <1>2 DEF LockStep, dbVars
  <2>2. ASSUME NEW q \in Pids, proc[q] \in {"up", "unnamed", "ending"}
        PROVE  /\ proc'[q] \in {"up", "unnamed", "ending"} /\ platform' = platform
               /\ platform = "posix" /\ held = {q} => held' = {q}
    BY <1>2, <2>2, SameSteps, LockP!UpStays, PidsAssumption, PlatformsAssumption DEF LockStep, LockP!IInv
  <2>3. QED
    BY <2>1, <2>2 DEF UserInv, Outside
<1>3. ASSUME NEW p \in Pids, OpenDatabase(p)
      PROVE  UserInv'
  BY <1>3 DEF OpenDatabase, DB!Begin, DB!To, DB!TypeOK, lockVars, UserInv, Outside,
              LockP!IInv, LockP!LockInv, Lock!Up
<1>4. ASSUME NEW p \in Pids, DatabaseStep(p)
      PROVE  UserInv'
  BY <1>4, OpenerMoves DEF DB!TypeOK, lockVars, UserInv, Outside
<1>5. ASSUME NEW p \in Pids, Track(p)
      PROVE  UserInv'
  BY <1>5 DEF Track, DB!Store, lockVars, UserInv, Outside
<1>6. ASSUME NEW p \in Pids, Die(p)
      PROVE  UserInv'
  BY <1>6 DEF Die, Lock!Die, Lock!Gone, Lock!Alive, DB!Close, DB!TypeOK, UserInv,
              Outside, LockP!IInv, LockP!TypeOK
<1>7. QED
  BY <1>1, <1>2, <1>3, <1>4, <1>5, <1>6 DEF Next

\* The file as DatabaseFile describes it.
LEMMA NextFile ==
    ASSUME DB!TypeOK, [Next]_vars
    PROVE  DB!TypeOK' /\ (DB!AllRows \subseteq DB!AllRows' \/ backup # {})
<1> USE DEF DB!TypeOK, DB!Files, DB!File, DB!AllRows
<1>1. CASE UNCHANGED dbVars
  BY <1>1 DEF dbVars
<1>2. ASSUME NEW p \in Pids, OpenDatabase(p) \/ Die(p)
      PROVE  DB!TypeOK' /\ DB!AllRows' = DB!AllRows
  BY <1>2 DEF OpenDatabase, DB!Begin, DB!To, DB!Unchanged, Die, DB!Close
<1>3. ASSUME NEW p \in Pids, DatabaseStep(p)
      PROVE  DB!TypeOK' /\ (DB!AllRows \subseteq DB!AllRows' \/ backup # {})
  <2>1. opener' \in [Pids -> {"closed", "look", "open", "refused", "create", "make",
                              "exec"}]
    BY <1>3, OpenerMoves
  <2>2. CASE DB!SetAside(p)
    BY <2>1, <2>2 DEF DB!SetAside, DB!Missing
  <2>3. CASE DB!MakeFile(p)
    BY <2>1, <2>3 DEF DB!MakeFile
  <2>4. CASE DB!CreateTable(p) \/ DB!PrepareThrowsAfterwards(p)
    BY <2>1, <2>4 DEF DB!CreateTable, DB!PrepareThrowsAfterwards
  <2>5. CASE UNCHANGED <<dbfile, backup, older>>
    BY <2>1, <2>5
  <2>6. QED
    BY <1>3, <2>2, <2>3, <2>4, <2>5
       DEF DatabaseStep, DB!OpenStep, DB!UseExisting, DB!PrepareThrows, DB!Unusable,
           DB!SetAsideThrows, DB!NothingToSetAside, DB!CreateThrows, DB!Unchanged
<1>4. ASSUME NEW p \in Pids, Track(p)
      PROVE  DB!TypeOK' /\ DB!AllRows \subseteq DB!AllRows'
  BY <1>4 DEF Track, DB!Store
<1>5. CASE DB!Tick
  BY <1>5 DEF DB!Tick
<1>6. QED
  BY <1>1, <1>2, <1>3, <1>4, <1>5 DEF Next, LockStep, vars, dbVars

\* Nobody takes the file from a process that has it open: on POSIX there is no
\* one else, on Windows it cannot be renamed.
LEMMA NextTable ==
    ASSUME StartupInv, [Next]_vars
    PROVE  TableWhileOpen'
<1> USE DEF StartupInv, TableWhileOpen, DB!TableWhileOpen
<1>1. CASE UNCHANGED dbVars
  BY <1>1 DEF dbVars
<1>2. ASSUME NEW p \in Pids, OpenDatabase(p) \/ Die(p)
      PROVE  TableWhileOpen'
  BY <1>2 DEF OpenDatabase, DB!Begin, DB!To, DB!Unchanged, Die, DB!Close, DB!TypeOK
<1>3. ASSUME NEW p \in Pids, DatabaseStep(p)
      PROVE  TableWhileOpen'
  <2>1. CASE DB!SetAside(p) /\ opener[p] = "create" /\ ~InUse(p)
    <3>1. opener' = [opener EXCEPT ![p] = "make"]
      BY <2>1 DEF DB!SetAside, DB!To
    <3>2. ASSUME NEW q \in Pids, opener[q] = "open"
          PROVE  FALSE
      <4>1. q # p /\ platform # "windows"
        BY <2>1, <3>2 DEF InUse
      <4>2. platform \in {"posix", "windows"}
        BY PidsAssumption, PlatformsAssumption DEF LockP!IInv, LockP!TypeOK
      <4>3. held = {q} /\ held = {p}
        BY <2>1, <3>2, <4>1, <4>2 DEF UserInv, Outside
      <4>4. QED
        BY <4>1, <4>3
    <3>3. QED
      BY <3>1, <3>2 DEF DB!TypeOK
  <2>2. CASE DB!UseExisting(p) \/ DB!CreateTable(p) \/ DB!PrepareThrowsAfterwards(p)
    BY <2>2 DEF DB!UseExisting, DB!CreateTable, DB!PrepareThrowsAfterwards, DB!Unchanged,
                DB!File
  <2>3. CASE /\ ~DB!SetAside(p) /\ ~DB!UseExisting(p) /\ ~DB!CreateTable(p)
             /\ ~DB!PrepareThrowsAfterwards(p)
    <3>1. \A q \in Pids : opener'[q] = "open" => opener[q] = "open"
      BY <1>3, <2>3
         DEF DatabaseStep, DB!OpenStep, DB!PrepareThrows, DB!Unusable, DB!MakeFile,
             DB!SetAsideThrows, DB!NothingToSetAside, DB!CreateThrows, DB!To, DB!TypeOK
    <3>2. dbfile' = dbfile \/ dbfile.kind = "missing"
      BY <1>3, <2>3
         DEF DatabaseStep, DB!OpenStep, DB!PrepareThrows, DB!Unusable, DB!MakeFile,
             DB!SetAsideThrows, DB!NothingToSetAside, DB!CreateThrows, DB!Unchanged
    <3>3. QED
      BY <3>1, <3>2
  <2>4. DB!SetAside(p) => opener[p] = "create" /\ ~InUse(p)
    <3>1. CASE InUse(p) /\ DB!SetAsideThrows(p)
      BY <3>1 DEF DB!SetAside, DB!SetAsideThrows, DB!To, DB!TypeOK
    <3>2. QED
      BY <1>3, <3>1 DEF DatabaseStep, DB!SetAside, DB!To
  <2>5. QED
    BY <2>1, <2>2, <2>3, <2>4
<1>4. ASSUME NEW p \in Pids, Track(p)
      PROVE  TableWhileOpen'
  BY <1>4 DEF Track, DB!Store, DB!File
<1>5. CASE DB!Tick
  BY <1>5 DEF DB!Tick
<1>6. QED
  BY <1>1, <1>2, <1>3, <1>4, <1>5 DEF Next, LockStep, vars, dbVars

THEOREM Invariance == Spec => []StartupInv
<1>1. StartupInv /\ [Next]_vars => StartupInv'
  BY LockIInv, NextFile, NextUser, NextTable DEF StartupInv
<1>2. QED
  BY InitStartup, <1>1, PTL DEF Spec

-----------------------------------------------------------------------------
\* The variables of the lock and of the file have their types.
THEOREM TypeCorrect == Spec => []TypeOK
<1>1. StartupInv => TypeOK
  BY DEF StartupInv, LockP!IInv, TypeOK, Lock!TypeOK, LockP!TypeOK, Lock!NoFile,
         LockP!NoFile
<1>2. QED
  BY <1>1, Invariance, PTL

\* POSIX: one process at a time looks at, moves, creates or has open the file.
THEOREM OneUser == Spec => []OneAtTheFile
<1>1. StartupInv => OneAtTheFile
  BY DEF StartupInv, UserInv, OneAtTheFile
<1>2. QED
  BY <1>1, Invariance, PTL

\* Who has opened the database has the table in it as long as it has it open.
THEOREM TableStays == Spec => []TableWhileOpen
<1>1. StartupInv => TableWhileOpen
  BY DEF StartupInv
<1>2. QED
  BY <1>1, Invariance, PTL

\* No row of the database or of its backups is lost, second backups within a
\* second excepted.
THEOREM NoRowLost == Spec => RowsKept
<1>1. StartupInv /\ [Next]_vars =>
        [DB!AllRows \subseteq DB!AllRows' \/ backup # {}]_(DB!vars)
  BY NextFile DEF StartupInv
<1>2. QED
  BY <1>1, Invariance, PTL DEF Spec, RowsKept, DB!RowsKept

\* What is proved of the lock holds in the composition: a process that finds a
\* daemon up is not up beside it,
THEOREM YieldingKept == Spec => []LateComersYield
<1>1. LockP!IInv => LateComersYield
  BY PidsAssumption, PlatformsAssumption
     DEF LockP!IInv, LockP!LockInv, LockP!MetInv, LockP!Up, LockP!TypeOK,
         LateComersYield, Lock!LateComersYield, Lock!Up
<1>2. QED
  BY <1>1, LockInvariance, PTL

\* and --stop aims at the daemon that was up when it began, unless its pid was
\* not written, or over a longer one (posixsingleapplocker.cc:40).
THEOREM StoppingKept == Spec => []StopAimsAtDaemon
<1>1. LockP!IInv => StopAimsAtDaemon
  BY PidsAssumption, PlatformsAssumption
     DEF LockP!IInv, LockP!LockInv, LockP!MetInv, LockP!Up, LockP!TypeOK,
         StopAimsAtDaemon, Lock!StopAimsAtDaemon, LockP!StopAimsAtDaemon
<1>2. QED
  BY <1>1, LockInvariance, PTL

-----------------------------------------------------------------------------
(***************************************************************************)
(* A start waits for nobody.  NobodyWaits speaks of ENABLED, which the     *)
(* prover does not have: that a process can take a step where the guards   *)
(* of one hold is a hypothesis, GuardsEnable.                              *)
(***************************************************************************)

\* The guards of OwnStep, action by action.
LockGuards(p) ==
    \/ platform = "posix" /\ proc[p] = "lock"
    \/ platform = "posix" /\ proc[p] = "opened" /\ held = {}
    \/ platform = "posix" /\ proc[p] = "opened" /\ held # {}
    \/ platform = "posix" /\ proc[p] = "locked"
    \/ platform = "windows" /\ proc[p] = "lock" /\ held = {}
    \/ platform = "windows" /\ proc[p] = "lock" /\ held # {}
    \/ platform = "windows" /\ proc[p] = "opened"
    \/ proc[p] = "turned"

FileGuards(p) ==
    \/ proc[p] \in {"up", "unnamed"} /\ opener[p] = "closed"
    \/ opener[p] = "look" /\ dbfile.kind = "table"
    \/ opener[p] = "look" /\ dbfile.kind = "notable"
    \/ opener[p] = "look" /\ dbfile.kind \in {"missing", "garbage"}
    \/ opener[p] = "create" /\ dbfile.kind # "missing"
    \/ opener[p] = "create" /\ dbfile.kind = "missing" /\ ~InUse(p)
    \/ opener[p] = "make"
    \/ opener[p] = "exec" /\ dbfile.kind = "notable"
    \/ opener[p] = "exec" /\ dbfile.kind # "notable"

EndGuards(p) == proc[p] # "none" /\ (opener[p] = "refused" \/ proc[p] = "ending")

GuardsEnable ==
    \A p \in Pids :
        LockGuards(p) \/ FileGuards(p) \/ EndGuards(p) => ENABLED OwnStep(p)

\* Who has a place only POSIX has; and on Windows nobody moves the file away
\* from a process that is about to make its table.
LockedInv == \A p \in Pids : proc[p] = "locked" => platform = "posix"

MadeInv ==
    platform = "windows" =>
        \A p \in Pids : opener[p] = "exec" => dbfile.kind # "missing"

LEMMA InitPlaces == Init => LockedInv /\ MadeInv
BY DEF Init, Lock!Init, DB!Init, LockedInv, MadeInv

LEMMA NextLocked == StartupInv /\ LockedInv /\ [Next]_vars => LockedInv'
<1> SUFFICES ASSUME StartupInv, LockedInv, [Next]_vars
             PROVE  LockedInv'
  OBVIOUS
<1> USE DEF LockedInv, lockVars
<1>1. CASE UNCHANGED lockVars
  BY <1>1
<1>2. ASSUME NEW p \in Pids, Lock!Gone(p)
      PROVE  LockedInv'
  BY <1>2 DEF Lock!Gone, StartupInv, LockP!IInv, LockP!TypeOK
<1>3. ASSUME NEW p \in Pids, Lock!Start(p) \/ Lock!StartStep(p)
      PROVE  LockedInv'
  BY <1>3 DEF Lock!Start, Lock!StartStep, Lock!OpenLockFile, Lock!CannotOpenLockFile,
              Lock!TryLock, Lock!WritePid, Lock!WriteFails, Lock!OpenMutex, Lock!CreateMutex, Lock!Step, StartupInv,
              LockP!IInv, LockP!TypeOK
<1>4. ASSUME NEW p \in Pids, Lock!LaunchStop(p) \/ Lock!ReadPid(p) \/ Lock!Snapshot(p)
      PROVE  LockedInv'
  BY <1>4 DEF Lock!LaunchStop, Lock!ReadPid, Lock!Snapshot, Lock!Step, StartupInv,
              LockP!IInv, LockP!TypeOK
<1>5. ASSUME NEW p \in Pids, Lock!Kill(p)
      PROVE  LockedInv'
  BY <1>5 DEF Lock!Kill, StartupInv, LockP!IInv, LockP!TypeOK
<1>6. QED
  BY <1>1, <1>2, <1>3, <1>4, <1>5
     DEF Next, LockStep, OpenDatabase, DatabaseStep, Track, Die, vars, Lock!Leave,
         Lock!StopStep, Lock!NoPidFile, Lock!KillNobody, Lock!Die

LEMMA NextMade == StartupInv /\ MadeInv /\ [Next]_vars => MadeInv'
<1> SUFFICES ASSUME StartupInv, MadeInv, [Next]_vars, platform' = "windows",
                    NEW p \in Pids, opener'[p] = "exec"
             PROVE  dbfile'.kind # "missing"
  BY DEF MadeInv
<1>1. platform = "windows"
  BY LockNext
     DEF LockP!Next, LockP!vars, LockP!Start, LockP!StartStep, LockP!OpenLockFile,
         LockP!CannotOpenLockFile, LockP!WriteFails,
         LockP!TryLock, LockP!WritePid, LockP!OpenMutex, LockP!CreateMutex, LockP!Step,
         LockP!Leave, LockP!Gone, LockP!Die, LockP!StopStep, LockP!LaunchStop,
         LockP!ReadPid, LockP!NoPidFile, LockP!Snapshot, LockP!Kill, LockP!KillNobody
<1>2. opener \in [Pids -> {"closed", "look", "open", "refused", "create", "make", "exec"}]
  BY DEF StartupInv, DB!TypeOK
<1>3. opener[p] = "exec" => dbfile.kind # "missing"
  BY <1>1 DEF MadeInv
<1>4. CASE UNCHANGED dbVars \/ DB!Tick
  BY <1>3, <1>4 DEF dbVars, DB!Tick
<1>5. ASSUME NEW q \in Pids, OpenDatabase(q) \/ Track(q) \/ Die(q)
      PROVE  dbfile'.kind # "missing"
  BY <1>2, <1>3, <1>5 DEF OpenDatabase, DB!Begin, DB!To, DB!Unchanged, Track, DB!Store,
                          DB!File, Die, DB!Close
<1>6. ASSUME NEW q \in Pids, DatabaseStep(q)
      PROVE  dbfile'.kind # "missing"
  <2>1. CASE DB!SetAside(q) /\ ~InUse(q)
    BY <1>1, <1>2, <2>1 DEF DB!SetAside, DB!To, InUse
  <2>2. CASE DB!MakeFile(q) \/ DB!CreateTable(q) \/ DB!PrepareThrowsAfterwards(q)
    BY <2>2 DEF DB!MakeFile, DB!CreateTable, DB!PrepareThrowsAfterwards, DB!File
  <2>3. CASE UNCHANGED dbfile /\ (opener'[p] = "exec" => opener[p] = "exec")
    BY <1>3, <2>3
  <2>4. CASE /\ ~DB!SetAside(q) /\ ~DB!MakeFile(q) /\ ~DB!CreateTable(q)
             /\ ~DB!PrepareThrowsAfterwards(q)
    BY <1>2, <1>6, <2>3, <2>4
       DEF DatabaseStep, DB!OpenStep, DB!UseExisting, DB!PrepareThrows, DB!Unusable,
           DB!SetAsideThrows, DB!NothingToSetAside, DB!CreateThrows, DB!To, DB!Unchanged
  <2>5. DB!SetAside(q) => ~InUse(q)
    <3>1. CASE InUse(q) /\ DB!SetAsideThrows(q)
      BY <1>2, <3>1 DEF DB!SetAside, DB!SetAsideThrows, DB!To
    <3>2. QED
      BY <1>6, <3>1 DEF DatabaseStep, DB!SetAside, DB!To
  <2>6. QED
    BY <2>1, <2>2, <2>4, <2>5
<1>7. QED
  BY <1>4, <1>5, <1>6 DEF Next, LockStep, vars

\* Whatever other processes hold and wherever they have stopped or died, one
\* that starts can go on until it tracks or is gone.
THEOREM NobodyHeldUp == Spec /\ []GuardsEnable => []NobodyWaits
<1>1. ASSUME StartupInv, LockedInv, MadeInv, NEW p \in Pids,
             proc[p] \notin {"none", "stop", "aim"}, opener[p] # "open"
      PROVE  LockGuards(p) \/ FileGuards(p) \/ EndGuards(p)
  <2>1. platform \in {"posix", "windows"}
    BY <1>1, PlatformsAssumption DEF StartupInv, LockP!IInv, LockP!TypeOK
  <2>2. proc[p] \in {"lock", "opened", "locked", "up", "unnamed", "turned", "ending"}
    BY <1>1 DEF StartupInv, LockP!IInv, LockP!TypeOK
  <2>3. CASE proc[p] \in {"lock", "opened", "locked", "turned"}
    BY <1>1, <2>1, <2>3 DEF LockGuards, LockedInv
  <2>4. CASE proc[p] = "ending"
    BY <2>4 DEF EndGuards
  <2>5. CASE proc[p] \in {"up", "unnamed"}
    <3>1. opener[p] \in {"closed", "look", "refused", "create", "make", "exec"}
      BY <1>1 DEF StartupInv, DB!TypeOK
    <3>2. dbfile.kind \in {"missing", "garbage", "notable", "table"}
      BY <1>1 DEF StartupInv, DB!TypeOK, DB!Files, DB!File
    <3>3. InUse(p) => dbfile.kind # "missing"
      BY <1>1 DEF InUse, MadeInv, StartupInv, TableWhileOpen, DB!TableWhileOpen
    <3>4. QED
      BY <2>5, <3>1, <3>2, <3>3 DEF FileGuards, EndGuards
  <2>6. QED
    BY <2>2, <2>3, <2>4, <2>5
<1>2. StartupInv /\ LockedInv /\ MadeInv /\ GuardsEnable => NobodyWaits
  BY <1>1 DEF GuardsEnable, NobodyWaits
<1>3. QED
  BY <1>2, InitPlaces, NextLocked, NextMade, Invariance, PTL DEF Spec
=============================================================================
