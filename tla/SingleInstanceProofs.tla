------------------------ MODULE SingleInstanceProofs ------------------------
(***************************************************************************)
(* SingleInstance for any set of pids on any platform.  The invariant that *)
(* is inductive says who can hold the lock, that the processes counted in  *)
(* met have been up and have not gone, and what the file starts with while *)
(* one of them is there.                                                   *)
(***************************************************************************)
EXTENDS SingleInstance, SequenceTheorems, TLAPS

\* POSIX: only the holder of the lock is past TryLock.  Windows: whoever is up
\* has a handle.
LockInv ==
    /\ platform = "posix" =>
         \A p \in Pids : proc[p] \in {"locked", "up", "unnamed"} => held = {p}
    /\ platform = "windows" => Up \subseteq held

\* A process met came up before, is not gone, and on POSIX holds the lock
\* still; on Windows none of them is up beside one that saw no mutex.
MetInv ==
    \A p \in Pids : \A q \in met[p] :
        /\ proc[q] \in {"up", "unnamed", "ending"} /\ q # p
        /\ platform = "posix" => held = {q}
        /\ platform = "windows" /\ (proc[p] = "opened" \/ p \in Up) => q \notin Up

\* What is in the file of a daemon that wrote its pid q there.
Written(q) == pid_file \in Seq(0..9) /\ (pid_file = q \/ Len(pid_file) > Len(q))

FileInv ==
    platform = "posix" =>
        /\ \A p \in Pids : proc[p] \in {"opened", "locked"} => pid_file # NoFile
        /\ \A q \in Pids : proc[q] = "up" => Written(q)

IInv == TypeOK /\ LockInv /\ MetInv /\ FileInv /\ StopAimsAtDaemon

-----------------------------------------------------------------------------
\* A pid written over the file leaves the pid itself, or more digits.
LEMMA Overwritten ==
    ASSUME NEW p \in Seq(0..9), NEW f \in Seq(0..9)
    PROVE  LET g == p \o SubSeq(f, Len(p) + 1, Len(f))
           IN  g \in Seq(0..9) /\ (g = p \/ Len(g) > Len(p))
<1> DEFINE t == SubSeq(f, Len(p) + 1, Len(f))
<1>1. CASE Len(f) <= Len(p)
  <2>1. t = << >>
    BY <1>1, SubSeqEmpty
  <2>2. QED
    BY <2>1, ConcatEmptySeq
<1>2. CASE Len(f) > Len(p)
  <2>1. t \in Seq(0..9) /\ Len(t) = Len(f) - Len(p)
    BY <1>2, SubSeqProperties
  <2>2. QED
    BY <1>2, <2>1, ConcatProperties
<1>3. QED
  BY <1>1, <1>2

LEMMA NoFileIsNoPid == NoFile \notin Seq(0..9)
<1> SUFFICES ASSUME NoFile \in Seq(0..9)
             PROVE  FALSE
  OBVIOUS
<1>1. Len(NoFile) = 1 /\ NoFile[1] = 10
  BY DEF NoFile
<1>2. \A s \in Seq(0..9) : \A i \in 1..Len(s) : s[i] \in 0..9
  OBVIOUS
<1>3. QED
  BY <1>1, <1>2

LEMMA InitIInv == Init => IInv
BY DEF Init, IInv, TypeOK, LockInv, MetInv, FileInv, StopAimsAtDaemon, Up, NoFile

\* How a process goes: the same for Leave, Die and the ends of --stop.
LEMMA GoneIInv ==
    ASSUME IInv, NEW p \in Pids, Gone(p)
    PROVE  IInv'
<1> USE DEF Gone, IInv
<1>1. TypeOK'
  BY DEF TypeOK
<1>2. LockInv'
  BY DEF LockInv, TypeOK, Up
<1>3. MetInv'
  BY DEF MetInv, TypeOK, Up
<1>4. FileInv'
  BY DEF FileInv, TypeOK, Up, Written
<1>5. StopAimsAtDaemon'
  BY DEF StopAimsAtDaemon, TypeOK
<1>6. QED
  BY <1>1, <1>2, <1>3, <1>4, <1>5

\* A step of p among the states in which no process counts as up, that leaves
\* the lock, the file and the aims as they are.
LEMMA QuietIInv ==
    ASSUME IInv, NEW p \in Pids,
           NEW to \in {"lock", "stop", "turned"},
           proc[p] \notin {"up", "unnamed", "ending"}, proc' = [proc EXCEPT ![p] = to],
           met' = met \/ met' = [met EXCEPT ![p] = Up], proc[p] = "none" \/ met' = met,
           UNCHANGED <<platform, pid_file, held, sees>>
    PROVE  IInv'
<1> USE DEF IInv
<1>1. TypeOK'
  BY DEF TypeOK, Up
<1>2. LockInv'
  BY DEF LockInv, TypeOK, Up
<1>3. MetInv'
  BY DEF MetInv, LockInv, TypeOK, Up
<1>4. FileInv'
  BY DEF FileInv, TypeOK, Up, Written
<1>5. StopAimsAtDaemon'
  BY DEF StopAimsAtDaemon, TypeOK
<1>6. QED
  BY <1>1, <1>2, <1>3, <1>4, <1>5

\* The steps of a start.
LEMMA StartIInv ==
    ASSUME IInv, NEW p \in Pids, StartStep(p)
    PROVE  IInv'
<1> USE PidsAssumption DEF IInv, Step
<1>1. CASE OpenLockFile(p)
  <2> USE <1>1 DEF OpenLockFile
  <2>1. pid_file' \in Seq(0..9) /\ (pid_file # NoFile => pid_file' = pid_file)
    BY DEF TypeOK
  <2>2. TypeOK'
    BY <2>1 DEF TypeOK
  <2>3. LockInv'
    BY DEF LockInv, TypeOK, Up
  <2>4. MetInv'
    BY DEF MetInv, TypeOK, Up
  <2>5. FileInv'
    <3>1. pid_file' # NoFile
      BY <2>1 DEF NoFile
    <3>2. \A q : Written(q) => Written(q)'
      BY <2>1 DEF Written, NoFile
    <3>3. QED
      BY <3>1, <3>2 DEF FileInv, TypeOK, Up
  <2>6. StopAimsAtDaemon'
    BY DEF StopAimsAtDaemon, TypeOK
  <2>7. QED
    BY <2>2, <2>3, <2>4, <2>5, <2>6
<1>2. CASE TryLock(p)
  <2> USE <1>2 DEF TryLock
  <2>1. CASE held # {}
    <3>1. proc' = [proc EXCEPT ![p] = "turned"] /\ proc[p] = "opened" /\ held' = held
      BY <2>1
    <3>2. QED
      BY <3>1, QuietIInv
  <2>2. CASE held = {}
    <3>1. proc[p] = "opened" /\ proc' = [proc EXCEPT ![p] = "locked"] /\ held' = {p}
      BY <2>2
    <3>2. TypeOK'
      BY <3>1 DEF TypeOK
    <3>3. LockInv' /\ \A q \in Pids : met[q] = {}
      BY <2>2, <3>1 DEF LockInv, MetInv, TypeOK, Up
    <3>4. MetInv' /\ FileInv' /\ StopAimsAtDaemon'
      BY <3>1, <3>3 DEF MetInv, FileInv, StopAimsAtDaemon, TypeOK, Up, Written
    <3>5. QED
      BY <3>2, <3>3, <3>4
  <2>3. QED
    BY <2>1, <2>2
<1>3. CASE WritePid(p)
  <2> USE <1>3 DEF WritePid
  <2>1. Written(p)' /\ pid_file' # NoFile
    <3>1. p \in Seq(0..9) /\ pid_file \in Seq(0..9)
      BY DEF FileInv, TypeOK
    <3>2. pid_file' \in Seq(0..9) /\ (pid_file' = p \/ Len(pid_file') > Len(p))
      BY <3>1, Overwritten
    <3>3. QED
      BY <3>2, NoFileIsNoPid DEF Written
  <2>2. \A q \in Pids : met[q] = {} /\ ~(q \in Up /\ q # p)
    <3>1. held = {p} /\ \A q \in Up : held = {q}
      BY DEF LockInv, Up
    <3>2. \A q \in Pids : \A x \in met[q] : x = p /\ proc[x] # "locked"
      BY <3>1 DEF MetInv
    <3>3. QED
      BY <3>1, <3>2
  <2>3. TypeOK'
    BY <2>1 DEF TypeOK, Written
  <2>4. LockInv'
    BY DEF LockInv, TypeOK, Up
  <2>5. MetInv' /\ FileInv' /\ StopAimsAtDaemon'
    BY <2>1, <2>2 DEF MetInv, FileInv, StopAimsAtDaemon, TypeOK, Up, Written
  <2>6. QED
    BY <2>3, <2>4, <2>5
<1>4. CASE OpenMutex(p)
  <2> USE <1>4 DEF OpenMutex
  <2>1. TypeOK'
    BY DEF TypeOK
  <2>2. LockInv'
    BY DEF LockInv, TypeOK, Up
  <2>3. MetInv'
    BY DEF MetInv, LockInv, TypeOK, Up
  <2>4. FileInv' /\ StopAimsAtDaemon'
    BY DEF FileInv, StopAimsAtDaemon, TypeOK
  <2>5. QED
    BY <2>1, <2>2, <2>3, <2>4
<1>5. CASE CreateMutex(p)
  <2> USE <1>5 DEF CreateMutex
  <2>1. TypeOK'
    BY DEF TypeOK
  <2>2. LockInv'
    BY DEF LockInv, TypeOK, Up
  <2>3. MetInv'
    BY DEF MetInv, TypeOK, Up
  <2>4. FileInv' /\ StopAimsAtDaemon'
    BY DEF MetInv, FileInv, StopAimsAtDaemon, TypeOK
  <2>5. QED
    BY <2>1, <2>2, <2>3, <2>4
<1>6. CASE CannotOpenLockFile(p)
  BY <1>6, QuietIInv DEF CannotOpenLockFile
<1>7. CASE WriteFails(p)
  <2> USE <1>7 DEF WriteFails
  <2>1. TypeOK'
    BY DEF TypeOK
  <2>2. LockInv' /\ \A q \in Pids : met[q] = {}
    <3>1. held = {p} /\ proc[p] = "locked"
      BY DEF LockInv
    <3>2. \A q \in Pids : \A x \in met[q] : x = p /\ proc[x] # "locked"
      BY <3>1 DEF MetInv
    <3>3. LockInv'
      BY DEF LockInv, TypeOK, Up
    <3>4. QED
      BY <3>1, <3>2, <3>3
  <2>3. MetInv' /\ FileInv' /\ StopAimsAtDaemon'
    BY <2>2 DEF MetInv, FileInv, StopAimsAtDaemon, TypeOK, Up, Written
  <2>4. QED
    BY <2>1, <2>2, <2>3
<1>8. QED
  BY <1>1, <1>2, <1>3, <1>4, <1>5, <1>6, <1>7 DEF StartStep

\* The steps of a --stop.
LEMMA StopIInv ==
    ASSUME IInv, NEW p \in Pids, StopStep(p)
    PROVE  IInv'
<1> USE PidsAssumption DEF IInv, Step
<1>1. CASE LaunchStop(p)
  BY <1>1, QuietIInv DEF LaunchStop
<1>2. CASE ReadPid(p)
  <2> USE <1>2 DEF ReadPid
  <2>1. PICK v \in IF pid_file = << >> THEN Pids ELSE {pid_file} :
                 sees' = [sees EXCEPT ![p] = {v}]
    OBVIOUS
  <2>2. TypeOK'
    BY <2>1 DEF TypeOK
  <2>3. LockInv' /\ MetInv' /\ FileInv'
    BY DEF LockInv, MetInv, FileInv, TypeOK, Up, Written
  <2>4. StopAimsAtDaemon'
    <3>1. ASSUME NEW q \in met[p], proc[q] = "up"
          PROVE  v = q \/ Len(v) > Len(q)
      <4>1. Written(q) /\ q \in Seq(0..9) /\ q # << >>
        BY <3>1 DEF FileInv, TypeOK
      <4>2. pid_file # << >>
        BY <4>1 DEF Written
      <4>3. QED
        BY <2>1, <4>1, <4>2 DEF Written
    <3>2. SUFFICES ASSUME NEW r \in Pids, NEW q \in Pids,
                          proc'[r] = "aim", q \in met[r], proc[q] = "up"
                   PROVE  q \in sees'[r] \/ \E w \in sees'[r] :
                                  platform = "posix" /\ Len(w) > Len(q)
      BY DEF StopAimsAtDaemon, TypeOK
    <3>3. CASE r = p
      <4>1. sees'[p] = {v}
        BY <2>1 DEF TypeOK
      <4>2. QED
        BY <3>1, <3>2, <3>3, <4>1
    <3>4. CASE r # p
      <4>1. proc[r] = "aim" /\ sees'[r] = sees[r]
        BY <2>1, <3>2, <3>4 DEF TypeOK
      <4>2. QED
        BY <3>2, <4>1 DEF StopAimsAtDaemon
    <3>5. QED
      BY <3>3, <3>4
  <2>5. QED
    BY <2>2, <2>3, <2>4
<1>3. CASE Snapshot(p)
  <2> USE <1>3 DEF Snapshot, Alive
  <2>1. TypeOK'
    BY DEF TypeOK
  <2>2. LockInv' /\ MetInv' /\ FileInv'
    BY DEF LockInv, MetInv, FileInv, TypeOK, Up
  <2>3. StopAimsAtDaemon'
    <3>1. SUFFICES ASSUME NEW r \in Pids, NEW q \in Pids,
                          proc'[r] = "aim", q \in met[r], proc[q] = "up"
                   PROVE  q \in sees'[r] \/ \E w \in sees'[r] :
                                  platform = "posix" /\ Len(w) > Len(q)
      BY DEF StopAimsAtDaemon, TypeOK
    <3>2. CASE r = p
      <4>1. sees'[p] = {x \in Pids \ {p} : proc[x] # "none"}
        BY DEF TypeOK
      <4>2. proc[q] # "none" /\ q # p
        BY <3>1, <3>2 DEF MetInv
      <4>3. QED
        BY <3>2, <4>1, <4>2
    <3>3. CASE r # p
      <4>1. proc[r] = "aim" /\ sees'[r] = sees[r]
        BY <3>1, <3>3 DEF TypeOK
      <4>2. QED
        BY <3>1, <4>1 DEF StopAimsAtDaemon
    <3>4. QED
      BY <3>2, <3>3
  <2>4. QED
    BY <2>1, <2>2, <2>3
<1>4. CASE NoPidFile(p)
  BY <1>4, GoneIInv DEF NoPidFile
<1>5. CASE Kill(p)
  <2> USE <1>5 DEF Kill
  <2>1. PICK t \in Pids : /\ Alive(t)
                          /\ proc' = [proc EXCEPT ![t] = "ending", ![p] = "none"]
    OBVIOUS
  <2>2. TypeOK'
    BY <2>1 DEF TypeOK
  <2>3. LockInv'
    BY <2>1 DEF LockInv, TypeOK, Up
  <2>4. MetInv'
    BY <2>1 DEF MetInv, TypeOK, Up
  <2>5. FileInv'
    BY <2>1 DEF FileInv, TypeOK, Up, Written
  <2>6. StopAimsAtDaemon'
    <3>1. SUFFICES ASSUME NEW r \in Pids, NEW q \in Pids,
                          proc'[r] = "aim", q \in met'[r], proc'[q] = "up"
                   PROVE  q \in sees'[r] \/ \E w \in sees'[r] :
                                  platform = "posix" /\ Len(w) > Len(q)
      BY DEF StopAimsAtDaemon
    <3>2. /\ r # p /\ proc[r] = "aim" /\ sees'[r] = sees[r]
          /\ q \in met[r] /\ proc[q] = "up"
      BY <2>1, <3>1 DEF TypeOK
    <3>3. QED
      BY <3>1, <3>2 DEF StopAimsAtDaemon
  <2>7. QED
    BY <2>2, <2>3, <2>4, <2>5, <2>6
<1>6. CASE KillNobody(p)
  BY <1>6, GoneIInv DEF KillNobody
<1>7. QED
  BY <1>1, <1>2, <1>3, <1>4, <1>5, <1>6 DEF StopStep

\* Whoever came up stays, and on POSIX keeps the lock, whatever others do.
LEMMA UpStays ==
    ASSUME TypeOK, NEW p \in Pids, NEW q \in Pids,
           proc[q] \in {"up", "unnamed", "ending"},
           Start(p) \/ StartStep(p) \/ StopStep(p) \/ Leave(p)
    PROVE  /\ proc'[q] \in {"up", "unnamed", "ending"} /\ platform' = platform
           /\ platform = "posix" /\ held = {q} => held' = {q}
<1> USE DEF TypeOK, Step
<1>1. CASE Start(p)
  BY <1>1 DEF Start
<1>2. CASE StartStep(p)
  BY <1>2 DEF StartStep, OpenLockFile, CannotOpenLockFile, TryLock, WritePid, WriteFails,
              OpenMutex, CreateMutex
<1>3. CASE Leave(p)
  BY <1>3 DEF Leave, Gone
<1>4. CASE StopStep(p)
  BY <1>4 DEF StopStep, LaunchStop, ReadPid, NoPidFile, Snapshot, Kill, KillNobody,
              Gone
<1>5. QED
  BY <1>1, <1>2, <1>3, <1>4

LEMMA NextIInv == IInv /\ [Next]_vars => IInv'
<1> SUFFICES ASSUME IInv, [Next]_vars
             PROVE  IInv'
  OBVIOUS
<1>1. CASE UNCHANGED vars
  BY <1>1 DEF vars, IInv, TypeOK, LockInv, MetInv, FileInv, StopAimsAtDaemon, Up, Written
<1>2. ASSUME NEW p \in Pids, Start(p)
      PROVE  IInv'
  BY <1>2, QuietIInv DEF Start, Step
<1>3. ASSUME NEW p \in Pids, Leave(p) \/ Die(p)
      PROVE  IInv'
  BY <1>3, GoneIInv DEF Leave, Die
<1>4. QED
  BY <1>1, <1>2, <1>3, StartIInv, StopIInv DEF Next

\* The invariant, for any pids and on both platforms.
THEOREM Invariance == Spec => []IInv
BY InitIInv, NextIInv, PTL DEF Spec

\* POSIX: one daemon at a time, however starts, forks and deaths interleave.
THEOREM OneDaemon == Spec => []AtMostOneUp
<1>1. IInv => AtMostOneUp
  BY DEF IInv, LockInv, AtMostOneUp, Up
<1>2. QED
  BY <1>1, Invariance, PTL

\* Both platforms: who comes to lock() beside a daemon that is up yields.
THEOREM Yielding == Spec => []LateComersYield
<1>1. IInv => LateComersYield
  BY PlatformsAssumption DEF IInv, LockInv, MetInv, LateComersYield, Up, TypeOK
<1>2. QED
  BY <1>1, Invariance, PTL

\* --stop has the daemon it found among its targets, or a longer stale pid, if the
\* daemon could write its own.
THEOREM Stopping == Spec => []StopAimsAtDaemon
<1>1. IInv => StopAimsAtDaemon
  BY DEF IInv
<1>2. QED
  BY <1>1, Invariance, PTL
=============================================================================
