----------------------- MODULE SQLiteDataAccessProofs -----------------------
(***************************************************************************)
(* For every set of applications and instants, with SQLite errors, crashes *)
(* and restarts: the variables of SQLiteDataAccess have their types, no    *)
(* two rows overlap, every recorded instant has the application that was   *)
(* sampled then, rows stay within their hour, what was persisted is found, *)
(* and the table implements the activity log.                              *)
(*                                                                         *)
(* The rows alone do not say why: UPDATE picks its row by TIME_END.  The   *)
(* invariant therefore describes the entries on their way to the table,    *)
(* in the order in which they arrive there: last_entry, the worker's       *)
(* current one and the queue, each ended before the next begins, and all   *)
(* rows ended before any of them begins.                                   *)
(***************************************************************************)
EXTENDS SQLiteDataAccess, SequenceTheorems, TLAPS

Before(x, y) == x.end <= y.start /\ x.start < x.end

HasLast == last_entry # NoEntry
HasCurrent == worker = "persist"

\* A dead object has nothing pending.
ClosedIsEmpty ==
    db = "closed" => queue = << >> /\ ~HasCurrent /\ ~HasLast

\* An entry that may still change the table, or decide how it is changed.
Sane(x) ==
    /\ x \in Entry /\ x.start <= x.end
    /\ x.start < x.end => x \in saved
    /\ x = newest \/ Before(x, newest)

EntriesSane ==
    /\ HasLast => Sane(last_entry)
    /\ HasCurrent => Sane(current)
    /\ \A i \in 1..Len(queue) : Sane(queue[i])

NewestSane ==
    /\ newest.start <= newest.end
    /\ newest.app = NoApp => queue = << >> /\ ~HasCurrent /\ ~HasLast

CurrentInPlace ==
    /\ HasCurrent => \A i \in 1..Len(queue) : Before(current, queue[i])
    /\ ~HasCurrent => current = NoEntry

LastInPlace ==
    HasLast => /\ HasCurrent => Before(last_entry, current)
               /\ \A i \in 1..Len(queue) : Before(last_entry, queue[i])

QueueInPlace ==
    \A i, j \in 1..Len(queue) : i < j => Before(queue[i], queue[j])

RowsBehind ==
    \A r \in rows :
        /\ r.start <= r.end /\ r.end <= newest.end
        /\ HasLast => r.end <= last_entry.end
        /\ HasCurrent => r.end <= current.start
        /\ \A i \in 1..Len(queue) : r.end <= queue[i].start

\* The rows the next UPDATE may hit.
RowsAtLast ==
    HasLast => \A r \in rows : r.end = last_entry.end =>
        /\ r.start = r.end => last_entry.start = last_entry.end
        /\ last_entry.start < last_entry.end => r.app = last_entry.app

KeyUnique == \A r1, r2 \in rows : r1.start = r2.start => r1 = r2

PipelineInv ==
    /\ ClosedIsEmpty /\ EntriesSane /\ NewestSane
    /\ CurrentInPlace /\ LastInPlace /\ QueueInPlace

TableInv ==
    /\ RowsBehind /\ RowsAtLast /\ KeyUnique /\ NoOverlap /\ Attribution


-----------------------------------------------------------------------------
(***************************************************************************)
(* Types.                                                                  *)
(***************************************************************************)

TypeInv == TypeOK /\ (HasCurrent => current \in Entry)

LEMMA InitType == Init => TypeInv
<1> SUFFICES ASSUME Init PROVE TypeInv
  OBVIOUS
<1>1. queue \in Seq(Entry)
  BY EmptySeq DEF Init
<1>2. newest \in [start : Instant, end : Instant, app : Apps \cup {NoApp}]
  BY DEF Init, NoEntry, Instant
<1>3. QED
  BY <1>1, <1>2 DEF Init, TypeInv, TypeOK, HasCurrent

LEMMA PushType ==
  ASSUME TypeInv, NEW e \in Entry, Push(e)
  PROVE  TypeInv'
<1>1. queue' \in Seq(Entry)
  BY AppendProperties DEF Push, TypeInv, TypeOK
<1>2. newest' \in [start : Instant, end : Instant, app : Apps \cup {NoApp}]
  BY DEF Push, Entry, Instant
<1>3. QED
  BY <1>1, <1>2 DEF Push, TypeInv, TypeOK, HasCurrent

LEMMA NextType == TypeInv /\ [Next]_vars => TypeInv'
<1> SUFFICES ASSUME TypeInv, [Next]_vars PROVE TypeInv'
  OBVIOUS
<1> USE DEF TypeInv, HasCurrent
<1>1. CASE Open
  BY <1>1 DEF Open, TypeOK, NoEntry, Instant
<1>2. ASSUME NEW e \in Entry, SaveEntry(e) PROVE TypeInv'
  BY <1>2, PushType DEF SaveEntry
<1>3. CASE SaveNotify
  BY <1>3 DEF SaveNotify, TypeOK
<1>4. CASE WorkerDecideWait \/ WorkerWait \/ SpuriousWake \/ WorkerStop
  BY <1>4 DEF WorkerDecideWait, WorkerWait, SpuriousWake, WorkerStop, TypeOK
<1>5. CASE WorkerTake
  <2>1. Head(queue) \in Entry /\ Tail(queue) \in Seq(Entry)
    BY <1>5, HeadTailProperties DEF WorkerTake, TypeOK
  <2>2. QED
    BY <1>5, <2>1 DEF WorkerTake, TypeOK
<1>6. CASE persist_record
  <2>1. current \in Entry /\ rows \subseteq Entry
    BY <1>6 DEF persist_record, TypeOK
  <2>2. Extended(current) \subseteq Entry
    BY <2>1 DEF Extended, Entry
  <2>3. Inserted(current) \subseteq Entry
    BY <2>1 DEF Inserted
  <2>4. rows' \subseteq Entry /\ failed' \in BOOLEAN
    BY <1>6, <2>1, <2>2, <2>3 DEF persist_record, TypeOK, Continues
  <2>5. misread' \subseteq Time
    BY <1>6, <2>1 DEF persist_record, Misread, TypeOK, Entry
  <2>6. QED
    BY <1>6, <2>1, <2>4, <2>5 DEF persist_record, TypeOK
<1>7. CASE DtorClear \/ DtorNotify
  BY <1>7 DEF DtorClear, DtorNotify, TypeOK
<1>8. CASE DtorJoin \/ Crash
  <2>1. << >> \in Seq(Entry)
    BY EmptySeq
  <2>2. QED
    BY <1>8, <2>1 DEF DtorJoin, Crash, Forget, TypeOK
<1>9. CASE UNCHANGED vars
  BY <1>9 DEF vars, TypeOK
<1>10. QED
  BY <1>1, <1>2, <1>3, <1>4, <1>5, <1>6, <1>7, <1>8, <1>9
     DEF Next, WorkerStep, ClientStep

\* The variables keep their types: in particular the worker only ever binds
\* a real entry to a statement.
THEOREM TypeCorrect == Spec => []TypeOK
<1>1. Init => TypeInv
  BY InitType
<1>2. TypeInv /\ [Next]_vars => TypeInv'
  BY NextType
<1>3. TypeInv => TypeOK
  BY DEF TypeInv
<1>4. QED
  BY <1>1, <1>2, <1>3, PTL DEF Spec

-----------------------------------------------------------------------------
(***************************************************************************)
(* The entries on their way.                                               *)
(***************************************************************************)

IInv == TypeInv /\ PipelineInv /\ TableInv

\* A step that moves the threads but not the data.
Quiet ==
    /\ UNCHANGED <<queue, current, last_entry, rows, saved, newest>>
    /\ HasCurrent' = HasCurrent
    /\ db' = "closed" => db = "closed"

LEMMA QuietSteps ==
  ASSUME TypeInv,
         \/ SaveNotify \/ WorkerDecideWait \/ WorkerWait \/ SpuriousWake
         \/ WorkerStop \/ DtorClear \/ DtorNotify \/ UNCHANGED vars
  PROVE  Quiet
BY DEF Quiet, HasCurrent, SaveNotify, WorkerDecideWait, WorkerWait,
       SpuriousWake, WorkerStop, DtorClear, DtorNotify, vars

LEMMA QuietKeeps == IInv /\ Quiet => (PipelineInv /\ TableInv)'
<1> SUFFICES ASSUME IInv, Quiet PROVE (PipelineInv /\ TableInv)'
  OBVIOUS
<1> USE DEF IInv, Quiet
<1>1. PipelineInv'
  BY DEF PipelineInv, ClosedIsEmpty, EntriesSane, Sane, NewestSane,
         CurrentInPlace, LastInPlace, QueueInPlace, HasLast
<1>2. TableInv'
  BY DEF TableInv, RowsBehind, RowsAtLast, KeyUnique, NoOverlap, Attribution,
         Instants, HasLast
<1>3. QED
  BY <1>1, <1>2

\* Where times are compared they are natural numbers.
LEMMA EntryTimes ==
  ASSUME NEW x \in Entry
  PROVE  x.start \in Nat /\ x.end \in Nat /\ x.app \in Apps
BY TimeAssumption DEF Entry

LEMMA NewestTimes == TypeInv => newest.start \in Nat /\ newest.end \in Nat
<1> SUFFICES ASSUME TypeInv PROVE newest.start \in Nat /\ newest.end \in Nat
  OBVIOUS
<1>1. newest.start \in Instant /\ newest.end \in Instant
  BY DEF TypeInv, TypeOK
<1>2. \A t \in Instant : t \in Nat
  BY TimeAssumption DEF Instant
<1>3. QED
  BY <1>1, <1>2

LEMMA OpenKeeps == IInv /\ Open => (PipelineInv /\ TableInv)'
<1> SUFFICES ASSUME IInv, Open PROVE (PipelineInv /\ TableInv)'
  OBVIOUS
<1> USE DEF IInv, HasCurrent, HasLast
<1>1. /\ queue = << >> /\ queue' = << >> /\ last_entry' = NoEntry
      /\ worker' # "persist" /\ current' = current /\ current = NoEntry
  BY DEF Open, PipelineInv, ClosedIsEmpty, CurrentInPlace
<1>2. newest'.start = newest.end /\ newest'.end = newest.end
  BY DEF Open
<1>3. Len(queue') = 0
  BY <1>1
<1>4. PipelineInv'
  BY <1>1, <1>2, <1>3, NewestTimes
     DEF Open, PipelineInv, ClosedIsEmpty, EntriesSane, NewestSane,
         CurrentInPlace, LastInPlace, QueueInPlace
<1>5. TableInv'
  BY <1>1, <1>2, <1>3
     DEF Open, TableInv, RowsBehind, RowsAtLast, KeyUnique, NoOverlap,
         Attribution, Instants
<1>6. QED
  BY <1>4, <1>5

LEMMA ForgetKeeps == IInv /\ Forget => (PipelineInv /\ TableInv)'
<1> SUFFICES ASSUME IInv, Forget PROVE (PipelineInv /\ TableInv)'
  OBVIOUS
<1> USE DEF IInv, HasCurrent, HasLast
<1>1. Len(queue') = 0
  BY DEF Forget
<1>2. PipelineInv'
  BY <1>1 DEF Forget, PipelineInv, ClosedIsEmpty, EntriesSane, NewestSane,
              CurrentInPlace, LastInPlace, QueueInPlace
<1>3. TableInv'
  BY <1>1 DEF Forget, TableInv, RowsBehind, RowsAtLast, KeyUnique, NoOverlap,
              Attribution, Instants
<1>4. QED
  BY <1>2, <1>3

\* save_entry: the new entry joins at the far end.
LEMMA SaveEntryKeeps ==
  ASSUME IInv, NEW e \in Entry, SaveEntry(e)
  PROVE  (PipelineInv /\ TableInv)'
<1> USE DEF IInv, HasCurrent, HasLast
<1> DEFINE n == Len(queue)
<1>1. /\ queue \in Seq(Entry) /\ n \in Nat
      /\ Len(queue') = n + 1
      /\ \A i \in 1..n : queue'[i] = queue[i] /\ queue[i] \in Entry
      /\ queue'[n + 1] = e
  BY AppendProperties, LenProperties, ElementOfSeq
     DEF SaveEntry, Push, TypeInv, TypeOK
<1> HIDE DEF n
<1>2. \A i \in 1..Len(queue') :
         \/ i \in 1..n /\ queue'[i] = queue[i] /\ queue[i] \in Entry
         \/ i = n + 1 /\ queue'[i] = e
  BY <1>1
<1>3. /\ newest' = e /\ saved \subseteq saved'
      /\ e.start < e.end => e \in saved'
      /\ newest.end <= e.start /\ e.start <= e.end
      /\ newest.app # NoApp => newest.start < newest.end
      /\ UNCHANGED <<db, worker, current, last_entry, rows>> /\ db = "open"
  BY DEF SaveEntry, Push, Admissible
<1>4. /\ e.start \in Nat /\ e.end \in Nat /\ e.app # NoApp
      /\ newest.start \in Nat /\ newest.end \in Nat
  BY EntryTimes, NewestTimes, AppsAssumption
\* Whatever was pending ends before the new entry begins.
<1>5. ASSUME NEW x, Sane(x), newest.app # NoApp PROVE Before(x, e)
  BY <1>3, <1>4, <1>5, EntryTimes DEF Sane, Before
<1>6. \/ newest.app # NoApp
      \/ n = 0 /\ ~HasCurrent /\ ~HasLast
  BY <1>1 DEF PipelineInv, NewestSane, n
<1>7. /\ \A i \in 1..n : Before(queue[i], e)
      /\ HasCurrent => Before(current, e)
      /\ HasLast => Before(last_entry, e)
  BY <1>1, <1>5, <1>6 DEF PipelineInv, EntriesSane, n
<1>8. ASSUME NEW x, Sane(x), Before(x, e) PROVE Sane(x)'
  BY <1>3, <1>8 DEF Sane, Before
<1>9. EntriesSane'
  <2>1. Sane(e)'
    BY <1>3 DEF Sane
  <2>2. \A i \in 1..n : Sane(queue[i])
    BY DEF PipelineInv, EntriesSane, n
  <2>3. (\A i \in 1..Len(queue) : Sane(queue[i]))'
    BY <1>2, <1>7, <1>8, <2>1, <2>2, Zenon DEF Sane
  <2>4. QED
    BY <1>3, <1>7, <1>8, <2>3 DEF PipelineInv, EntriesSane, Sane
<1>10. ClosedIsEmpty' /\ NewestSane'
  BY <1>3, <1>4 DEF ClosedIsEmpty, NewestSane
<1>11. CurrentInPlace' /\ LastInPlace'
  BY <1>2, <1>3, <1>7 DEF PipelineInv, CurrentInPlace, LastInPlace, n
<1>12. QueueInPlace'
  BY <1>1, <1>2, <1>7 DEF PipelineInv, QueueInPlace, n
<1>13. RowsBehind'
  <2>1. \A r \in rows : r.end \in Nat /\ r.end <= newest.end
    BY EntryTimes DEF TypeInv, TypeOK, TableInv, RowsBehind
  <2>2. \A r \in rows : r.end <= e.start /\ r.end <= e.end
    BY <2>1, <1>3, <1>4
  <2>3. QED
    BY <1>2, <1>3, <2>2 DEF TableInv, RowsBehind, n
<1>14. RowsAtLast' /\ KeyUnique' /\ NoOverlap' /\ Attribution'
  BY <1>3 DEF TableInv, RowsAtLast, KeyUnique, NoOverlap, Attribution, Instants
<1>15. QED
  BY <1>9, <1>10, <1>11, <1>12, <1>13, <1>14 DEF PipelineInv, TableInv

\* The worker's pop moves the head of the queue into its hands.
LEMMA WorkerTakeKeeps == IInv /\ WorkerTake => (PipelineInv /\ TableInv)'
<1> SUFFICES ASSUME IInv, WorkerTake PROVE (PipelineInv /\ TableInv)'
  OBVIOUS
<1> USE DEF IInv, HasCurrent, HasLast
<1>1. /\ queue \in Seq(Entry) /\ queue # << >> /\ Len(queue) \in Nat
      /\ Len(queue') = Len(queue) - 1
      /\ \A i \in 1..Len(queue') : queue'[i] = queue[i + 1]
      /\ current' = queue[1] /\ Len(queue) > 0
  BY HeadTailProperties, LenProperties, EmptySeq DEF WorkerTake, TypeInv, TypeOK
<1>2. /\ \A i \in 1..Len(queue') :
            /\ i \in 1..Len(queue) /\ i + 1 \in 1..Len(queue)
            /\ 1 < i + 1 /\ queue'[i] = queue[i + 1]
      /\ 1 \in 1..Len(queue)
  BY <1>1
<1>3. /\ worker # "persist" /\ worker' = "persist"
      /\ UNCHANGED <<db, last_entry, rows, saved, newest>>
  BY DEF WorkerTake
<1>4. ClosedIsEmpty' /\ NewestSane'
  BY <1>1, <1>3 DEF PipelineInv, ClosedIsEmpty, NewestSane
<1>5. EntriesSane'
  BY <1>1, <1>2, <1>3 DEF PipelineInv, EntriesSane, Sane, Before
<1>6. CurrentInPlace'
  BY <1>1, <1>2, <1>3 DEF PipelineInv, CurrentInPlace, QueueInPlace, Before
<1>7. LastInPlace'
  BY <1>1, <1>2, <1>3 DEF PipelineInv, LastInPlace, Before
<1>8. QueueInPlace'
  <2>1. \A i, j \in 1..Len(queue') : i < j => i + 1 < j + 1
    BY <1>1
  <2>2. QED
    BY <1>2, <2>1 DEF PipelineInv, QueueInPlace, Before
<1>9. RowsBehind'
  BY <1>1, <1>2, <1>3 DEF TableInv, RowsBehind
<1>10. RowsAtLast' /\ KeyUnique' /\ NoOverlap' /\ Attribution'
  BY <1>3 DEF TableInv, RowsAtLast, KeyUnique, NoOverlap, Attribution, Instants
<1>11. QED
  BY <1>4, <1>5, <1>6, <1>7, <1>8, <1>9, <1>10 DEF PipelineInv, TableInv

-----------------------------------------------------------------------------
(***************************************************************************)
(* persist_record.                                                         *)
(***************************************************************************)

\* What the worker's entry e finds: all rows end before e begins, and if e
\* continues last_entry, at most one row ends where e begins, it belongs to
\* e's application and was sampled.
LEMMA CurrentFacts ==
  ASSUME IInv, HasCurrent
  PROVE  /\ current \in Entry /\ current.start <= current.end
         /\ current.start \in Nat /\ current.end \in Nat
         /\ \A r \in rows : r \in Entry /\ r.start \in Nat /\ r.end \in Nat
         /\ \A r \in rows : r.start <= r.end /\ r.end <= current.start
         /\ current.start < current.end => current \in saved
BY EntryTimes
   DEF IInv, TypeInv, TypeOK, PipelineInv, EntriesSane, Sane, TableInv,
       RowsBehind

LEMMA ContinuousFacts ==
  ASSUME IInv, HasCurrent, is_continuous(last_entry, current)
  PROVE  \A r \in rows : r.end = current.start =>
            /\ r.start < r.end /\ r.app = current.app
            /\ \A r2 \in rows : r2 # r => r2.end <= r.start
<1> USE DEF IInv
<1>1. HasLast
  BY CurrentFacts, EntryTimes, AppsAssumption DEF is_continuous, HasLast, NoEntry
<1>2. last_entry.start < last_entry.end
  BY <1>1 DEF PipelineInv, LastInPlace, Before
<1>3. last_entry.start \in Nat /\ last_entry.end \in Nat
  BY <1>1, EntryTimes DEF HasLast, TypeInv, TypeOK
<1>4. SUFFICES ASSUME NEW r \in rows, r.end = current.start
               PROVE  /\ r.start < r.end /\ r.app = current.app
                      /\ \A r2 \in rows : r2 # r => r2.end <= r.start
  OBVIOUS
<1>5. r.end = last_entry.end
  BY <1>4 DEF is_continuous
<1>6. r.start < r.end /\ r.app = last_entry.app
  BY <1>1, <1>2, <1>3, <1>5, CurrentFacts DEF TableInv, RowsAtLast
<1>7. ASSUME NEW r2 \in rows, r2 # r PROVE r2.end <= r.start
  <2>1. r2.end <= r.start \/ r.end <= r2.start
    BY <1>7 DEF TableInv, NoOverlap
  <2>2. ASSUME r.end <= r2.start PROVE FALSE
    <3>1. r2.start = r2.end /\ r2.end = last_entry.end
      BY <1>4, <1>5, <2>2, CurrentFacts
    <3>2. last_entry.start = last_entry.end
      BY <1>1, <3>1 DEF TableInv, RowsAtLast
    <3>3. QED
      BY <1>2, <1>3, <3>2
  <2>3. QED
    BY <2>1, <2>2
<1>8. QED
  BY <1>6, <1>7 DEF is_continuous

\* Facts about the table after the statement, whichever it was: everything
\* TableInv says, with current in the place of last_entry.
TableAfter(T) ==
    /\ \A r \in T :
         /\ r \in Entry /\ r.start <= r.end /\ r.end <= current.end
         /\ r.end = current.end /\ r.start = r.end => current.start = current.end
         /\ r.end = current.end /\ current.start < current.end =>
              r.app = current.app
    /\ \A r1, r2 \in T : r1.start = r2.start => r1 = r2
    /\ \A r1, r2 \in T : r1 # r2 => r1.end <= r2.start \/ r2.end <= r1.start
    /\ \A r \in T : \A t \in Instants(r) :
         \E s \in saved : t \in Instants(s) /\ s.app = r.app

LEMMA UnchangedAfter == ASSUME IInv, HasCurrent PROVE TableAfter(rows)
BY CurrentFacts DEF TableAfter, IInv, TableInv, KeyUnique, NoOverlap, Attribution

LEMMA InsertedAfter == ASSUME IInv, HasCurrent PROVE TableAfter(Inserted(current))
<1>1. CASE \E r \in rows : r.start = current.start
  BY <1>1, UnchangedAfter DEF Inserted
<1>2. CASE ~ \E r \in rows : r.start = current.start
  <2> DEFINE T == rows \cup {current}
  <2>1. Inserted(current) = T
    BY <1>2 DEF Inserted
  <2>2. \A r \in T :
         /\ r \in Entry /\ r.start <= r.end /\ r.end <= current.end
         /\ r.end = current.end /\ r.start = r.end => current.start = current.end
         /\ r.end = current.end /\ current.start < current.end =>
              r.app = current.app
    BY CurrentFacts
  <2>3. \A r1, r2 \in T : r1.start = r2.start => r1 = r2
    BY <1>2 DEF IInv, TableInv, KeyUnique
  <2>4. \A r1, r2 \in T : r1 # r2 => r1.end <= r2.start \/ r2.end <= r1.start
    BY CurrentFacts DEF IInv, TableInv, NoOverlap
  <2>5. \A t \in Instants(current) : current.start < current.end
    BY CurrentFacts, TimeAssumption DEF Instants
  <2>6. \A r \in T : \A t \in Instants(r) :
         \E s \in saved : t \in Instants(s) /\ s.app = r.app
    BY <2>5, CurrentFacts DEF IInv, TableInv, Attribution
  <2>7. QED
    BY <2>1, <2>2, <2>3, <2>4, <2>6 DEF TableAfter
<1>3. QED
  BY <1>1, <1>2

LEMMA ExtendedAfter ==
  ASSUME IInv, HasCurrent, is_continuous(last_entry, current)
  PROVE  TableAfter(Extended(current))
<1> DEFINE U(r) == IF r.end = current.start THEN [r EXCEPT !.end = current.end]
                                            ELSE r
           T == Extended(current)
<1>1. T = {U(r) : r \in rows}
  BY DEF Extended
\* What became of each row.
<1>2. \A r \in rows :
        /\ U(r) \in Entry /\ U(r).start = r.start /\ U(r).app = r.app
        /\ \/ r.end # current.start /\ U(r) = r
           \/ r.end = current.start /\ U(r).end = current.end
  BY CurrentFacts DEF Entry
<1> HIDE DEF U, T
<1>3. \A r \in T : \E q \in rows : r = U(q)
  BY <1>1
<1>4. ASSUME NEW q \in rows
      PROVE  /\ U(q).start <= U(q).end /\ U(q).end <= current.end
             /\ U(q).end = current.end /\ U(q).start = U(q).end =>
                  current.start = current.end
             /\ U(q).end = current.end /\ current.start < current.end =>
                  U(q).app = current.app
  <2>1. CASE q.end # current.start
    BY <2>1, <1>2, CurrentFacts
  <2>2. CASE q.end = current.start
    BY <2>2, <1>2, CurrentFacts, ContinuousFacts
  <2>3. QED
    BY <2>1, <2>2
<1>5. ASSUME NEW q1 \in rows, NEW q2 \in rows, U(q1).start = U(q2).start
      PROVE  U(q1) = U(q2)
  BY <1>2, <1>5 DEF IInv, TableInv, KeyUnique
<1>6. ASSUME NEW q1 \in rows, NEW q2 \in rows, U(q1) # U(q2)
      PROVE  U(q1).end <= U(q2).start \/ U(q2).end <= U(q1).start
  <2>1. q1 # q2
    BY <1>6
  <2>2. CASE q1.end = current.start
    <3>1. q2.end <= q1.start
      BY <2>1, <2>2, ContinuousFacts
    <3>2. q2.end # current.start
      BY <2>2, <3>1, CurrentFacts, ContinuousFacts
    <3>3. QED
      BY <1>2, <3>1, <3>2
  <2>3. CASE q2.end = current.start
    <3>1. q1.end <= q2.start
      BY <2>1, <2>3, ContinuousFacts
    <3>2. q1.end # current.start
      BY <2>3, <3>1, CurrentFacts, ContinuousFacts
    <3>3. QED
      BY <1>2, <3>1, <3>2
  <2>4. CASE q1.end # current.start /\ q2.end # current.start
    BY <1>2, <2>1, <2>4 DEF IInv, TableInv, NoOverlap
  <2>5. QED
    BY <2>2, <2>3, <2>4
<1>7. ASSUME NEW q \in rows, NEW t \in Instants(U(q))
      PROVE  \E s \in saved : t \in Instants(s) /\ s.app = U(q).app
  <2>1. CASE t \in Instants(q)
    BY <1>2, <2>1 DEF IInv, TableInv, Attribution
  <2>2. CASE t \notin Instants(q)
    <3>1. /\ t \in Time /\ t \in Nat /\ U(q).start <= t /\ t < U(q).end
      BY TimeAssumption DEF Instants
    <3>2. q.end = current.start /\ U(q).end = current.end /\ q.start <= t
      BY <1>2, <2>2, <3>1 DEF Instants
    <3>3. current.start <= t /\ t < current.end
      BY <2>2, <3>1, <3>2, CurrentFacts DEF Instants
    <3>4. current \in saved /\ t \in Instants(current)
      BY <3>1, <3>3, CurrentFacts DEF Instants
    <3>5. U(q).app = current.app
      BY <1>2, <3>2, ContinuousFacts
    <3>6. QED
      BY <3>4, <3>5
  <2>3. QED
    BY <2>1, <2>2
<1>8. /\ \A r \in T :
         /\ r \in Entry /\ r.start <= r.end /\ r.end <= current.end
         /\ r.end = current.end /\ r.start = r.end => current.start = current.end
         /\ r.end = current.end /\ current.start < current.end =>
              r.app = current.app
  BY <1>2, <1>3, <1>4
<1>9. \A r1, r2 \in T : r1.start = r2.start => r1 = r2
  BY <1>3, <1>5
<1>10. \A r1, r2 \in T : r1 # r2 => r1.end <= r2.start \/ r2.end <= r1.start
  BY <1>3, <1>6
<1>11. \A r \in T : \A t \in Instants(r) :
         \E s \in saved : t \in Instants(s) /\ s.app = r.app
  BY <1>3, <1>7
<1>12. QED
  BY <1>8, <1>9, <1>10, <1>11 DEF TableAfter, T

LEMMA PersistKeeps == IInv /\ persist_record => (PipelineInv /\ TableInv)'
<1> SUFFICES ASSUME IInv, persist_record PROVE (PipelineInv /\ TableInv)'
  OBVIOUS
<1>1. /\ HasCurrent /\ ~HasCurrent' /\ last_entry' = current
      /\ current' = NoEntry
      /\ UNCHANGED <<db, queue, saved, newest>>
  BY DEF persist_record, HasCurrent
<1>2. TableAfter(rows')
  BY <1>1, UnchangedAfter, InsertedAfter, ExtendedAfter DEF persist_record, Continues
<1>3. /\ \A i \in 1..Len(queue) : Before(current, queue[i])
      /\ Sane(current)
  BY <1>1 DEF IInv, PipelineInv, CurrentInPlace, EntriesSane
<1>4. PipelineInv'
  <2>1. ClosedIsEmpty' /\ NewestSane'
    BY <1>1 DEF IInv, PipelineInv, ClosedIsEmpty, NewestSane
  <2>2. EntriesSane'
    BY <1>1, <1>3 DEF IInv, PipelineInv, EntriesSane, Sane
  <2>3. CurrentInPlace' /\ LastInPlace' /\ QueueInPlace'
    BY <1>1, <1>3
       DEF IInv, PipelineInv, CurrentInPlace, LastInPlace, QueueInPlace, Before
  <2>4. QED
    BY <2>1, <2>2, <2>3 DEF PipelineInv
<1>5. RowsBehind'
  <2>1. current.end <= newest.end
    BY <1>1, <1>3, CurrentFacts, NewestTimes
       DEF Sane, Before, IInv, PipelineInv, NewestSane
  <2>2. \A r \in rows' : r.end \in Nat /\ r.start <= r.end /\ r.end <= current.end
    BY <1>2, EntryTimes DEF TableAfter
  <2>3. \A r \in rows' : r.end <= newest.end
    BY <1>1, <2>1, <2>2, CurrentFacts, NewestTimes DEF IInv
  <2>4. ASSUME NEW r \in rows', NEW i \in 1..Len(queue)
        PROVE  r.end <= queue[i].start
    <3>1. queue[i] \in Entry
      BY ElementOfSeq DEF IInv, TypeInv, TypeOK
    <3>2. QED
      BY <1>1, <1>3, <2>2, <3>1, EntryTimes, CurrentFacts DEF Before
  <2>5. QED
    BY <1>1, <2>2, <2>3, <2>4 DEF RowsBehind
<1>6. RowsAtLast' /\ KeyUnique' /\ NoOverlap' /\ Attribution'
  BY <1>1, <1>2
     DEF TableAfter, RowsAtLast, KeyUnique, NoOverlap, Attribution, Instants
<1>7. QED
  BY <1>4, <1>5, <1>6 DEF TableInv

-----------------------------------------------------------------------------
LEMMA InitIInv == Init => IInv
<1> SUFFICES ASSUME Init PROVE IInv
  OBVIOUS
<1>1. Len(queue) = 0
  BY DEF Init
<1>2. PipelineInv
  BY <1>1 DEF Init, NoEntry, PipelineInv, ClosedIsEmpty, EntriesSane,
              NewestSane, CurrentInPlace, LastInPlace, QueueInPlace,
              HasCurrent, HasLast
<1>3. TableInv
  BY DEF Init, TableInv, RowsBehind, RowsAtLast, KeyUnique, NoOverlap, Attribution
<1>4. QED
  BY <1>2, <1>3, InitType DEF IInv

LEMMA NextIInv == IInv /\ [Next]_vars => IInv'
<1> SUFFICES ASSUME IInv, [Next]_vars PROVE IInv'
  OBVIOUS
<1>1. TypeInv'
  BY NextType DEF IInv
<1>2. (PipelineInv /\ TableInv)'
  <2>1. CASE Open
    BY <2>1, OpenKeeps
  <2>2. CASE \E e \in Entry : SaveEntry(e)
    BY <2>2, SaveEntryKeeps
  <2>3. CASE WorkerTake
    BY <2>3, WorkerTakeKeeps
  <2>4. CASE persist_record
    BY <2>4, PersistKeeps
  <2>5. CASE DtorJoin \/ Crash
    BY <2>5, ForgetKeeps DEF DtorJoin, Crash
  <2>6. CASE \/ SaveNotify \/ WorkerDecideWait \/ WorkerWait \/ SpuriousWake
             \/ WorkerStop \/ DtorClear \/ DtorNotify \/ UNCHANGED vars
    <3>1. TypeInv
      BY DEF IInv
    <3>2. Quiet
      BY <2>6, <3>1, QuietSteps
    <3>3. QED
      BY <3>2, QuietKeeps
  <2>7. QED
    BY <2>1, <2>2, <2>3, <2>4, <2>5, <2>6 DEF Next, WorkerStep, ClientStep
<1>3. QED
  BY <1>1, <1>2 DEF IInv

LEMMA Invariance == Spec => []IInv
BY InitIInv, NextIInv, PTL DEF Spec

\* No instant is counted in two rows, whatever fails and whenever the process
\* dies: the UPDATE keyed by TIME_END never extends a row into another.
THEOREM RowsDisjoint == Spec => []NoOverlap
<1>1. IInv => NoOverlap
  BY DEF IInv, TableInv
<1>2. QED
  BY <1>1, Invariance, PTL

\* A row never claims an instant for an application that was not sampled
\* then, even after an INSERT whose failure persist_record does not notice.
THEOREM RowsTruthful == Spec => []Attribution
<1>1. IInv => Attribution
  BY DEF IInv, TableInv
<1>2. QED
  BY <1>1, Invariance, PTL

-----------------------------------------------------------------------------
(***************************************************************************)
(* The hours.  The UPDATE compares the hour of the sample with that of the *)
(* one before, not with that of the row: the invariant has to say that the *)
(* row it hits holds the start of the sample before.  When another thread  *)
(* overwrites the result of localtime and two different hours are read as  *)
(* one, the sample is in misread, and the row is excused from there on.    *)
(***************************************************************************)

SavedInOrder ==
    /\ \A s \in saved : s.start < s.end /\ s.end <= newest.end
    /\ \A s1, s2 \in saved : s1 # s2 => s1.end <= s2.start \/ s2.end <= s1.start

\* The sample s of the row r is in the row's hour, or comes after a misreading.
KeepsHour(r, s, M) ==
    \/ tm_hour(s.start) = tm_hour(r.start)
    \/ \E t \in M : r.start < t /\ t <= s.start

\* The row that ends where last_entry does holds its start.
RowHoldsLast ==
    HasLast /\ last_entry.start < last_entry.end =>
        \A r \in rows : r.end = last_entry.end => r.start <= last_entry.start

HourInv == SavedInOrder /\ RowHoldsLast /\ RowsWithinHour

LEMMA SavedTimes ==
    ASSUME IInv
    PROVE  \A s \in saved : s.start \in Nat /\ s.end \in Nat
BY EntryTimes DEF IInv, TypeInv, TypeOK

LEMMA RowTimes ==
    ASSUME IInv
    PROVE  \A r \in rows : /\ r.start \in Nat /\ r.end \in Nat
                           /\ r.start <= r.end /\ r.end <= newest.end
BY EntryTimes DEF IInv, TypeInv, TypeOK, TableInv, RowsBehind

LEMMA SaveEntryHours ==
    ASSUME IInv, HourInv, NEW e \in Entry, SaveEntry(e)
    PROVE  HourInv'
<1>1. /\ saved' = saved \cup {f \in {e} : f.start < f.end} /\ newest' = e
      /\ newest.end <= e.start /\ e.start <= e.end
      /\ UNCHANGED <<last_entry, rows, misread>>
  BY DEF SaveEntry, Push, Admissible
<1>2. newest.end \in Nat /\ e.start \in Nat /\ e.end \in Nat
  BY EntryTimes, NewestTimes DEF IInv
<1>3. \A s \in saved' : s \in saved \/ (s = e /\ e.start < e.end)
  BY <1>1
<1>4. SavedInOrder'
  <2>1. \A s \in saved : s.start < s.end /\ s.end <= e.start /\ s.end <= e.end
    BY <1>1, <1>2, SavedTimes DEF HourInv, SavedInOrder
  <2>2. \A s \in saved' : s.start < s.end /\ s.end <= e.end
    BY <1>2, <1>3, <2>1
  <2>3. \A s1, s2 \in saved' : s1 # s2 => s1.end <= s2.start \/ s2.end <= s1.start
    BY <1>3, <2>1 DEF HourInv, SavedInOrder
  <2>4. QED
    BY <1>1, <2>2, <2>3 DEF SavedInOrder
<1>5. RowHoldsLast'
  BY <1>1 DEF HourInv, RowHoldsLast, HasLast
<1>6. RowsWithinHour'
  <2> SUFFICES ASSUME NEW r \in rows, NEW s \in saved',
                      r.start <= s.start, s.start < r.end
               PROVE  KeepsHour(r, s, misread)
    BY <1>1 DEF RowsWithinHour, KeepsHour, tm_hour
  <2>1. s # e
    BY <1>1, <1>2, RowTimes, NewestTimes DEF IInv
  <2>2. QED
    BY <1>3, <2>1 DEF HourInv, RowsWithinHour, KeepsHour
<1>7. QED
  BY <1>4, <1>5, <1>6 DEF HourInv

\* Only the current entry was sampled while it lasted.
LEMMA OnlyCurrent ==
    ASSUME IInv, HourInv, HasCurrent, NEW s \in saved,
           current.start <= s.start, s.start < current.end
    PROVE  s = current
<1>1. current.start < current.end /\ current \in saved
  BY CurrentFacts, SavedTimes
<1>2. s.start < s.end
  BY DEF HourInv, SavedInOrder
<1>3. QED
  BY <1>1, <1>2, CurrentFacts, SavedTimes DEF HourInv, SavedInOrder

\* What a statement leaves, current being the last entry from then on and M
\* what was misread until then.
HoursAfter(T, M) ==
    /\ \A r \in T, s \in saved : r.start <= s.start /\ s.start < r.end => KeepsHour(r, s, M)
    /\ current.start < current.end =>
         \A r \in T : r.end = current.end => r.start <= current.start

LEMMA UnchangedHours ==
    ASSUME IInv, HourInv, HasCurrent, NEW M, misread \subseteq M
    PROVE  HoursAfter(rows, M)
BY CurrentFacts DEF HoursAfter, HourInv, RowsWithinHour, KeepsHour

LEMMA InsertHours ==
    ASSUME IInv, HourInv, HasCurrent, NEW M, misread \subseteq M
    PROVE  HoursAfter(Inserted(current), M)
<1>1. \A r \in Inserted(current) : r \in rows \/ r = current
  BY DEF Inserted
<1>2. ASSUME NEW s \in saved, current.start <= s.start, s.start < current.end
      PROVE  KeepsHour(current, s, M)
  BY <1>2, OnlyCurrent DEF KeepsHour
<1>3. QED
  BY <1>1, <1>2, UnchangedHours, CurrentFacts DEF HoursAfter

LEMMA ExtendHours ==
    ASSUME IInv, HourInv, HasCurrent, is_continuous(last_entry, current),
           NEW M \in SUBSET Nat, misread \subseteq M,
           tm_hour(last_entry.start) = tm_hour(current.start) \/ current.start \in M
    PROVE  HoursAfter(Extended(current), M)
<1> DEFINE U(r) == IF r.end = current.start THEN [r EXCEPT !.end = current.end] ELSE r
<1>1. \A q \in Extended(current) : \E r \in rows : q = U(r)
  BY DEF Extended
<1>2. \A r \in rows :
        /\ U(r).start = r.start
        /\ \/ r.end # current.start /\ U(r) = r
           \/ r.end = current.start /\ U(r).end = current.end
  BY CurrentFacts DEF Entry
<1>3. /\ HasLast /\ last_entry.start < last_entry.end
      /\ last_entry.end = current.start /\ last_entry \in saved
      /\ last_entry.start \in Nat /\ last_entry.end \in Nat
  <2>1. HasLast /\ last_entry.end = current.start
    BY CurrentFacts, EntryTimes, AppsAssumption DEF is_continuous, HasLast, NoEntry
  <2>2. last_entry.start < last_entry.end
    BY <2>1 DEF IInv, PipelineInv, LastInPlace, Before
  <2>3. QED
    BY <2>1, <2>2, SavedTimes DEF IInv, PipelineInv, EntriesSane, Sane
<1> HIDE DEF U
<1>4. ASSUME NEW r \in rows, NEW s \in saved, U(r).start <= s.start, s.start < U(r).end
      PROVE  KeepsHour(U(r), s, M)
  <2>1. CASE U(r) = r
    BY <1>4, <2>1 DEF HourInv, RowsWithinHour, KeepsHour
  <2>2. CASE U(r) # r /\ s.start < r.end
    BY <1>2, <1>4, <2>2 DEF HourInv, RowsWithinHour, KeepsHour
  <2>3. CASE U(r) # r /\ ~(s.start < r.end)
    <3>1. r.end = current.start /\ current.start <= s.start /\ s.start < current.end
      BY <1>2, <1>4, <2>3, SavedTimes, CurrentFacts
    <3>2. s = current
      BY <3>1, OnlyCurrent
    <3>3. r.start <= last_entry.start /\ last_entry.start < r.end
      BY <1>3, <3>1 DEF HourInv, RowHoldsLast
    <3>4. KeepsHour(r, last_entry, M)
      BY <1>3, <3>3 DEF HourInv, RowsWithinHour, KeepsHour
    <3>5. /\ r.start \in Nat /\ current.start \in Nat
          /\ last_entry.start < current.start
      BY <1>3, RowTimes, CurrentFacts
    <3>6. CASE current.start \in M
      BY <1>2, <3>2, <3>3, <3>5, <3>6, <1>3 DEF KeepsHour
    <3>7. CASE tm_hour(last_entry.start) = tm_hour(current.start)
      <4>1. CASE tm_hour(last_entry.start) = tm_hour(r.start)
        BY <1>2, <3>2, <3>7, <4>1 DEF KeepsHour
      <4>2. CASE \E t \in M : r.start < t /\ t <= last_entry.start
        <5>1. PICK t \in M : r.start < t /\ t <= last_entry.start
          BY <4>2
        <5>2. r.start < t /\ t <= current.start
          BY <5>1, <3>5, <1>3
        <5>3. QED
          BY <1>2, <3>2, <5>2 DEF KeepsHour
      <4>3. QED
        BY <3>4, <4>1, <4>2 DEF KeepsHour
    <3>8. QED
      BY <3>6, <3>7
  <2>4. QED
    BY <2>1, <2>2, <2>3
<1>5. ASSUME NEW r \in rows, current.start < current.end, U(r).end = current.end
      PROVE  U(r).start <= current.start
  BY <1>2, <1>5, CurrentFacts
<1>6. QED
  BY <1>1, <1>4, <1>5 DEF HoursAfter

LEMMA PersistHours ==
    ASSUME IInv, HourInv, persist_record
    PROVE  HourInv'
<1>1. HasCurrent /\ last_entry' = current /\ UNCHANGED <<saved, newest>>
  BY DEF persist_record, HasCurrent
<1>2. PICK h1, h2 :
        /\ rows' \in {rows, IF Continues(h1, h2) THEN Extended(current) ELSE Inserted(current)}
        /\ misread' = misread \cup Misread(h1, h2)
  BY DEF persist_record
<1>3. misread \subseteq misread' /\ misread' \in SUBSET Nat
  BY <1>1, <1>2, CurrentFacts, TimeAssumption DEF Misread, IInv, TypeInv, TypeOK
<1>4. HoursAfter(rows', misread')
  <2>1. CASE rows' \in {rows, Inserted(current)}
    BY <1>1, <1>3, <2>1, UnchangedHours, InsertHours
  <2>2. CASE Continues(h1, h2) /\ rows' = Extended(current)
    <3>1. is_continuous(last_entry, current)
      BY <2>2 DEF Continues
    <3>2. tm_hour(last_entry.start) = tm_hour(current.start) \/ current.start \in misread'
      BY <1>2, <2>2 DEF Continues, Misread
    <3>3. QED
      BY <1>1, <1>3, <2>2, <3>1, <3>2, ExtendHours
  <2>3. QED
    BY <1>2, <2>1, <2>2
<1>5. SavedInOrder'
  BY <1>1 DEF HourInv, SavedInOrder
<1>6. RowHoldsLast' /\ RowsWithinHour'
  BY <1>1, <1>4 DEF HoursAfter, RowHoldsLast, RowsWithinHour, KeepsHour, tm_hour
<1>7. QED
  BY <1>5, <1>6 DEF HourInv

LEMMA InitHours == Init => HourInv
BY DEF Init, HourInv, SavedInOrder, RowHoldsLast, RowsWithinHour, HasLast

LEMMA NextHours ==
    ASSUME IInv, HourInv, [Next]_vars
    PROVE  HourInv'
<1>1. CASE \E e \in Entry : SaveEntry(e)
  BY <1>1, SaveEntryHours
<1>2. CASE persist_record
  BY <1>2, PersistHours
<1>3. CASE Open
  BY <1>3 DEF Open, HourInv, SavedInOrder, RowHoldsLast, RowsWithinHour, HasLast, tm_hour
<1>4. CASE DtorJoin \/ Crash
  BY <1>4 DEF DtorJoin, Crash, Forget, HourInv, SavedInOrder, RowHoldsLast,
              RowsWithinHour, HasLast, tm_hour
<1>5. CASE \/ SaveNotify \/ WorkerDecideWait \/ WorkerWait \/ SpuriousWake \/ WorkerStop
           \/ WorkerTake \/ DtorClear \/ DtorNotify \/ UNCHANGED vars
  <2>1. UNCHANGED <<last_entry, rows, saved, newest, misread>>
    BY <1>5 DEF SaveNotify, WorkerDecideWait, WorkerWait, SpuriousWake, WorkerStop,
                WorkerTake, DtorClear, DtorNotify, vars
  <2>2. QED
    BY <2>1 DEF HourInv, SavedInOrder, RowHoldsLast, RowsWithinHour, HasLast, tm_hour
<1>6. QED
  BY <1>1, <1>2, <1>3, <1>4, <1>5 DEF Next, WorkerStep, ClientStep

\* A row keeps to the hour it started in (sqlitedataaccess.cc:267-268) over
\* failures, crashes and restarts, up to a sample compared by misread hours.
THEOREM HoursKept == Spec => []RowsWithinHour
<1>1. Init => HourInv
  BY InitHours
<1>2. IInv /\ HourInv /\ [Next]_vars => HourInv'
  BY NextHours
<1>3. HourInv => RowsWithinHour
  BY DEF HourInv
<1>4. QED
  BY <1>1, <1>2, <1>3, Invariance, PTL DEF Spec

-----------------------------------------------------------------------------
(***************************************************************************)
(* Nothing is missing.  The UPDATE finds its row by TIME_END, and that row *)
(* is there only if the sample before was recorded; an INSERT is refused   *)
(* only by an empty row with the same key.  The invariant says which of    *)
(* the two became of the last entry.                                       *)
(***************************************************************************)

\* The row that took the last entry in, at its start or by an extension.
RowHolds(T, e) == \E r \in T : r.end = e.end /\ r.start <= e.start

\* An empty row that refused the key of the run e belongs to: no row is later.
KeyTaken(T, e) ==
    \E z \in T : z.start = z.end /\ z.end <= e.start /\ \A r \in T : r.end <= z.end

LastRecorded ==
    HasLast /\ ~failed => RowHolds(rows, last_entry) \/ KeyTaken(rows, last_entry)

LEMMA InsertRecords ==
    ASSUME IInv, HasCurrent
    PROVE  RowHolds(Inserted(current), current) \/ KeyTaken(Inserted(current), current)
<1>1. CASE \E r \in rows : r.start = current.start
  <2>1. PICK z \in rows : z.start = current.start
    BY <1>1
  <2>2. z.end = current.start /\ \A r \in rows : r.end <= z.end
    BY <2>1, CurrentFacts
  <2>3. KeyTaken(rows, current)
    BY <2>1, <2>2, CurrentFacts DEF KeyTaken
  <2>4. QED
    BY <1>1, <2>3 DEF Inserted
<1>2. CASE ~ \E r \in rows : r.start = current.start
  BY <1>2, CurrentFacts DEF Inserted, RowHolds
<1>3. QED
  BY <1>1, <1>2

LEMMA ExtendRecords ==
    ASSUME IInv, HasCurrent, is_continuous(last_entry, current),
           RowHolds(rows, last_entry) \/ KeyTaken(rows, last_entry)
    PROVE  RowHolds(Extended(current), current) \/ KeyTaken(Extended(current), current)
<1>1. /\ HasLast /\ last_entry.start < last_entry.end
      /\ last_entry.end = current.start
      /\ last_entry.start \in Nat /\ last_entry.end \in Nat
  <2>1. HasLast /\ last_entry.end = current.start
    BY CurrentFacts, EntryTimes, AppsAssumption DEF is_continuous, HasLast, NoEntry
  <2>2. last_entry.start < last_entry.end
    BY <2>1 DEF IInv, PipelineInv, LastInPlace, Before
  <2>3. QED
    BY <2>1, <2>2, EntryTimes DEF HasLast, IInv, TypeInv, TypeOK
<1>2. CASE RowHolds(rows, last_entry)
  <2>1. PICK r \in rows : r.end = current.start /\ r.start <= last_entry.start
    BY <1>1, <1>2 DEF RowHolds
  <2> DEFINE q == [r EXCEPT !.end = current.end]
  <2>2. q.end = current.end /\ q.start <= current.start
    BY <1>1, <2>1, CurrentFacts DEF Entry
  <2>3. q \in Extended(current)
    BY <2>1 DEF Extended
  <2>4. QED
    BY <2>2, <2>3 DEF RowHolds
<1>3. CASE KeyTaken(rows, last_entry)
  <2>1. PICK z \in rows : /\ z.start = z.end /\ z.end <= last_entry.start
                         /\ \A r \in rows : r.end <= z.end
    BY <1>3 DEF KeyTaken
  <2>2. \A r \in rows : r.end # current.start
    BY <1>1, <2>1, CurrentFacts
  <2>3. Extended(current) = rows
    BY <2>2 DEF Extended
  <2>4. z.end <= current.start
    BY <1>1, <2>1, CurrentFacts
  <2>5. QED
    BY <2>1, <2>3, <2>4 DEF KeyTaken
<1>4. QED
  BY <1>2, <1>3

LEMMA NextRecorded == IInv /\ LastRecorded /\ [Next]_vars => LastRecorded'
<1> SUFFICES ASSUME IInv, LastRecorded, [Next]_vars PROVE LastRecorded'
  OBVIOUS
<1>1. CASE persist_record
  <2>1. HasCurrent /\ last_entry' = current
    BY <1>1 DEF persist_record, HasCurrent
  <2>2. SUFFICES ASSUME ~failed'
                 PROVE  RowHolds(rows', current) \/ KeyTaken(rows', current)
    BY <2>1 DEF LastRecorded, RowHolds, KeyTaken
  <2>3. /\ ~failed
        /\ \/ rows' = Inserted(current)
           \/ rows' = Extended(current) /\ is_continuous(last_entry, current)
    BY <1>1, <2>2 DEF persist_record, Continues
  <2>4. CASE rows' = Inserted(current)
    BY <2>1, <2>4, InsertRecords
  <2>5. CASE rows' = Extended(current) /\ is_continuous(last_entry, current)
    <3>1. HasLast
      BY <2>1, <2>5, CurrentFacts, EntryTimes, AppsAssumption
         DEF is_continuous, HasLast, NoEntry
    <3>2. QED
      BY <2>1, <2>3, <2>5, <3>1, ExtendRecords DEF LastRecorded
  <2>6. QED
    BY <2>3, <2>4, <2>5
<1>2. CASE Open \/ DtorJoin \/ Crash
  BY <1>2 DEF Open, DtorJoin, Crash, Forget, LastRecorded, HasLast
<1>3. CASE \/ \E e \in Entry : SaveEntry(e)
           \/ SaveNotify \/ WorkerDecideWait \/ WorkerWait \/ SpuriousWake \/ WorkerStop
           \/ WorkerTake \/ DtorClear \/ DtorNotify \/ UNCHANGED vars
  <2>1. UNCHANGED <<last_entry, rows, failed>>
    BY <1>3 DEF SaveEntry, Push, SaveNotify, WorkerDecideWait, WorkerWait, SpuriousWake,
                WorkerStop, WorkerTake, DtorClear, DtorNotify, vars
  <2>2. QED
    BY <2>1 DEF LastRecorded, RowHolds, KeyTaken, HasLast
<1>4. QED
  BY <1>1, <1>2, <1>3 DEF Next, WorkerStep, ClientStep

LEMMA RecordedHolds == IInv /\ LastRecorded => Recorded
<1> SUFFICES ASSUME IInv, LastRecorded, last_entry # NoEntry, ~failed
             PROVE  \/ Instants(last_entry) \subseteq Covered
                    \/ \E z \in rows : /\ z.start = z.end /\ z.end <= last_entry.start
                                       /\ \A t \in Covered : t < z.end
  BY DEF Recorded
<1>1. last_entry.start \in Nat /\ last_entry.end \in Nat
  BY EntryTimes DEF IInv, TypeInv, TypeOK
<1>2. CASE RowHolds(rows, last_entry)
  <2>1. PICK r \in rows : r.end = last_entry.end /\ r.start <= last_entry.start
    BY <1>2 DEF RowHolds
  <2>2. \A t \in Time : last_entry.start <= t => r.start <= t
    BY <1>1, <2>1, RowTimes, TimeAssumption
  <2>3. Instants(last_entry) \subseteq Instants(r)
    BY <2>1, <2>2 DEF Instants
  <2>4. QED
    BY <2>3 DEF Covered
<1>3. CASE KeyTaken(rows, last_entry)
  <2>1. PICK z \in rows : /\ z.start = z.end /\ z.end <= last_entry.start
                         /\ \A r \in rows : r.end <= z.end
    BY <1>3 DEF KeyTaken
  <2>2. ASSUME NEW t \in Covered PROVE t < z.end
    <3>1. PICK r \in rows : t \in Instants(r)
      BY DEF Covered
    <3>2. t \in Nat /\ t < r.end
      BY <3>1, TimeAssumption DEF Instants
    <3>3. QED
      BY <2>1, <3>2, RowTimes
  <2>3. QED
    BY <2>1, <2>2
<1>4. QED
  BY <1>2, <1>3 DEF LastRecorded, HasLast

\* While no statement fails, a sample that went through persist_record is in
\* the table, or an empty row of an earlier session held its run's key and
\* the table says nothing from there on (sqlitedataaccess.cc:265-289).
THEOREM RecordedKept == Spec => []Recorded
<1>1. Init => LastRecorded
  BY DEF Init, LastRecorded, HasLast
<1>2. QED
  BY <1>1, NextRecorded, RecordedHolds, Invariance, PTL DEF Spec

-----------------------------------------------------------------------------
(***************************************************************************)
(* The table is the append-only log.  What a row says of an instant        *)
(* does not depend on how its row is looked up, since rows do not overlap; *)
(* a statement that changes the log adds the worker's entry at the end of  *)
(* it, since all rows end before that entry begins.                        *)
(***************************************************************************)

\* The log that a table T stands for.
LogOf(T) ==
    [t \in UNION {Instants(r) : r \in T} |-> (CHOOSE r \in T : t \in Instants(r)).app]

LEMMA InstantsTimes ==
    ASSUME NEW r \in Entry, NEW t \in Instants(r)
    PROVE  t \in Time /\ t \in Nat /\ r.start <= t /\ t < r.end
BY TimeAssumption DEF Instants

\* In a table without overlaps, an instant has the application of any row it
\* is in.
LEMMA LookUp ==
    ASSUME NEW T, T \subseteq Entry,
           \A r1, r2 \in T : r1 # r2 => r1.end <= r2.start \/ r2.end <= r1.start,
           NEW r \in T, NEW t \in Instants(r)
    PROVE  t \in DOMAIN LogOf(T) /\ LogOf(T)[t] = r.app
<1> DEFINE c == CHOOSE q \in T : t \in Instants(q)
<1>1. c \in T /\ t \in Instants(c)
  OBVIOUS
<1>2. c = r
  <2>1. /\ t \in Nat /\ r.start <= t /\ t < r.end /\ c.start <= t /\ t < c.end
        /\ r.start \in Nat /\ r.end \in Nat /\ c.start \in Nat /\ c.end \in Nat
    BY <1>1, InstantsTimes, EntryTimes
  <2>2. QED
    BY <1>1, <2>1
<1>3. t \in UNION {Instants(q) : q \in T}
  OBVIOUS
<1>4. QED
  BY <1>2, <1>3 DEF LogOf

\* How a statement may change the log: not at all, or by the run of current.
Grown(T) ==
    \/ LogOf(T) = LogOf(rows)
    \/ /\ current.start < current.end
       /\ LogOf(T) = [t \in DOMAIN LogOf(rows) \cup Instants(current) |->
                        IF t \in DOMAIN LogOf(rows) THEN LogOf(rows)[t] ELSE current.app]

\* The log is older than current.
LEMMA LogBehind ==
    ASSUME IInv, HasCurrent
    PROVE  \A t \in DOMAIN LogOf(rows) : t \in Nat /\ t < current.start
<1> SUFFICES ASSUME NEW t \in DOMAIN LogOf(rows) PROVE t \in Nat /\ t < current.start
  OBVIOUS
<1>1. PICK r \in rows : t \in Instants(r)
  BY DEF LogOf
<1>2. QED
  BY <1>1, CurrentFacts, InstantsTimes

\* A table whose rows say what the rows say, and beyond them what current
\* says, is the log grown by current.
LEMMA SaysTheSame ==
    ASSUME IInv, HasCurrent, NEW T, TableAfter(T), NEW more \in SUBSET Instants(current),
           \A t : (\E r \in T : t \in Instants(r)) <=>
                  (\E r \in rows : t \in Instants(r)) \/ t \in more,
           \A r \in rows : \A t \in Instants(r) :
               \E q \in T : t \in Instants(q) /\ q.app = r.app,
           \A t \in more : \E q \in T : t \in Instants(q) /\ q.app = current.app
    PROVE  LogOf(T) = [t \in DOMAIN LogOf(rows) \cup more |->
                         IF t \in DOMAIN LogOf(rows) THEN LogOf(rows)[t] ELSE current.app]
<1> DEFINE old == LogOf(rows)
<1>1. DOMAIN LogOf(T) = DOMAIN old \cup more
  BY DEF LogOf
<1>2. /\ T \subseteq Entry
      /\ \A r1, r2 \in T : r1 # r2 => r1.end <= r2.start \/ r2.end <= r1.start
  BY DEF TableAfter
<1>3. /\ rows \subseteq Entry
      /\ \A r1, r2 \in rows : r1 # r2 => r1.end <= r2.start \/ r2.end <= r1.start
  BY CurrentFacts DEF IInv, TableInv, NoOverlap
<1>4. ASSUME NEW t \in DOMAIN old PROVE LogOf(T)[t] = old[t]
  <2>1. PICK r \in rows : t \in Instants(r)
    BY DEF LogOf
  <2>2. old[t] = r.app
    BY <1>3, <2>1, LookUp
  <2>3. PICK q \in T : t \in Instants(q) /\ q.app = r.app
    BY <2>1
  <2>4. LogOf(T)[t] = q.app
    BY <1>2, <2>3, LookUp
  <2>5. QED
    BY <2>2, <2>3, <2>4
<1>5. ASSUME NEW t \in more PROVE LogOf(T)[t] = current.app
  <2>1. PICK q \in T : t \in Instants(q) /\ q.app = current.app
    OBVIOUS
  <2>2. QED
    BY <1>2, <2>1, LookUp
<1>6. LogOf(T) = [t \in DOMAIN LogOf(T) |-> LogOf(T)[t]]
  BY DEF LogOf
<1>7. QED
  BY <1>1, <1>4, <1>5, <1>6

\* The same with nothing more.
LEMMA SaysNoMore ==
    ASSUME IInv, HasCurrent, NEW T, TableAfter(T),
           \A t : (\E r \in T : t \in Instants(r)) <=> (\E r \in rows : t \in Instants(r)),
           \A r \in rows : \A t \in Instants(r) :
               \E q \in T : t \in Instants(q) /\ q.app = r.app
    PROVE  LogOf(T) = LogOf(rows)
<1> DEFINE more == {}
<1>1. /\ more \in SUBSET Instants(current)
      /\ \A t : (\E r \in T : t \in Instants(r)) <=>
                (\E r \in rows : t \in Instants(r)) \/ t \in more
      /\ \A t \in more : \E q \in T : t \in Instants(q) /\ q.app = current.app
  OBVIOUS
<1>2. LogOf(T) = [t \in DOMAIN LogOf(rows) \cup more |->
                    IF t \in DOMAIN LogOf(rows) THEN LogOf(rows)[t] ELSE current.app]
  <2> HIDE DEF more
  <2>1. QED
    BY <1>1, SaysTheSame
<1>3. LogOf(rows) = [t \in DOMAIN LogOf(rows) |-> LogOf(rows)[t]]
  BY DEF LogOf
<1>4. QED
  BY <1>2, <1>3

-----------------------------------------------------------------------------
(***************************************************************************)
(* The two statements.                                                     *)
(***************************************************************************)

LEMMA InsertGrows == ASSUME IInv, HasCurrent PROVE Grown(Inserted(current))
<1> DEFINE T == Inserted(current)
<1>1. CASE \E r \in rows : r.start = current.start
  BY <1>1 DEF Inserted, Grown
<1>2. CASE ~ \E r \in rows : r.start = current.start
  <2>1. T = rows \cup {current}
    BY <1>2 DEF Inserted
  <2>2. TableAfter(T)
    BY InsertedAfter
  <2> HIDE DEF T
  <2>3. \A r \in rows : \A t \in Instants(r) :
          \E q \in T : t \in Instants(q) /\ q.app = r.app
    BY <2>1
  <2>4. CASE current.start < current.end
    <3> DEFINE more == Instants(current)
    <3>1. /\ more \in SUBSET Instants(current)
          /\ \A t : (\E r \in T : t \in Instants(r)) <=>
                    (\E r \in rows : t \in Instants(r)) \/ t \in more
          /\ \A t \in more : \E q \in T : t \in Instants(q) /\ q.app = current.app
      BY <2>1
    <3>2. LogOf(T) = [t \in DOMAIN LogOf(rows) \cup more |->
                        IF t \in DOMAIN LogOf(rows) THEN LogOf(rows)[t] ELSE current.app]
      <4> HIDE DEF more
      <4>1. QED
        BY <2>2, <2>3, <3>1, SaysTheSame
    <3>3. QED
      BY <2>4, <3>2 DEF Grown, T
  <2>5. CASE ~(current.start < current.end)
    <3>1. \A t : t \notin Instants(current)
      BY <2>5, CurrentFacts, InstantsTimes
    <3>2. \A t : (\E r \in T : t \in Instants(r)) <=> (\E r \in rows : t \in Instants(r))
      BY <2>1, <3>1
    <3>3. LogOf(T) = LogOf(rows)
      BY <2>2, <2>3, <3>2, SaysNoMore
    <3>4. QED
      BY <3>3 DEF Grown, T
  <2>6. QED
    BY <2>4, <2>5
<1>3. QED
  BY <1>1, <1>2

LEMMA ExtendGrows ==
    ASSUME IInv, HasCurrent, is_continuous(last_entry, current)
    PROVE  Grown(Extended(current))
<1> DEFINE U(r) == IF r.end = current.start THEN [r EXCEPT !.end = current.end] ELSE r
           T == Extended(current)
<1>1. T = {U(r) : r \in rows}
  BY DEF Extended
<1>2. CASE \A r \in rows : U(r) = r
  <2>1. T = rows
    BY <1>1, <1>2
  <2>2. QED
    BY <2>1 DEF Grown
<1>3. CASE ~ \A r \in rows : U(r) = r
  <2>1. PICK x \in rows : U(x) # x
    BY <1>3
  <2>2. x.end = current.start /\ U(x) = [x EXCEPT !.end = current.end]
    BY <2>1
  <2>3. current.start < current.end
    <3>1. CASE current.start = current.end
      BY <2>1, <2>2, <3>1, CurrentFacts DEF Entry
    <3>2. QED
      BY <3>1, CurrentFacts
  <2>4. ASSUME NEW r \in rows
        PROVE  /\ U(r).app = r.app
               /\ Instants(r) \subseteq Instants(U(r))
               /\ Instants(U(r)) \subseteq Instants(r) \cup Instants(current)
               /\ r.end = current.start => Instants(current) \subseteq Instants(U(r))
    <3>1. CASE r.end = current.start
      <4>1. /\ U(r).start = r.start /\ U(r).app = r.app /\ U(r).end = current.end
            /\ r.start <= r.end
        BY <3>1, CurrentFacts DEF Entry
      <4>2. \A t \in Time : t \in Nat
        BY TimeAssumption
      <4> HIDE DEF U
      <4>3. QED
        BY <3>1, <4>1, <4>2, <2>3, CurrentFacts DEF Instants
    <3>2. CASE r.end # current.start
      BY <3>2
    <3>3. QED
      BY <3>1, <3>2
  <2>5. U(x).app = current.app
    BY <2>2, <2>4, ContinuousFacts
  <2>6. TableAfter(T)
    BY ExtendedAfter
  <2> DEFINE more == Instants(current)
  <2> HIDE DEF U, T
  <2>7. \A r \in rows : \A t \in Instants(r) :
          \E q \in T : t \in Instants(q) /\ q.app = r.app
    BY <1>1, <2>4
  <2>8. \A t \in more : \E q \in T : t \in Instants(q) /\ q.app = current.app
    BY <1>1, <2>2, <2>4, <2>5
  <2>9. \A t : (\E r \in T : t \in Instants(r)) <=>
               (\E r \in rows : t \in Instants(r)) \/ t \in more
    BY <1>1, <2>4, <2>7, <2>8
  <2>10. LogOf(T) = [t \in DOMAIN LogOf(rows) \cup more |->
                       IF t \in DOMAIN LogOf(rows) THEN LogOf(rows)[t] ELSE current.app]
    <3>1. more \in SUBSET Instants(current)
      OBVIOUS
    <3> HIDE DEF more
    <3>2. QED
      BY <2>6, <2>7, <2>8, <2>9, <3>1, SaysTheSame
  <2>11. QED
    BY <2>3, <2>10 DEF Grown, T
<1>4. QED
  BY <1>2, <1>3

-----------------------------------------------------------------------------
(***************************************************************************)
(* The refinement.                                                         *)
(***************************************************************************)

LEMMA RecordingIsLog == Recording = LogOf(rows) /\ Recording' = LogOf(rows')
BY DEF Recording, Covered, LogOf, Instants

LEMMA InitLog == Init => Log!Init
<1> SUFFICES ASSUME Init PROVE Recording = << >>
  BY DEF Log!Init
<1>1. Covered = {}
  BY DEF Init, Covered
<1>2. QED
  BY <1>1 DEF Recording

LEMMA NextLog == IInv /\ [Next]_vars => [Log!Next]_Recording
<1> SUFFICES ASSUME IInv, [Next]_vars PROVE [Log!Next]_Recording
  OBVIOUS
<1>1. CASE persist_record
  <2>1. HasCurrent
    BY <1>1 DEF persist_record, HasCurrent
  <2>2. Grown(rows')
    <3>1. Grown(rows)
      BY DEF Grown
    <3>2. QED
      BY <1>1, <2>1, <3>1, InsertGrows, ExtendGrows DEF persist_record, Continues
  <2>3. CASE LogOf(rows') = LogOf(rows)
    BY <2>3, RecordingIsLog
  <2>4. CASE LogOf(rows') # LogOf(rows)
    <3>1. /\ current.start < current.end
          /\ LogOf(rows') = [t \in DOMAIN LogOf(rows) \cup Instants(current) |->
               IF t \in DOMAIN LogOf(rows) THEN LogOf(rows)[t] ELSE current.app]
      BY <2>2, <2>4 DEF Grown
    <3>2. Instants(current) = {u \in Time : current.start <= u /\ u < current.end}
      BY DEF Instants
    <3>3. \A t \in DOMAIN LogOf(rows) : t < current.start
      BY <2>1, LogBehind
    <3>4. Log!Record(current.start, current.end, current.app)
      BY <3>1, <3>2, <3>3, RecordingIsLog DEF Log!Record
    <3>5. current.start \in Time /\ current.end \in Time /\ current.app \in Apps
      BY <2>1, CurrentFacts DEF Entry
    <3>6. QED
      BY <3>4, <3>5 DEF Log!Next
  <2>5. QED
    BY <2>3, <2>4
<1>2. CASE ~persist_record
  <2>1. rows' = rows
    BY <1>2 DEF Next, WorkerStep, ClientStep, Open, SaveEntry, Push, SaveNotify,
                WorkerDecideWait, WorkerWait, SpuriousWake, WorkerStop, WorkerTake,
                DtorClear, DtorNotify, DtorJoin, Crash, Forget, vars
  <2>2. QED
    BY <2>1, RecordingIsLog
<1>3. QED
  BY <1>1, <1>2

\* Whatever fails and whenever the process dies, the table only grows as the
\* log may: no statement changes or withdraws what an earlier one recorded,
\* and an UPDATE adds at the end of the log (sqlitedataaccess.cc:86-90).
THEOREM Implementation == Spec => ImplementsActivityLog
<1>1. QED
  BY InitLog, NextLog, Invariance, PTL DEF Spec, ImplementsActivityLog, Log!Spec

-----------------------------------------------------------------------------
(***************************************************************************)
(* The two threads wait for each other in the right way.  WF_vars speaks   *)
(* of ENABLED, which the prover does not have: that a thread can go on     *)
(* where its guards hold is a hypothesis, GuardsEnable.                    *)
(***************************************************************************)

\* An open object has its worker, and a worker that waits has nothing to do
\* or is about to be notified.
WakeInv ==
    /\ db = "open" => is_running /\ worker # "done"
    /\ is_running => db = "open"
    /\ worker = "none" <=> db = "closed"
    /\ saver = "notify" => db = "open"
    /\ worker = "tested" => queue = << >>
    /\ worker = "waiting" /\ queue # << >> => saver = "notify"

WorkerCan ==
    \/ worker \in {"tested", "persist"}
    \/ worker = "loop" /\ (is_running => queue # << >>)

GuardsEnable ==
    /\ WorkerCan => ENABLED <<WorkerStep>>_vars
    /\ saver = "notify" => ENABLED <<SaveNotify>>_vars
    /\ db = "notify" => ENABLED <<DtorNotify>>_vars
    /\ db = "join" /\ worker = "done" => ENABLED <<DtorJoin>>_vars

LEMMA InitWake == Init => WakeInv
BY DEF Init, WakeInv

LEMMA NextWake == TypeOK /\ WakeInv /\ [Next]_vars => WakeInv'
<1> SUFFICES ASSUME TypeOK, WakeInv, [Next]_vars
             PROVE  WakeInv'
  OBVIOUS
<1> USE DEF WakeInv
<1>1. CASE Open \/ SaveNotify \/ DtorClear \/ DtorNotify
  BY <1>1 DEF Open, SaveNotify, DtorClear, DtorNotify, TypeOK
<1>2. ASSUME NEW e \in Entry, SaveEntry(e)
      PROVE  WakeInv'
  BY <1>2 DEF SaveEntry, Push
<1>3. CASE DtorJoin \/ Crash
  BY <1>3 DEF DtorJoin, Crash, Forget
<1>4. CASE WorkerDecideWait \/ WorkerWait \/ WorkerStop \/ SpuriousWake
  BY <1>4 DEF WorkerDecideWait, WorkerWait, WorkerStop, SpuriousWake
<1>5. CASE WorkerTake \/ persist_record
  BY <1>5 DEF WorkerTake, persist_record
<1>6. CASE UNCHANGED vars
  BY <1>6 DEF vars
<1>7. QED
  BY <1>1, <1>2, <1>3, <1>4, <1>5, <1>6 DEF Next, WorkerStep, ClientStep

Live == [][Next]_vars /\ [](TypeOK /\ WakeInv) /\ []GuardsEnable /\ Fairness

\* What a step may do to the places the threads are in.
LEMMA ThreadsMove ==
    ASSUME TypeOK, WakeInv, [Next]_vars, db' # "closed", db # "closed"
    PROVE  /\ \/ worker' = worker
              \/ worker = "loop" /\ worker' \in {"tested", "persist", "done"}
              \/ worker = "tested" /\ worker' = "waiting"
              \/ worker \in {"waiting", "persist"} /\ worker' = "loop"
           /\ worker = "loop" /\ worker' = "tested" => queue = << >>
           /\ worker = "loop" /\ worker' \in {"tested", "persist"} => is_running
           /\ worker = "loop" /\ worker' = "done" => ~is_running
           /\ queue # << >> /\ worker # "loop" => queue' # << >>
           /\ queue # << >> /\ worker = "loop" /\ worker' = "loop" => queue' # << >>
           /\ \/ db' = db /\ is_running' = is_running
              \/ db = "open" /\ db' = "notify"
              \/ db = "notify" /\ db' = "join" /\ is_running' = is_running
           /\ saver = "notify" /\ saver' # "notify" => worker' # "waiting"
<1>1. CASE Open \/ SaveNotify \/ DtorClear \/ DtorNotify
  BY <1>1 DEF Open, SaveNotify, DtorClear, DtorNotify, TypeOK
<1>2. ASSUME NEW e \in Entry, SaveEntry(e)
      PROVE  /\ UNCHANGED <<worker, db, is_running>>
             /\ queue' # << >> /\ saver' = "notify"
  <2>1. queue' = Append(queue, e) /\ queue \in Seq(Entry)
    BY <1>2 DEF SaveEntry, Push, TypeOK
  <2>2. Len(queue') = Len(queue) + 1 /\ Len(queue) \in Nat
    BY <2>1, AppendProperties, LenProperties
  <2>3. QED
    BY <1>2, <2>2 DEF SaveEntry, Push
<1>3. CASE DtorJoin \/ Crash
  BY <1>3 DEF DtorJoin, Crash, Forget
<1>4. CASE WorkerDecideWait \/ WorkerWait \/ WorkerStop \/ SpuriousWake
  BY <1>4 DEF WorkerDecideWait, WorkerWait, WorkerStop, SpuriousWake
<1>5. CASE WorkerTake \/ persist_record
  BY <1>5 DEF WorkerTake, persist_record
<1>6. CASE UNCHANGED vars
  BY <1>6 DEF vars
<1>7. QED
  BY <1>1, <1>2, <1>3, <1>4, <1>5, <1>6 DEF Next, WorkerStep, ClientStep

\* While entries wait, the worker turns to the head of the queue, again and
\* again: it never waits with something to do and nobody to notify it.  (That
\* the queue is empty at times, Drains, needs pushes to pause.)
THEOREM WorkerServes ==
    FairSpec /\ []GuardsEnable =>
        (queue # << >> ~> worker = "persist" \/ db # "open")
<1> DEFINE Due(w) == db = "open" /\ queue # << >> /\ worker = w
           Served == worker = "persist" \/ db # "open"
<1>1. Live => (Due("loop") ~> Served)
  <2>1. TypeOK /\ WakeInv /\ Due("loop") /\ [Next]_vars => Due("loop")' \/ (Served)'
    BY ThreadsMove DEF WakeInv
  <2>2. TypeOK /\ WakeInv /\ Due("loop") /\ <<WorkerStep>>_vars => (Served)'
    BY DEF WorkerStep, WorkerDecideWait, WorkerWait, WorkerTake, WorkerStop, persist_record, WakeInv
  <2>3. TypeOK /\ WakeInv /\ Due("loop") /\ GuardsEnable => ENABLED <<WorkerStep>>_vars
    BY DEF GuardsEnable, WorkerCan, WakeInv
  <2>4. QED
    BY <2>1, <2>2, <2>3, PTL DEF Live, Fairness
<1>2. Live => (Due("waiting") ~> Due("loop") \/ Served)
  <2>1. TypeOK /\ WakeInv /\ Due("waiting") /\ [Next]_vars => Due("waiting")' \/ (Due("loop") \/ Served)'
    BY ThreadsMove DEF WakeInv
  <2>2. TypeOK /\ WakeInv /\ Due("waiting") /\ <<SaveNotify>>_vars => (Due("loop") \/ Served)'
    BY DEF SaveNotify, WakeInv
  <2>3. TypeOK /\ WakeInv /\ Due("waiting") /\ GuardsEnable => ENABLED <<SaveNotify>>_vars
    BY DEF GuardsEnable, WorkerCan, WakeInv
  <2>4. QED
    BY <2>1, <2>2, <2>3, PTL DEF Live, Fairness
<1>3. TypeOK /\ WakeInv /\ queue # << >> => Due("loop") \/ Due("waiting") \/ Served
  BY DEF TypeOK, WakeInv
<1>4. FairSpec /\ []GuardsEnable => Live
  BY InitType, NextType, InitWake, NextWake, PTL DEF FairSpec, Spec, Live, TypeInv
<1>5. QED
  BY <1>1, <1>2, <1>3, <1>4, PTL DEF Live

\* The destructor, once it has cleared is_running, ends the worker and itself,
\* unless its notification came between the worker's test and its wait: then
\* both wait (sqlitedataaccess.cc:147), which the run stop_hang shows of the
\* process.
THEOREM DestructorEnds ==
    FairSpec /\ []GuardsEnable =>
        (db \in {"notify", "join"} ~> db = "closed" \/ (db = "join" /\ worker = "waiting"))
<1> DEFINE At(w) == db = "join" /\ worker = w
           Stopping == db = "notify"
           Joining == db = "join"
           Ended == db = "closed"
           Over == Ended \/ At("waiting")
<1>1. Live => (Stopping ~> Joining \/ Ended)
  <2>1. TypeOK /\ WakeInv /\ Stopping /\ [Next]_vars => Stopping' \/ (Joining \/ Ended)'
    BY ThreadsMove DEF WakeInv
  <2>2. TypeOK /\ WakeInv /\ Stopping /\ <<DtorNotify>>_vars => (Joining \/ Ended)'
    BY DEF DtorNotify
  <2>3. TypeOK /\ WakeInv /\ Stopping /\ GuardsEnable => ENABLED <<DtorNotify>>_vars
    BY DEF GuardsEnable, WorkerCan, WakeInv
  <2>4. QED
    BY <2>1, <2>2, <2>3, PTL DEF Live, Fairness
<1>2. Live => (At("persist") ~> At("loop") \/ Over)
  <2>1. TypeOK /\ WakeInv /\ At("persist") /\ [Next]_vars => At("persist")' \/ (At("loop") \/ Over)'
    BY ThreadsMove DEF WakeInv
  <2>2. TypeOK /\ WakeInv /\ At("persist") /\ <<WorkerStep>>_vars => (At("loop") \/ Over)'
    BY DEF WorkerStep, WorkerDecideWait, WorkerWait, WorkerTake, WorkerStop, persist_record, WakeInv
  <2>3. TypeOK /\ WakeInv /\ At("persist") /\ GuardsEnable => ENABLED <<WorkerStep>>_vars
    BY DEF GuardsEnable, WorkerCan, WakeInv
  <2>4. QED
    BY <2>1, <2>2, <2>3, PTL DEF Live, Fairness
<1>3. Live => (At("loop") ~> At("done") \/ Over)
  <2>1. TypeOK /\ WakeInv /\ At("loop") /\ [Next]_vars => At("loop")' \/ (At("done") \/ Over)'
    BY ThreadsMove DEF WakeInv
  <2>2. TypeOK /\ WakeInv /\ At("loop") /\ <<WorkerStep>>_vars => (At("done") \/ Over)'
    BY DEF WorkerStep, WorkerDecideWait, WorkerWait, WorkerTake, WorkerStop, persist_record, WakeInv
  <2>3. TypeOK /\ WakeInv /\ At("loop") /\ GuardsEnable => ENABLED <<WorkerStep>>_vars
    BY DEF GuardsEnable, WorkerCan, WakeInv
  <2>4. QED
    BY <2>1, <2>2, <2>3, PTL DEF Live, Fairness
<1>4. Live => (At("tested") ~> Over)
  <2>1. TypeOK /\ WakeInv /\ At("tested") /\ [Next]_vars => At("tested")' \/ (Over)'
    BY ThreadsMove DEF WakeInv
  <2>2. TypeOK /\ WakeInv /\ At("tested") /\ <<WorkerStep>>_vars => (Over)'
    BY DEF WorkerStep, WorkerDecideWait, WorkerWait, WorkerTake, WorkerStop, persist_record, WakeInv
  <2>3. TypeOK /\ WakeInv /\ At("tested") /\ GuardsEnable => ENABLED <<WorkerStep>>_vars
    BY DEF GuardsEnable, WorkerCan, WakeInv
  <2>4. QED
    BY <2>1, <2>2, <2>3, PTL DEF Live, Fairness
<1>5. Live => (At("done") ~> Over)
  <2>1. TypeOK /\ WakeInv /\ At("done") /\ [Next]_vars => At("done")' \/ (Over)'
    BY ThreadsMove DEF WakeInv
  <2>2. TypeOK /\ WakeInv /\ At("done") /\ <<DtorJoin>>_vars => (Over)'
    BY DEF DtorJoin, Forget
  <2>3. TypeOK /\ WakeInv /\ At("done") /\ GuardsEnable => ENABLED <<DtorJoin>>_vars
    BY DEF GuardsEnable, WorkerCan, WakeInv
  <2>4. QED
    BY <2>1, <2>2, <2>3, PTL DEF Live, Fairness
<1>6. TypeOK /\ WakeInv /\ Joining =>
        At("persist") \/ At("loop") \/ At("tested") \/ At("done") \/ Over
  BY DEF TypeOK, WakeInv
<1>7. FairSpec /\ []GuardsEnable => Live
  BY InitType, NextType, InitWake, NextWake, PTL DEF FairSpec, Spec, Live, TypeInv
<1>8. db \in {"notify", "join"} => Stopping \/ Joining
  OBVIOUS
<1>9. QED
  BY <1>1, <1>2, <1>3, <1>4, <1>5, <1>6, <1>7, <1>8, PTL DEF Live
=============================================================================
