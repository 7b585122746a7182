--------------------------- MODULE PluginsProofs ---------------------------
(***************************************************************************)
(* Theorems about Plugins, for all paths, ranks, names and buffer lengths: *)
(* one library of each name is in use, the buffers keep their lengths,     *)
(* suspension comes before every update, and a higher rank is called first.*)
(***************************************************************************)
EXTENDS Plugins, FunctionTheorems, FiniteSetTheorems, TLAPS

\* The libraries a configuration can be asked about.
Known == {f \in Library : f.name \in PluginNames}

LoadInv ==
    /\ dirs \in Seq(SUBSET Known)
    /\ config \in [PluginNames -> [enabled : BOOLEAN, rank : Ranks \cup {NoRank}]]
    /\ plugins \in Seq(Known)
    /\ phase # "load" => SortedByRank(plugins)

Phases == {"load", "ready", "ask", "update", "stored", "suspended"}

Characters == STRING \cup {"web"}

\* Both names fit their buffers.
Fits(b) ==
    \E a, t \in Seq(Characters) : b = <<a, t>> /\ Len(a) <= AppLen /\ Len(t) <= TitleLen

BufferInv ==
    /\ phase \in Phases /\ next \in 0..Len(plugins) + 1
    /\ phase = "load" => next = 0
    /\ buf = << >> \/ Fits(buf)
    /\ phase \in {"ask", "update"} => next >= 1 /\ Fits(buf)

\* The first n plugins have been asked about the names reported, and declined.
Asked(n) == heard = {<<plugins[i], Copied(given), FALSE>> : i \in 1..n}

AskInv ==
    /\ phase = "ask" => buf = Copied(given) /\ Asked(next - 1)
    /\ phase \in {"update", "stored"} => Asked(Len(plugins))

\* Updates are called from the first plugin on, none left out.
CallInv ==
    /\ phase \notin {"update", "stored"} => called = << >>
    /\ called \in Seq(Known) /\ Len(called) <= Len(plugins)
    /\ \A i \in 1..Len(called) : called[i] = plugins[i]
    /\ phase = "update" /\ next <= Len(plugins) => Len(called) = next - 1

PInv == LoadInv /\ BufferInv /\ AskInv /\ CallInv

-----------------------------------------------------------------------------
LEMMA CutFits ==
    ASSUME NEW s \in Seq(Characters), NEW n \in Nat
    PROVE  Cut(s, n) \in Seq(Characters) /\ Len(Cut(s, n)) <= n
BY DEF Cut

LEMMA CopiedFits ==
    ASSUME NEW names \in Names
    PROVE  Fits(Copied(names))
<1>1. names[1] \in Seq(Characters) /\ names[2] \in Seq(Characters)
  <2>1. names[1] \in Seq(STRING) /\ names[2] \in Seq(STRING)
    BY NamesAssumption
  <2>2. QED
    BY <2>1 DEF Characters
<1>2. QED
  BY <1>1, CutFits, LengthsAssumption DEF Copied, Fits

\* Whatever an update leaves fits the buffers, and breaks off or not.
LEMMA UpdateFits ==
    ASSUME Fits(buf), NEW f, NEW u \in Updates(f)
    PROVE  Fits(u[1]) /\ u[2] \in BOOLEAN
<1>1. PICK a \in Seq(Characters), t \in Seq(Characters) :
        buf = <<a, t>> /\ Len(a) <= AppLen /\ Len(t) <= TitleLen
  BY DEF Fits
<1>2. CASE u = <<buf, FALSE>>
  BY <1>2
<1>3. CASE u = <<<<buf[1], Cut(<<"web">> \o Cut(buf[2], AppLen + 1), TitleLen)>>, FALSE>>
  <2>1. Cut(t, AppLen + 1) \in Seq(Characters)
    BY CutFits, LengthsAssumption
  <2>2. <<"web">> \o Cut(t, AppLen + 1) \in Seq(Characters)
    <3>1. <<"web">> \in Seq(Characters)
      BY DEF Characters
    <3>2. QED
      BY <2>1, <3>1
  <2>3. QED
    BY <1>1, <1>3, <2>2, CutFits, LengthsAssumption DEF Fits
<1>4. CASE u \in ({buf} \cup {Copied(n) : n \in Names}) \X BOOLEAN
  BY <1>4, CopiedFits
<1>5. QED
  BY <1>2, <1>3, <1>4 DEF Updates

LEMMA LibrariesKnown == Paths \in Seq(SUBSET Known)
<1>1. ASSUME NEW i \in 1..Len(Paths)
      PROVE  Paths[i] \subseteq Known
  <2>1. Paths[i] \subseteq Libraries
    BY PathsAssumption DEF Libraries, Range
  <2>2. Paths[i] \subseteq Library
    BY PathsAssumption
  <2>3. QED
    BY <2>1, <2>2 DEF Known, PluginNames
<1>2. QED
  BY <1>1, PathsAssumption

LEMMA RankedKnown ==
    ASSUME LoadInv, NEW f \in Known
    PROVE  Ranked(f) \in Known
<1>1. CASE config[f.name].rank = NoRank
  BY <1>1 DEF Ranked
<1>2. CASE config[f.name].rank # NoRank
  <2>1. config[f.name].rank \in Int
    <3>1. f.name \in PluginNames
      BY DEF Known
    <3>2. config[f.name] \in [enabled : BOOLEAN, rank : Ranks \cup {NoRank}]
      BY <3>1 DEF LoadInv
    <3>3. config[f.name].rank \in Ranks \cup {NoRank}
      BY <3>2
    <3>4. ASSUME NEW r \in Ranks \cup {NoRank}, r # NoRank
          PROVE  r \in Int
      BY <3>4, RanksAssumption
    <3>5. QED
      BY <1>2, <3>3, <3>4
  <2>2. [f EXCEPT !.rank = config[f.name].rank] \in Library
    BY <2>1 DEF Known, Library
  <2>3. [f EXCEPT !.rank = config[f.name].rank].name = f.name
    BY DEF Known, Library
  <2>4. QED
    BY <1>2, <2>2, <2>3 DEF Ranked, Known
<1>3. QED
  BY <1>1, <1>2

-----------------------------------------------------------------------------
LEMMA InitPInv == Init => PInv
<1> SUFFICES ASSUME Init PROVE PInv
  OBVIOUS
<1>1. LoadInv
  BY LibrariesKnown DEF Init, LoadInv
<1>2. BufferInv /\ AskInv /\ CallInv
  BY DEF Init, BufferInv, AskInv, CallInv, Phases
<1>3. QED
  BY <1>1, <1>2 DEF PInv

LEMMA KeepPlugins ==
    ASSUME LoadInv, Keep
    PROVE  plugins' \in Seq(Known) /\ SortedByRank(plugins')
<1> DEFINE I == {i \in 1..Len(plugins) : config[plugins[i].name].enabled}
           rankedOf == [i \in I |-> Ranked(plugins[i])]
           kept == {Ranked(plugins[i]) : i \in I}
<1>1. kept \subseteq Known
  BY RankedKnown DEF LoadInv
<1>2. IsFiniteSet(kept)
  <2>1. IsFiniteSet(I)
    BY FS_Interval, FS_Subset DEF LoadInv
  <2>2. rankedOf \in Surjection(I, kept)
    BY DEF Surjection
  <2>3. QED
    BY <2>1, <2>2, FS_Surjection
<1>3. PICK s \in SetToSeqs(kept) : SortedByRank(s) /\ plugins' = s
  BY DEF Keep
<1>4. s \in [1..Cardinality(kept) -> kept]
  BY <1>3 DEF SetToSeqs
<1>5. Cardinality(kept) \in Nat
  BY <1>2, FS_CardinalityType
<1>6. s \in Seq(Known)
  <2> DEFINE n == Cardinality(kept)
  <2>1. s \in [1..n -> Known]
    BY <1>1, <1>4
  <2> HIDE DEF n
  <2>2. n \in Nat
    BY <1>5 DEF n
  <2>3. QED
    BY <2>1, <2>2
<1>7. QED
  BY <1>3, <1>6

LEMMA NextLoad == PInv /\ [Next]_vars => LoadInv'
<1> SUFFICES ASSUME PInv, [Next]_vars PROVE LoadInv'
  OBVIOUS
<1> USE DEF PInv
<1>1. CASE TryLoad
  <2>1. dirs' \in Seq(SUBSET Known) /\ plugins' \in Seq(Known)
    <3>1. Head(dirs) \in SUBSET Known /\ Tail(dirs) \in Seq(SUBSET Known)
      BY <1>1 DEF TryLoad, LoadInv
    <3>2. CASE Head(dirs) = {}
      BY <1>1, <3>1, <3>2 DEF TryLoad, LoadInv
    <3>3. CASE Head(dirs) # {}
      <4>1. PICK f \in Head(dirs) :
              /\ dirs' = <<Head(dirs) \ {f}>> \o Tail(dirs)
              /\ plugins' = IF Loadable(f) THEN Append(plugins, f) ELSE plugins
        BY <1>1, <3>3 DEF TryLoad
      <4>2. <<Head(dirs) \ {f}>> \in Seq(SUBSET Known)
        BY <3>1
      <4>3. dirs' \in Seq(SUBSET Known)
        BY <3>1, <4>1, <4>2
      <4>4. plugins' \in Seq(Known)
        BY <3>1, <4>1 DEF LoadInv
      <4>5. QED
        BY <4>3, <4>4
    <3>4. QED
      BY <3>2, <3>3
  <2>2. QED
    BY <1>1, <2>1 DEF TryLoad, LoadInv
<1>2. CASE Keep
  BY <1>2, KeepPlugins DEF Keep, LoadInv
<1>3. CASE Begin \/ Ask \/ AllDeclined \/ Update \/ Stored \/ UNCHANGED vars
  BY <1>3 DEF Begin, Ask, AllDeclined, Update, Stored, vars, LoadInv
<1>4. QED
  BY <1>1, <1>2, <1>3 DEF Next

LEMMA NextBuffer == PInv /\ [Next]_vars => BufferInv'
<1> SUFFICES ASSUME PInv, [Next]_vars, LoadInv' PROVE BufferInv'
  BY NextLoad
<1> USE DEF PInv, BufferInv, Phases
<1>0. Len(plugins) \in Nat /\ Len(plugins') \in Nat
  BY DEF LoadInv
<1>1. CASE TryLoad \/ Keep
  BY <1>0, <1>1 DEF TryLoad, Keep, sampleVars
<1>2. CASE Begin
  BY <1>0, <1>2, CopiedFits DEF Begin
<1>3. CASE Ask
  BY <1>0, <1>3 DEF Ask
<1>4. CASE AllDeclined
  BY <1>0, <1>4 DEF AllDeclined
<1>5. CASE Update
  <2>1. PICK u \in Updates(plugins[next]) :
          /\ buf' = u[1]
          /\ next' = IF u[2] THEN Len(plugins) + 1 ELSE next + 1
    BY <1>5 DEF Update
  <2>2. Fits(buf')
    BY <1>5, <2>1, UpdateFits DEF Update
  <2>3. QED
    BY <1>0, <1>5, <2>1, <2>2 DEF Update
<1>6. CASE Stored \/ UNCHANGED vars
  BY <1>0, <1>6 DEF Stored, vars, sampleVars
<1>7. QED
  BY <1>1, <1>2, <1>3, <1>4, <1>5, <1>6 DEF Next

LEMMA NextAsk == PInv /\ [Next]_vars => AskInv'
<1> SUFFICES ASSUME PInv, [Next]_vars PROVE AskInv'
  OBVIOUS
<1> USE DEF PInv, AskInv
<1>0. Len(plugins) \in Nat /\ next \in 0..Len(plugins) + 1
  BY DEF LoadInv, BufferInv
<1>1. CASE TryLoad \/ Keep
  BY <1>1 DEF TryLoad, Keep
<1>2. CASE Begin
  <2>1. phase' = "ask" /\ buf' = Copied(given)' /\ heard' = {} /\ next' - 1 = 0
    BY <1>2 DEF Begin, Copied, Cut
  <2>2. 1..(next' - 1) = {}
    BY <2>1
  <2>3. Asked(next - 1)'
    BY <2>1, <2>2 DEF Asked
  <2>4. QED
    BY <2>1, <2>3
<1>3. CASE Ask
  <2>1. /\ phase = "ask" /\ next <= Len(plugins) /\ next' = next + 1
        /\ UNCHANGED <<plugins, buf, given>>
    BY <1>3 DEF Ask
  <2>2. next >= 1 /\ next \in Nat
    BY <1>0, <2>1 DEF BufferInv
  <2>3. 1..next = 1..(next - 1) \cup {next}
    BY <2>2
  <2>4. phase' # "suspended" => heard' = heard \cup {<<plugins[next], buf, FALSE>>}
    <3>1. PICK stop \in BOOLEAN :
            /\ heard' = heard \cup {<<plugins[next], buf, stop>>}
            /\ phase' = IF stop THEN "suspended" ELSE phase
      BY <1>3 DEF Ask, Suspends
    <3>2. QED
      BY <3>1
  <2>5. phase' # "suspended" => Asked(next - 1)'
    <3> SUFFICES ASSUME phase' # "suspended" PROVE Asked(next - 1)'
      OBVIOUS
    <3>1. next' - 1 = next
      BY <2>1, <2>2
    <3>2. Asked(next - 1) /\ buf = Copied(given) /\ Copied(given)' = Copied(given)
      BY <2>1 DEF Copied, Cut
    <3>3. heard' = {<<plugins[i], Copied(given), FALSE>> : i \in 1..next}
      BY <2>3, <2>4, <3>2 DEF Asked
    <3>4. QED
      BY <2>1, <3>1, <3>2, <3>3 DEF Asked
  <2>6. buf' = Copied(given)'
    BY <2>1 DEF Copied, Cut
  <2>7. phase' \in {"ask", "suspended"}
    BY <1>3, <2>1 DEF Ask, Suspends
  <2>8. QED
    BY <2>5, <2>6, <2>7
<1>4. CASE AllDeclined
  <2>1. next - 1 = Len(plugins)
    BY <1>0, <1>4 DEF AllDeclined
  <2>2. Asked(Len(plugins))
    BY <1>4, <2>1 DEF AllDeclined
  <2>3. QED
    BY <1>4, <2>2 DEF AllDeclined, Asked, Copied, Cut
<1>5. CASE Update \/ Stored \/ UNCHANGED vars
  BY <1>5 DEF Update, Stored, vars, sampleVars, Asked, Copied, Cut
<1>6. QED
  BY <1>1, <1>2, <1>3, <1>4, <1>5 DEF Next

LEMMA NextCall == PInv /\ [Next]_vars => CallInv'
<1> SUFFICES ASSUME PInv, [Next]_vars, LoadInv' PROVE CallInv'
  BY NextLoad
<1> USE DEF PInv, CallInv
<1>0. Len(plugins) \in Nat /\ Len(plugins') \in Nat /\ next \in 0..Len(plugins) + 1
  BY DEF LoadInv, BufferInv
<1>1. CASE TryLoad \/ Keep
  BY <1>0, <1>1 DEF TryLoad, Keep, sampleVars
<1>2. CASE Begin
  BY <1>0, <1>2 DEF Begin
<1>3. CASE Ask
  BY <1>3 DEF Ask, BufferInv
<1>4. CASE AllDeclined
  BY <1>4 DEF AllDeclined
<1>5. CASE Update
  <2>1. /\ phase = "update" /\ phase' = phase /\ next <= Len(plugins)
        /\ called' = Append(called, plugins[next]) /\ UNCHANGED plugins
    BY <1>5 DEF Update
  <2>2. plugins[next] \in Known /\ next \in 1..Len(plugins)
    BY <1>0, <2>1 DEF LoadInv, BufferInv
  <2>3. Len(called) = next - 1
    BY <2>1
  <2>4. next' = next + 1 \/ next' = Len(plugins) + 1
    <3>1. PICK u \in Updates(plugins[next]) :
            next' = IF u[2] THEN Len(plugins) + 1 ELSE next + 1
      BY <1>5 DEF Update
    <3>2. u[2] \in BOOLEAN
      BY <2>1, UpdateFits DEF BufferInv
    <3>3. QED
      BY <3>1, <3>2
  <2>5. called' \in Seq(Known) /\ Len(called') = next
    BY <2>1, <2>2, <2>3
  <2>6. \A i \in 1..Len(called') : called'[i] = plugins'[i]
    BY <2>1, <2>2, <2>3, <2>5
  <2>7. QED
    BY <1>0, <2>1, <2>2, <2>4, <2>5, <2>6
<1>6. CASE Stored \/ UNCHANGED vars
  BY <1>6 DEF Stored, vars, sampleVars
<1>7. QED
  BY <1>1, <1>2, <1>3, <1>4, <1>5, <1>6 DEF Next

-----------------------------------------------------------------------------
(***************************************************************************)
(* The loader.  While it runs, dirs is a tail of Paths, from whose head     *)
(* some files may be gone; what is gone has been seen.                     *)
(***************************************************************************)

Done == Len(Paths) - Len(dirs)

Seen(k) == IF k <= Done THEN Paths[k] ELSE Paths[k] \ dirs[k - Done]

DirsInv ==
    /\ Len(dirs) <= Len(Paths)
    /\ dirs # << >> => Head(dirs) \subseteq Paths[Done + 1]
    /\ \A k \in 1..Len(dirs) : k > 1 => dirs[k] = Paths[Done + k]

\* One plugin for each name, from the first path that has it.
LoadedInv ==
    /\ \A i, j \in 1..Len(plugins) : plugins[i].name = plugins[j].name => i = j
    /\ \A i \in 1..Len(plugins) : \E k \in 1..Len(Paths) :
          /\ plugins[i] \in Candidates(k, plugins[i].name)
          /\ \A j \in 1..(k - 1) : Candidates(j, plugins[i].name) = {}
    /\ \A k \in 1..Len(Paths) : \A f \in Seen(k) :
          f.loads => \E i \in 1..Len(plugins) : plugins[i].name = f.name

LoaderInv == phase = "load" => DirsInv /\ LoadedInv

LEMMA InitLoader == Init => LoaderInv /\ FirstPathWins
<1> SUFFICES ASSUME Init PROVE DirsInv /\ LoadedInv /\ FirstPathWins
  BY DEF LoaderInv
<1>1. Len(Paths) \in Nat /\ Done = 0
  BY PathsAssumption DEF Init, Done
<1>2. \A k \in 1..Len(Paths) : Seen(k) = {}
  BY <1>1 DEF Seen, Init
<1>3. QED
  BY <1>1, <1>2 DEF Init, DirsInv, LoadedInv, FirstPathWins

\* A directory with nothing left to look at is done with.
LEMMA NextDirectory ==
    ASSUME LoadInv, DirsInv, LoadedInv, phase = "load", dirs # << >>,
           Head(dirs) = {}, dirs' = Tail(dirs), UNCHANGED plugins
    PROVE  DirsInv' /\ LoadedInv'
<1>1. /\ Len(Paths) \in Nat /\ Len(dirs) \in Nat /\ Len(dirs) >= 1
      /\ Len(dirs') = Len(dirs) - 1 /\ Done' = Done + 1 /\ Done \in Nat
  BY PathsAssumption DEF LoadInv, DirsInv, Done
<1>2. \A k \in 1..Len(dirs') : dirs'[k] = dirs[k + 1]
  BY DEF LoadInv
<1>3. DirsInv'
  <2>1. ASSUME NEW k \in 1..Len(dirs')
        PROVE  dirs'[k] = Paths[Done' + k]
    <3>1. k + 1 \in 1..Len(dirs) /\ k + 1 > 1 /\ Done + (k + 1) = Done' + k
      BY <1>1
    <3>2. QED
      BY <1>2, <3>1 DEF DirsInv
  <2>2. ASSUME dirs' # << >>
        PROVE  Head(dirs') \subseteq Paths[Done' + 1]
    <3>1. 2 \in 1..Len(dirs) /\ Head(dirs') = dirs[2] /\ Done' + 1 = Done + 2
      BY <1>1, <1>2, <2>2
    <3>2. QED
      BY <3>1 DEF DirsInv
  <2>3. QED
    BY <1>1, <2>1, <2>2 DEF DirsInv
<1>4. ASSUME NEW k \in 1..Len(Paths)
      PROVE  Seen(k)' \subseteq Seen(k)
  <2>1. CASE k <= Done
    BY <1>1, <2>1 DEF Seen
  <2>2. CASE k = Done + 1
    <3>1. dirs[k - Done] = {}
      BY <1>1, <2>2 DEF LoadInv
    <3>2. QED
      BY <1>1, <2>2, <3>1 DEF Seen
  <2>3. CASE k > Done + 1
    <3>1. k - Done' \in 1..Len(dirs') /\ (k - Done') + 1 = k - Done
      BY <1>1, <2>3 DEF Done
    <3>2. dirs'[k - Done'] = dirs[k - Done]
      BY <1>2, <3>1
    <3>3. ~(k <= Done) /\ ~(k <= Done')
      BY <1>1, <2>3
    <3>4. Seen(k) = Paths[k] \ dirs[k - Done]
      BY <3>3 DEF Seen
    <3>5. Seen(k)' = Paths[k] \ dirs'[k - Done']
      BY <3>3 DEF Seen
    <3>6. QED
      BY <3>2, <3>4, <3>5
  <2>4. QED
    BY <1>1, <2>1, <2>2, <2>3
<1>5. QED
  BY <1>3, <1>4 DEF LoadedInv, Candidates

\* Another file of the directory has been looked at.
LEMMA NextFileOf ==
    ASSUME LoadInv, DirsInv, LoadedInv, phase = "load", dirs # << >>,
           NEW f \in Head(dirs),
           dirs' = <<Head(dirs) \ {f}>> \o Tail(dirs),
           plugins' = IF Loadable(f) THEN Append(plugins, f) ELSE plugins
    PROVE  DirsInv' /\ LoadedInv'
<1> DEFINE here == Done + 1
<1>1. /\ Len(Paths) \in Nat /\ Len(dirs) \in Nat /\ Len(dirs) >= 1 /\ Len(plugins) \in Nat
      /\ Len(dirs') = Len(dirs) /\ Done' = Done /\ Done \in Nat /\ here \in 1..Len(Paths)
  BY PathsAssumption DEF LoadInv, DirsInv, Done
<1>2. dirs'[1] = dirs[1] \ {f} /\ \A k \in 1..Len(dirs) : k > 1 => dirs'[k] = dirs[k]
  BY <1>1 DEF LoadInv
<1>3. DirsInv'
  BY <1>1, <1>2 DEF DirsInv
<1>4. ASSUME NEW k \in 1..Len(Paths), NEW g \in Seen(k)'
      PROVE  g \in Seen(k) \/ g = f
  <2>1. CASE k <= Done
    BY <1>1, <2>1, <1>4 DEF Seen
  <2>2. CASE k > Done
    <3>1. k - Done \in 1..Len(dirs)
      BY <1>1, <2>2 DEF Done
    <3>2. dirs[k - Done] \subseteq dirs'[k - Done] \cup {f}
      BY <1>1, <1>2, <3>1
    <3>3. QED
      BY <1>1, <1>4, <2>2, <3>2 DEF Seen
  <2>3. QED
    BY <1>1, <2>1, <2>2
<1>5. \A j \in 1..(here - 1) : Seen(j) = Paths[j]
  BY <1>1 DEF Seen
<1>6. CASE Loadable(f)
  <2>1. plugins' = Append(plugins, f) /\ f.loads
        /\ \A i \in 1..Len(plugins) : plugins[i].name # f.name
    BY <1>6 DEF Loadable
  <2>2. /\ Len(plugins') = Len(plugins) + 1 /\ plugins'[Len(plugins) + 1] = f
        /\ \A i \in 1..Len(plugins) : plugins'[i] = plugins[i]
    BY <1>1, <2>1 DEF LoadInv
  <2>3. f \in Candidates(here, f.name)
    BY <2>1 DEF Candidates, DirsInv
  <2>4. \A j \in 1..(here - 1) : Candidates(j, f.name) = {}
    BY <1>1, <1>5, <2>1 DEF LoadedInv, Candidates
  <2>5. \A i, j \in 1..Len(plugins') : plugins'[i].name = plugins'[j].name => i = j
    BY <1>1, <2>1, <2>2 DEF LoadedInv
  <2>6. ASSUME NEW i \in 1..Len(plugins')
        PROVE  \E k \in 1..Len(Paths) :
                 /\ plugins'[i] \in Candidates(k, plugins'[i].name)
                 /\ \A j \in 1..(k - 1) : Candidates(j, plugins'[i].name) = {}
    <3>1. CASE i = Len(plugins) + 1
      BY <1>1, <2>2, <2>3, <2>4, <3>1
    <3>2. CASE i \in 1..Len(plugins)
      <4>1. plugins'[i] = plugins[i]
        BY <2>2, <3>2
      <4>2. PICK k \in 1..Len(Paths) :
              /\ plugins[i] \in Candidates(k, plugins[i].name)
              /\ \A j \in 1..(k - 1) : Candidates(j, plugins[i].name) = {}
        BY <3>2 DEF LoadedInv
      <4>3. QED
        BY <4>1, <4>2
    <3>3. i = Len(plugins) + 1 \/ i \in 1..Len(plugins)
      BY <1>1, <2>2
    <3>4. QED
      BY <3>1, <3>2, <3>3
  <2>7. ASSUME NEW k \in 1..Len(Paths), NEW g \in Seen(k)', g.loads
        PROVE  \E i \in 1..Len(plugins') : plugins'[i].name = g.name
    <3>1. CASE g = f
      BY <1>1, <2>2, <3>1
    <3>2. CASE g \in Seen(k)
      <4>1. PICK i \in 1..Len(plugins) : plugins[i].name = g.name
        BY <2>7, <3>2 DEF LoadedInv
      <4>2. i \in 1..Len(plugins') /\ plugins'[i].name = g.name
        BY <1>1, <2>2, <4>1
      <4>3. QED
        BY <4>2
    <3>3. QED
      BY <1>4, <3>1, <3>2
  <2>8. QED
    BY <1>3, <2>5, <2>6, <2>7 DEF LoadedInv, Candidates
<1>7. CASE ~Loadable(f)
  <2>1. plugins' = plugins
    BY <1>7
  <2>2. f.loads => \E i \in 1..Len(plugins) : plugins[i].name = f.name
    BY <1>7 DEF Loadable
  <2>3. QED
    BY <1>3, <1>4, <2>1, <2>2 DEF LoadedInv, Candidates
<1>8. QED
  BY <1>6, <1>7

LEMMA KeptSequence ==
    ASSUME NEW T, IsFiniteSet(T), NEW s \in SetToSeqs(T)
    PROVE  /\ s \in Seq(T)
           /\ \A t \in T : \E i \in 1..Len(s) : s[i] = t
           /\ \A i, j \in 1..Len(s) : s[i] = s[j] => i = j
<1> DEFINE n == Cardinality(T)
<1>1. s \in [1..n -> T] /\ \A i, j \in 1..n : i # j => s[i] # s[j]
  BY DEF SetToSeqs
<1>2. n \in Nat
  BY FS_CardinalityType
<1>3. Cardinality(1..n) = n
  BY <1>2, FS_Interval
<1>4. s \in Injection(1..n, T)
  BY <1>1 DEF Injection, IsInjective
<1>5. s \in Surjection(1..n, T)
  BY <1>3, <1>4, FS_Injection
<1> HIDE DEF n
<1>6. s \in Seq(T) /\ Len(s) = n
  BY <1>1, <1>2
<1>7. QED
  BY <1>1, <1>5, <1>6 DEF Surjection

\* With the directories done, everything on the paths has been seen.
LEMMA AllSeen ==
    ASSUME DirsInv, dirs = << >>, NEW k \in 1..Len(Paths)
    PROVE  Seen(k) = Paths[k]
BY PathsAssumption DEF Seen, Done

LEMMA RankedOnlyRank ==
    ASSUME NEW f \in Known
    PROVE  /\ Ranked(f).name = f.name
           /\ Ranked(f).plugin = f.plugin /\ Ranked(f).loads = f.loads
<1>1. f \in Library
  BY DEF Known
<1>2. CASE config[f.name].rank = NoRank
  BY <1>2 DEF Ranked
<1>3. CASE config[f.name].rank # NoRank
  BY <1>1, <1>3 DEF Ranked, Library
<1>4. QED
  BY <1>2, <1>3

LEMMA KeepFirst ==
    ASSUME LoadInv, LoaderInv, Keep
    PROVE  FirstPathWins'
<1> DEFINE I == {i \in 1..Len(plugins) : config[plugins[i].name].enabled}
           rankedOf == [i \in I |-> Ranked(plugins[i])]
           kept == {Ranked(plugins[i]) : i \in I}
<1>1. DirsInv /\ LoadedInv /\ dirs = << >> /\ config' = config
  BY DEF Keep, LoaderInv
<1>2. IsFiniteSet(kept)
  <2>1. IsFiniteSet(I)
    BY FS_Interval, FS_Subset DEF LoadInv
  <2>2. rankedOf \in Surjection(I, kept)
    BY DEF Surjection
  <2>3. QED
    BY <2>1, <2>2, FS_Surjection
<1>3. PICK s \in SetToSeqs(kept) : plugins' = s
  BY DEF Keep
<1>4. /\ s \in Seq(kept)
      /\ \A t \in kept : \E i \in 1..Len(s) : s[i] = t
      /\ \A i, j \in 1..Len(s) : s[i] = s[j] => i = j
  BY <1>2, <1>3, KeptSequence
<1>5. ASSUME NEW i \in I
      PROVE  Ranked(plugins[i]).name = plugins[i].name
  <2>1. plugins[i] \in Known
    BY DEF LoadInv
  <2>2. QED
    BY <2>1, RankedOnlyRank
<1>6. ASSUME NEW i \in 1..Len(s)
      PROVE  \E q \in I : s[i] = Ranked(plugins[q]) /\ s[i].name = plugins[q].name
  <2>1. s[i] \in kept
    BY <1>4
  <2>2. QED
    BY <1>5, <2>1
<1> HIDE DEF rankedOf, kept
<1>7. SUFFICES ASSUME NEW name \in PluginNames
               PROVE  LET used == {i \in 1..Len(s) : s[i].name = name}
                      IN  IF config[name].enabled /\ \E k \in 1..Len(Paths) : Candidates(k, name) # {}
                          THEN \E k \in 1..Len(Paths), i \in used :
                                 /\ used = {i} /\ s[i].loads
                                 /\ \A j \in 1..(k - 1) : Candidates(j, name) = {}
                                 /\ \E f \in Candidates(k, name) : s[i].plugin = f.plugin
                          ELSE used = {}
  BY <1>1, <1>3 DEF FirstPathWins, Candidates
<1> DEFINE used == {i \in 1..Len(s) : s[i].name = name}
           found == \E k \in 1..Len(Paths) : Candidates(k, name) # {}
<1>8. CASE ~(config[name].enabled /\ found)
  <2>1. ASSUME NEW i \in used PROVE FALSE
    <3>1. PICK q \in I : s[i].name = plugins[q].name
      BY <1>6
    <3>2. plugins[q].name = name /\ q \in 1..Len(plugins) /\ config[name].enabled
      BY <3>1
    <3>3. PICK k \in 1..Len(Paths) : plugins[q] \in Candidates(k, name)
      BY <1>1, <3>2 DEF LoadedInv
    <3>4. QED
      BY <1>8, <3>2, <3>3
  <2>2. QED
    BY <1>8, <2>1
<1>9. CASE config[name].enabled /\ found
  <2>1. PICK p \in 1..Len(plugins) : plugins[p].name = name
    <3>1. PICK k \in 1..Len(Paths) : Candidates(k, name) # {}
      BY <1>9
    <3>2. PICK f \in Paths[k] : f.loads /\ f.name = name
      BY <3>1 DEF Candidates
    <3>3. f \in Seen(k)
      BY <1>1, AllSeen
    <3>4. QED
      BY <1>1, <3>2, <3>3 DEF LoadedInv
  <2>2. PICK k \in 1..Len(Paths) :
          /\ plugins[p] \in Candidates(k, name)
          /\ \A j \in 1..(k - 1) : Candidates(j, name) = {}
    BY <1>1, <2>1 DEF LoadedInv
  <2>3. p \in I /\ plugins[p] \in Known
    BY <1>9, <2>1 DEF LoadInv
  <2>4. PICK i \in 1..Len(s) : s[i] = Ranked(plugins[p])
    BY <1>4, <2>3 DEF kept
  <2>5. used = {i}
    <3>1. i \in used
      BY <1>5, <2>1, <2>3, <2>4
    <3>2. ASSUME NEW j \in used PROVE j = i
      <4>1. PICK q \in I : s[j] = Ranked(plugins[q]) /\ s[j].name = plugins[q].name
        BY <1>6
      <4>2. q = p
        BY <1>1, <2>1, <4>1 DEF LoadedInv
      <4>3. QED
        BY <1>4, <2>4, <4>1, <4>2
    <3>3. QED
      BY <3>1, <3>2
  <2>6. s[i].plugin = plugins[p].plugin /\ s[i].loads
    BY <2>2, <2>3, <2>4, RankedOnlyRank DEF Candidates
  <2>7. QED
    BY <1>9, <2>2, <2>5, <2>6
<1>10. QED
  BY <1>8, <1>9

LEMMA NextFirst ==
    LoadInv /\ LoaderInv /\ FirstPathWins /\ [Next]_vars => LoaderInv' /\ FirstPathWins'
<1> SUFFICES ASSUME LoadInv, LoaderInv, FirstPathWins, [Next]_vars
             PROVE  LoaderInv' /\ FirstPathWins'
  OBVIOUS
<1>1. CASE TryLoad
  <2>1. phase = "load" /\ phase' = "load" /\ dirs # << >> /\ DirsInv /\ LoadedInv
    BY <1>1 DEF TryLoad, LoaderInv, sampleVars
  <2>2. CASE Head(dirs) = {}
    <3>1. dirs' = Tail(dirs) /\ UNCHANGED plugins
      BY <1>1, <2>2 DEF TryLoad
    <3>2. DirsInv' /\ LoadedInv'
      BY <2>1, <2>2, <3>1, NextDirectory
    <3>3. QED
      BY <2>1, <3>2 DEF LoaderInv, FirstPathWins
  <2>3. CASE Head(dirs) # {}
    <3>1. PICK f \in Head(dirs) :
            /\ dirs' = <<Head(dirs) \ {f}>> \o Tail(dirs)
            /\ plugins' = IF Loadable(f) THEN Append(plugins, f) ELSE plugins
      BY <1>1, <2>3 DEF TryLoad
    <3>2. DirsInv' /\ LoadedInv'
      BY <2>1, <3>1, NextFileOf
    <3>3. QED
      BY <2>1, <3>2 DEF LoaderInv, FirstPathWins
  <2>4. QED
    BY <2>2, <2>3
<1>2. CASE Keep
  BY <1>2, KeepFirst DEF Keep, LoaderInv
<1>3. CASE Begin \/ Ask \/ AllDeclined \/ Update \/ Stored
  <2>1. /\ phase # "load" /\ phase' # "load" /\ UNCHANGED <<config, plugins>>
    BY <1>3 DEF Begin, Ask, AllDeclined, Update, Stored
  <2>2. QED
    BY <2>1 DEF LoaderInv, FirstPathWins, Candidates
<1>4. CASE UNCHANGED vars
  BY <1>4 DEF vars, sampleVars, LoaderInv, DirsInv, LoadedInv, Seen, Done, Candidates, FirstPathWins
<1>5. QED
  BY <1>1, <1>2, <1>3, <1>4 DEF Next

-----------------------------------------------------------------------------
\* The invariant, for any directories of libraries and any configuration.
THEOREM Invariance == Spec => []PInv
<1>1. PInv /\ [Next]_vars => PInv'
  BY NextLoad, NextBuffer, NextAsk, NextCall DEF PInv
<1>2. QED
  BY InitPInv, <1>1, PTL DEF Spec

\* No name is longer than its buffer, whatever the plugins write there
\* (plugincontainer.cc:48-52).
THEOREM TypeCorrect == Spec => []TypeOK
<1>1. PInv => TypeOK
  <2> SUFFICES ASSUME PInv PROVE TypeOK
    OBVIOUS
  <2>1. Len(buf) \in {0, 2} /\ \A i \in 1..Len(buf) :
          Len(buf[i]) <= (IF i = 1 THEN AppLen ELSE TitleLen)
    <3>1. CASE buf = << >>
      BY <3>1
    <3>2. CASE Fits(buf)
      BY <3>2 DEF Fits
    <3>3. QED
      BY <3>1, <3>2 DEF PInv, BufferInv
  <2>2. QED
    BY <2>1 DEF PInv, BufferInv, Phases, TypeOK
<1>2. QED
  BY <1>1, Invariance, PTL

\* Of the usable libraries with one name the first path's is in use, alone,
\* and none if the name is disabled (pluginloader.cc:49-85,
\* plugincontainer.cc:17-33).
THEOREM FirstPathKept == Spec => []FirstPathWins
<1> DEFINE FInv == LoadInv /\ LoaderInv /\ FirstPathWins
<1>1. Init => FInv
  BY InitPInv, InitLoader DEF PInv
<1>2. PInv /\ FInv /\ [Next]_vars => FInv'
  BY NextLoad, NextFirst
<1>3. QED
  BY <1>1, <1>2, Invariance, PTL DEF Spec

\* A sample is rewritten or stored only after every plugin was asked about the
\* names as reported, and none suspended it (plugincontainer.cc:54-69).
THEOREM SuspensionBeforeUpdate == Spec => []SuspensionFirst
<1>1. PInv => SuspensionFirst
  <2> SUFFICES ASSUME PInv PROVE SuspensionFirst
    OBVIOUS
  <2>1. DOMAIN plugins = 1..Len(plugins)
    BY DEF PInv, LoadInv
  <2>2. called # << >> \/ phase = "stored" => Asked(Len(plugins))
    BY DEF PInv, AskInv, CallInv
  <2>3. QED
    BY <2>1, <2>2 DEF Asked, SuspensionFirst, Range
<1>2. QED
  BY <1>1, Invariance, PTL

\* Updates are called in the order of the ranks, from the highest, and an
\* update is skipped only after one that broke off (plugincontainer.cc:31-33,
\* 62-69).
THEOREM RanksKept == Spec => []HigherRankFirst
<1>1. PInv => HigherRankFirst
  <2> SUFFICES ASSUME PInv, NEW i \in 1..Len(called), NEW f \in Range(plugins),
                      f.rank > called[i].rank
               PROVE  \E j \in 1..(i - 1) : called[j] = f
    BY DEF HigherRankFirst
  <2>1. PICK j \in 1..Len(plugins) : f = plugins[j]
    BY DEF Range, PInv, LoadInv
  <2>2. Len(called) \in Nat /\ Len(plugins) \in Nat /\ Len(called) <= Len(plugins)
    BY DEF PInv, LoadInv, CallInv
  <2>3. called[i] = plugins[i] /\ i \in 1..Len(plugins)
    BY <2>2 DEF PInv, CallInv
  <2>4. plugins[i].rank \in Int /\ plugins[j].rank \in Int
    BY <2>1, <2>3 DEF PInv, LoadInv, Known, Library
  <2>5. phase # "load"
    BY DEF PInv, CallInv
  <2>6. j < i
    BY <2>1, <2>3, <2>4, <2>5 DEF PInv, LoadInv, SortedByRank
  <2>7. called[j] = plugins[j] /\ j \in 1..(i - 1)
    BY <2>1, <2>2, <2>6 DEF PInv, CallInv
  <2>8. QED
    BY <2>1, <2>7
<1>2. QED
  BY <1>1, Invariance, PTL
=============================================================================
