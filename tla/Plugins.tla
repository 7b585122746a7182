------------------------------ MODULE Plugins ------------------------------
(***************************************************************************)
(* The data control plugins of the tracker: PluginLoader finds them on the *)
(* plugin paths, PluginContainer keeps the enabled ones by rank, and       *)
(* process_controllers asks all of them whether to suspend, then lets them *)
(* rewrite the names of a sample, one call a step.  The repository's three *)
(* plugins are modelled; "other" is one built outside it against           *)
(* idatacontrolplugin.h.                                                   *)
(***************************************************************************)
EXTENDS Integers, Sequences, SequencesExt, FiniteSets

CONSTANTS
    Paths,        \* sequence of directories: sets of shared libraries
    Ranks,        \* ranks a configuration may give, or NoRank
    NoRank,       \* no (or a negative) rank in the configuration
    AppLen,       \* WT_MAX_APP_NAME_LEN - 1
    TitleLen,     \* WT_MAX_WIN_TITLE_LEN - 1
    Names         \* <<app, title>> pairs the window system may report

\* A library; loads is false without the symbol or with another version than
\* the tracker's.
Library == [plugin : STRING, name : STRING, rank : Int, loads : BOOLEAN]

ASSUME PathsAssumption == Paths \in Seq(SUBSET Library)
ASSUME RanksAssumption == Ranks \subseteq Nat
ASSUME LengthsAssumption == {AppLen, TitleLen} \subseteq Nat
ASSUME NamesAssumption == Names \subseteq Seq(STRING) \X Seq(STRING)

Libraries == UNION Range(Paths)
PluginNames == {f.name : f \in Libraries}

VARIABLES
    dirs,       \* what the loader has still to look at
    config,     \* "plugin_<name>": enabled and rank
    plugins,    \* the plugins loaded so far, then those kept, by rank
    phase,      \* "load", "ready", "ask", "update", "stored" or "suspended"
    next,       \* the next plugin to call
    buf,        \* app_name and window_title
    given,      \* history: the names as reported
    heard,      \* history: what each plugin asked was shown, and its answer
    called      \* history: the plugins whose update was called

vars == <<dirs, config, plugins, phase, next, buf, given, heard, called>>
sampleVars == <<next, buf, given, heard, called>>

Cut(s, n) == SubSeq(s, 1, IF Len(s) < n THEN Len(s) ELSE n)

Init ==
    /\ dirs = Paths
    /\ config \in [PluginNames -> [enabled : BOOLEAN, rank : Ranks \cup {NoRank}]]
    /\ plugins = << >> /\ phase = "load" /\ next = 0
    /\ buf = << >> /\ given = << >>
    /\ heard = {} /\ called = << >>

-----------------------------------------------------------------------------
(***************************************************************************)
(* PluginLoader and PluginContainer's constructor.                         *)
(***************************************************************************)

\* Variant: the version is not compared.
LoadableAnyVersion(f) == \A i \in 1..Len(plugins) : plugins[i].name # f.name

Loadable(f) == f.loads /\ \A i \in 1..Len(plugins) : plugins[i].name # f.name

\* try_load_plugin on a file of the first directory left, in no fixed order.
TryLoad ==
    /\ phase = "load" /\ dirs # << >>
    /\ IF Head(dirs) = {} THEN dirs' = Tail(dirs) /\ UNCHANGED plugins
       ELSE \E f \in Head(dirs) :
              /\ dirs' = <<Head(dirs) \ {f}>> \o Tail(dirs)
              /\ plugins' = IF Loadable(f) THEN Append(plugins, f) ELSE plugins
    /\ UNCHANGED <<config, phase, sampleVars>>

Ranked(f) ==
    IF config[f.name].rank = NoRank THEN f
    ELSE [f EXCEPT !.rank = config[f.name].rank]

\* Variant: sorted before the configured ranks are set.
SortedByOwnRank(s) ==
    LET own(f) == CHOOSE g \in Libraries : g.name = f.name /\ g.plugin = f.plugin
    IN  \A i, j \in 1..Len(s) : i < j => own(s[i]).rank >= own(s[j]).rank

SortedByRank(s) == \A i, j \in 1..Len(s) : i < j => s[i].rank >= s[j].rank

\* The enabled ones are kept; std::sort leaves equal ranks in any order.
Keep ==
    /\ phase = "load" /\ dirs = << >>
    /\ LET kept == {Ranked(plugins[i]) : i \in {i \in 1..Len(plugins) :
                                                 config[plugins[i].name].enabled}}
       IN  \E s \in SetToSeqs(kept) : SortedByRank(s) /\ plugins' = s
    /\ phase' = "ready"
    /\ UNCHANGED <<dirs, config, sampleVars>>

-----------------------------------------------------------------------------
(***************************************************************************)
(* process_controllers.                                                    *)
(***************************************************************************)

\* Variant: the names are copied with their length.
CopiedWhole(names) == names

Copied(names) == <<Cut(names[1], AppLen), Cut(names[2], TitleLen)>>

Begin ==
    /\ phase \in {"ready", "stored", "suspended"}
    /\ \E names \in Names : given' = names /\ buf' = Copied(names)
    /\ phase' = "ask" /\ next' = 1 /\ heard' = {} /\ called' = << >>
    /\ UNCHANGED <<dirs, config, plugins>>

\* What suspend_logging may answer.  GNOMEScreenSaver says TRUE of an active
\* screen saver it reaches.  It says FALSE of an inactive or an absent one, and
\* of an active one when the bus, the owner of the name (asked for 100 ms) or
\* the reply fails it; after an error reply it reads a boolean never written.
\* The dummy plugin answers 0, the URL reader has no such function.
Suspends(f) ==
    IF f.plugin \in {"gnomescreensaver", "other"} THEN BOOLEAN ELSE {FALSE}

\* What update_data_entry may leave in the buffers, and whether it breaks off.
\* The URL reader, for a tab it finds, puts the domain before the first
\* WT_MAX_APP_NAME_LEN characters of the title.
Updates(f) ==
    CASE f.plugin = "webbrowserurlreader" ->
           {<<buf, FALSE>>,
            <<<<buf[1], Cut(<<"web">> \o Cut(buf[2], AppLen + 1), TitleLen)>>,
              FALSE>>}
      [] f.plugin = "other" ->
           ({buf} \cup {Copied(n) : n \in Names}) \X BOOLEAN
      [] OTHER -> {<<buf, FALSE>>}

\* Variant: one loop, each plugin asked and then called.
AskAndUpdate ==
    /\ phase = "ask" /\ next <= Len(plugins)
    /\ \E stop \in Suspends(plugins[next]), u \in Updates(plugins[next]) :
         /\ heard' = heard \cup {<<plugins[next], buf, stop>>}
         /\ IF stop THEN phase' = "suspended" /\ UNCHANGED <<buf, called>>
            ELSE /\ buf' = u[1] /\ phase' = phase
                 /\ called' = Append(called, plugins[next])
    /\ next' = next + 1
    /\ UNCHANGED <<dirs, config, plugins, given>>

Ask ==
    /\ phase = "ask" /\ next <= Len(plugins)
    /\ \E stop \in Suspends(plugins[next]) :
         /\ heard' = heard \cup {<<plugins[next], buf, stop>>}
         /\ phase' = IF stop THEN "suspended" ELSE phase
    /\ next' = next + 1
    /\ UNCHANGED <<dirs, config, plugins, buf, given, called>>

AllDeclined ==
    /\ phase = "ask" /\ next > Len(plugins)
    /\ phase' = "update" /\ next' = 1
    /\ UNCHANGED <<dirs, config, plugins, buf, given, heard, called>>

Update ==
    /\ phase = "update" /\ next <= Len(plugins)
    /\ called' = Append(called, plugins[next])
    /\ \E u \in Updates(plugins[next]) :
         /\ buf' = u[1]
         /\ next' = IF u[2] THEN Len(plugins) + 1 ELSE next + 1
    /\ UNCHANGED <<dirs, config, plugins, phase, given, heard>>

\* The buffers become the entry's names, where they differ.
Stored ==
    /\ phase = "update" /\ next > Len(plugins)
    /\ phase' = "stored"
    /\ UNCHANGED <<dirs, config, plugins, sampleVars>>

Next ==
    \/ TryLoad \/ Keep
    \/ Begin \/ Ask \/ AllDeclined \/ Update \/ Stored

Spec == Init /\ [][Next]_vars

-----------------------------------------------------------------------------
\* The buffers never hold more than the columns of the table are made for.
TypeOK ==
    /\ phase \in {"load", "ready", "ask", "update", "stored", "suspended"}
    /\ next \in 0..Len(plugins) + 1
    /\ Len(buf) \in {0, 2}
    /\ \A i \in 1..Len(buf) : Len(buf[i]) <= (IF i = 1 THEN AppLen ELSE TitleLen)

\* The libraries of the k-th path that could be loaded under a name.
Candidates(k, name) == {f \in Paths[k] : f.loads /\ f.name = name}

\* Of the plugins with one name exactly one is in use, from the first path
\* that has a usable one, and none if the name is disabled.
FirstPathWins ==
    phase # "load" =>
        \A name \in PluginNames :
            LET used == {i \in 1..Len(plugins) : plugins[i].name = name}
            IN  IF config[name].enabled /\ \E k \in 1..Len(Paths) : Candidates(k, name) # {}
                THEN \E k \in 1..Len(Paths), i \in used :
                       /\ used = {i} /\ plugins[i].loads
                       /\ \A j \in 1..(k - 1) : Candidates(j, name) = {}
                       /\ \E f \in Candidates(k, name) : plugins[i].plugin = f.plugin
                ELSE used = {}

\* A sample is rewritten or stored only after every plugin was asked, all
\* about the names as reported, and each answered that it does not suspend: no
\* update runs before the last answer, and no suspended sample is stored.
SuspensionFirst ==
    called # << >> \/ phase = "stored" =>
        heard = {<<f, Copied(given), FALSE>> : f \in Range(plugins)}

\* Every plugin that outranks one whose update was called was called before it.
HigherRankFirst ==
    \A i \in 1..Len(called) : \A f \in Range(plugins) :
        f.rank > called[i].rank => \E j \in 1..(i - 1) : called[j] = f
=============================================================================
