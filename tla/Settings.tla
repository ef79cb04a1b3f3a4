-------------------------------- MODULE Settings --------------------------------
(***************************************************************************)
(* The settings file between the two that use it: the app, which shows it  *)
(* and changes it through `oizys config` processes run one at a time on    *)
(* cliQueue (OizysModel.swift, cmd_config in main.c, ConfigStore.swift),   *)
(* and the worker, which drives the panels from a cache of it that it      *)
(* renews when the file's identity has changed (config.c).  A process may  *)
(* be killed by the app's timeout between any two of its steps, and an     *)
(* editor may rewrite the file whenever it likes.                          *)
(***************************************************************************)
EXTENDS Integers, Sequences, FiniteSets

CONSTANTS
    Keys, Sliders,      \* the settings, and those the panel edits with a slider
    Values, Default,    \* what a setting may be, and what it is when the file lacks it
    Invalid,            \* what an editor may have left that the setting cannot be
    None,               \* no file, no process, nothing read
    Foreign,            \* what an editor may leave in the file
    Threads,            \* threads of the worker that read the cache
    MaxEdits,           \* bound: changes the user makes in the panel
    MaxOutside,         \* bound: times an editor rewrites the file
    MaxLag              \* bound: completions the main thread has not come to

\* What a file may hold.
Stored == UNION {[S -> Values \union {Invalid}] : S \in SUBSET Keys}

\* What is asked of `oizys config`, and a process that runs it.
Set(k, v) == [op |-> "set", key |-> k, value |-> v]
Reset == [op |-> "reset"]
List == [op |-> "list"]
Command == [op : {"set"}, key : Keys, value : Values] \union {Reset, List}
Running == [cmd : Command, read : Stored \union {None}, ran : BOOLEAN]

ASSUME SettingsAssumption ==
    /\ Sliders \subseteq Keys /\ Default \in Values /\ Invalid \notin Values
    /\ Foreign \subseteq Stored /\ None \notin Running \union Stored
    /\ {MaxEdits, MaxOutside, MaxLag} \subseteq Nat

VARIABLES
    file,       \* the settings in the file; None when there is no file
    queue,      \* cliQueue
    cli,        \* the `oizys config` process that runs, and the file it has read
    done,       \* completions on their way to the app's main thread
    shown,      \* settings: what the panel shows
    confirmed,  \* confirmedSettings
    draft,      \* draftSettings
    held,       \* sliders the user is holding
    loaded,     \* g_loaded
    cache,      \* g_config
    stat,       \* g_config_stat and g_config_exists: of no file, of this one, of one before it
    loading,    \* where a thread is in oizys_config, with what it has read
    edits, outside,
    current     \* the last listing came after the last outside change and arrived

appVars == <<queue, done, shown, confirmed, draft, held, edits>>
workerVars == <<loaded, cache, stat, loading>>
vars == <<file, cli, outside, current, appVars, workerVars>>

Defaults == [k \in Keys |-> Default]

\* What a read makes of the file: a key it lacks, or gives a value that will not parse, is
\* left as it was, and so is every key when there is no file or it is not a JSON object.
Contents == IF file = None THEN <<>> ELSE file
Over(vals, before) == [k \in Keys |->
    IF k \in DOMAIN vals /\ vals[k] # Invalid THEN vals[k] ELSE before[k]]
Settled(vals) == Over(vals, Defaults)

\* One setting written over some, and some taken out.
With(f, k, v) == [j \in DOMAIN f \union {k} |-> IF j = k THEN v ELSE f[j]]
Without(f, ks) == [k \in DOMAIN f \ ks |-> f[k]]

TypeOK ==
    /\ file \in Stored \union {None}
    /\ queue \in Seq(Command)
    /\ cli = None \/ cli \in Running
    /\ shown \in [Keys -> Values] /\ confirmed \in [Keys -> Values]
    /\ DOMAIN draft \subseteq Keys /\ held \subseteq Sliders
    /\ loaded \in BOOLEAN /\ cache \in [Keys -> Values] /\ stat \in {"absent", "this", "earlier"}
    /\ loading \in [Threads -> {None} \union [read : BOOLEAN, vals : Stored]]
    /\ current \in BOOLEAN

\* The panel has shown the file once and the worker has loaded it.
Init ==
    /\ file = <<>> /\ stat = "this"
    /\ queue = <<>> /\ cli = None /\ done = <<>>
    /\ shown = Settled(file) /\ confirmed = shown /\ draft = <<>> /\ held = {}
    /\ loaded = TRUE /\ cache = Settled(file) /\ loading = [t \in Threads |-> None]
    /\ edits = 0 /\ outside = 0 /\ current = TRUE

-------------------------------------------------------------------------------
(* The panel.                                                              *)

Ask(cmd) == queue' = Append(queue, cmd)
UserActs == edits < MaxEdits /\ edits' = edits + 1

EditSetting(k, v) ==
    /\ draft' = With(draft, k, v)
    /\ shown' = [shown EXCEPT ![k] = v]

\* persist: false, on every movement.
Drag(k, v) ==
    /\ k \in Sliders /\ UserActs
    /\ EditSetting(k, v)
    /\ held' = held \union {k}
    /\ UNCHANGED <<queue, done, confirmed, file, cli, outside, current, workerVars>>

\* persist: true, with the value the slider was let go at.
LetGo(k) ==
    /\ k \in held
    /\ held' = held \ {k}
    /\ EditSetting(k, shown[k])
    /\ Ask(Set(k, shown[k]))
    /\ UNCHANGED <<done, confirmed, edits, file, cli, outside, current, workerVars>>

\* resetSetting, on a slider's key as on any other.
ResetSetting(k) ==
    /\ shown[k] # Default /\ held = {} /\ UserActs
    /\ EditSetting(k, Default)
    /\ Ask(Set(k, Default))
    /\ UNCHANGED <<done, confirmed, held, file, cli, outside, current, workerVars>>

\* A toggle or a picker keeps no draft.
Choose(k, v) ==
    /\ k \notin Sliders /\ v # shown[k] /\ held = {} /\ UserActs
    /\ Ask(Set(k, v))
    /\ UNCHANGED <<done, shown, confirmed, draft, held, file, cli, outside, current, workerVars>>

\* "Reset all to defaults".
ResetAll ==
    /\ held = {} /\ UserActs
    /\ Ask(Reset)
    /\ UNCHANGED <<done, shown, confirmed, draft, held, file, cli, outside, current, workerVars>>

\* A window opens; a bound: when there is something new to see and nothing else has asked.
RefreshSlowly ==
    /\ queue = <<>> /\ cli = None /\ done = <<>> /\ ~current
    /\ Ask(List)
    /\ UNCHANGED <<done, shown, confirmed, draft, held, edits, file, cli, outside, current, workerVars>>

-------------------------------------------------------------------------------
(* One `oizys config` process.                                             *)

Spawn ==
    /\ cli = None /\ queue # <<>>
    /\ cli' = [cmd |-> Head(queue), read |-> None, ran |-> FALSE]
    /\ queue' = Tail(queue)
    /\ UNCHANGED <<file, outside, current, done, shown, confirmed, draft, held, edits, workerVars>>

\* The file is another from here on; what was a stat of it is one of an earlier file.
Becomes(f) == file' = f /\ stat' = IF stat = "this" THEN "earlier" ELSE stat

\* values(at:), before anything is written.
ReadFile ==
    /\ cli # None /\ cli.cmd.op # "reset" /\ cli.read = None
    /\ cli' = [cli EXCEPT !.read = Contents, !.ran = cli.cmd = List]
    /\ current' = (current \/ cli.cmd = List)
    /\ UNCHANGED <<file, outside, appVars, workerVars>>

\* An atomic rename of the whole file with the one key changed, or an unlink.
Replace ==
    /\ cli # None /\ ~cli.ran
    /\ \/ /\ cli.cmd.op = "set" /\ cli.read # None
          /\ Becomes(With(cli.read, cli.cmd.key, cli.cmd.value))
       \/ cli.cmd = Reset /\ Becomes(None)
    /\ cli' = [cli EXCEPT !.ran = TRUE]
    /\ UNCHANGED <<outside, current, appVars, loaded, cache, loading>>

Report(ok) ==
    /\ Len(done) < MaxLag
    /\ done' = Append(done, [cmd |-> cli.cmd, ok |-> ok, listing |-> cli.read])
    /\ cli' = None
    /\ UNCHANGED <<file, outside, queue, shown, confirmed, draft, held, edits, workerVars>>

Exit == cli # None /\ cli.ran /\ Report(TRUE) /\ UNCHANGED current

\* Killed after 8 s wherever it had got to, or failed there by itself.
Fail ==
    /\ cli # None
    /\ Report(FALSE)
    /\ current' = (current /\ cli.cmd # List)

-------------------------------------------------------------------------------
(* The app's main thread.                                                  *)

Finished == Head(done)

\* What is being edited hides what is known of the file.
Shows(drafts, known) == [k \in Keys |-> IF k \in DOMAIN drafts THEN drafts[k] ELSE known[k]]

\* Mutant: a draft outlives the save of its value.
Drafts_Kept(key, value) == draft

\* A save takes away the draft of the value it saved, and no later one.
Drafts(key, value) ==
    IF key \in DOMAIN draft /\ draft[key] = value THEN Without(draft, {key}) ELSE draft

\* run's completion for a save.
Saved ==
    /\ done # <<>> /\ Finished.cmd.op = "set"
    /\ LET key == Finished.cmd.key
           value == Finished.cmd.value
           wasDraft == key \in DOMAIN draft
           kept == Drafts(key, value)
           sure == IF Finished.ok /\ wasDraft THEN [confirmed EXCEPT ![key] = value]
                   ELSE confirmed
       IN  /\ draft' = kept /\ confirmed' = sure
           /\ shown' = IF wasDraft THEN [shown EXCEPT ![key] = Shows(kept, sure)[key]] ELSE shown
    /\ Ask(List)
    /\ done' = Tail(done)
    /\ UNCHANGED <<held, edits, file, cli, outside, current, workerVars>>

\* And for a reset of them all.
ResetDone ==
    /\ done # <<>> /\ Finished.cmd = Reset
    /\ draft' = IF Finished.ok THEN <<>> ELSE draft
    /\ Ask(List)
    /\ done' = Tail(done)
    /\ UNCHANGED <<shown, confirmed, held, edits, file, cli, outside, current, workerVars>>

\* Mutant: a listing replaces what is being edited.
Accepted_Overrides(listing) == listing

\* What acceptSettings shows of a listing.
Accepted(listing) == Shows(draft, listing)

\* acceptSettings.
Listed ==
    /\ done # <<>> /\ Finished.cmd = List
    /\ IF Finished.ok
       THEN /\ confirmed' = Settled(Finished.listing)
            /\ shown' = Accepted(confirmed')
       ELSE UNCHANGED <<confirmed, shown>>
    /\ done' = Tail(done)
    /\ UNCHANGED <<queue, draft, held, edits, file, cli, outside, current, workerVars>>

-------------------------------------------------------------------------------
(* The worker.                                                             *)

Identity == IF file = None THEN "absent" ELSE "this"

\* oizys_config_refresh_if_changed, at most once a second.
RefreshIfChanged ==
    /\ loaded /\ stat # Identity
    /\ loaded' = FALSE
    /\ UNCHANGED <<cache, stat, loading, file, cli, outside, current, appVars>>

\* oizys_config: the defaults and the identity first,
BeginLoad(t) ==
    /\ ~loaded /\ loading[t] = None
    /\ cache' = Defaults /\ stat' = Identity
    /\ loading' = [loading EXCEPT ![t] = [read |-> FALSE, vals |-> <<>>]]
    /\ UNCHANGED <<loaded, file, cli, outside, current, appVars>>

\* then the file,
LoadValues(t) ==
    /\ loading[t] # None /\ ~loading[t].read
    /\ loading' = [loading EXCEPT ![t] = [read |-> TRUE, vals |-> Contents]]
    /\ UNCHANGED <<loaded, cache, stat, file, cli, outside, current, appVars>>

\* Mutant: the identity is taken after the read instead of before it.
EndLoad_StatsLate(t) ==
    /\ loading[t] # None /\ loading[t].read
    /\ cache' = Over(loading[t].vals, cache)
    /\ loaded' = TRUE /\ stat' = Identity
    /\ loading' = [loading EXCEPT ![t] = None]
    /\ UNCHANGED <<file, cli, outside, current, appVars>>

\* and each key it has over its default.
EndLoad(t) ==
    /\ loading[t] # None /\ loading[t].read
    /\ cache' = Over(loading[t].vals, cache)
    /\ loaded' = TRUE
    /\ loading' = [loading EXCEPT ![t] = None]
    /\ UNCHANGED <<stat, file, cli, outside, current, appVars>>

-------------------------------------------------------------------------------
\* An editor, or an installer, leaves some other file there; one that is not JSON reads as
\* empty.
Outside ==
    /\ outside < MaxOutside /\ outside' = outside + 1
    /\ \E vals \in Foreign : Becomes(vals)
    /\ current' = FALSE
    /\ UNCHANGED <<cli, appVars, loaded, cache, loading>>

User ==
    \/ \E k \in Sliders, v \in Values : Drag(k, v)
    \/ \E k \in Keys, v \in Values : Choose(k, v)
    \/ \E k \in Keys : ResetSetting(k)
    \/ ResetAll \/ RefreshSlowly

CliQueue == Spawn \/ ReadFile \/ Replace \/ Exit
MainThread == Saved \/ ResetDone \/ Listed
Load(t) == BeginLoad(t) \/ LoadValues(t) \/ EndLoad(t)

Next ==
    \/ User \/ \E k \in Sliders : LetGo(k)
    \/ CliQueue \/ Fail \/ MainThread
    \/ RefreshIfChanged \/ \E t \in Threads : Load(t)
    \/ Outside

Spec == Init /\ [][Next]_vars

\* Every process ends, the main thread runs its completions, and the control clock goes on
\* looking at the file.
FairSpec ==
    /\ Spec
    /\ WF_vars(CliQueue) /\ WF_vars(MainThread)
    /\ WF_vars(RefreshIfChanged) /\ \A t \in Threads : WF_vars(Load(t))

-------------------------------------------------------------------------------
(* What it promises.                                                       *)

Quiet == queue = <<>> /\ cli = None /\ done = <<>>

\* However saves, resets and outside changes fall between the worker's look at the file,
\* its read of it and the end of its load, the panels end up driven by what is in the file,
\* when there is one in the end.
WorkerCatchesUp == <>[](file = None \/ (loaded /\ cache = Settled(file)))

\* A cache that was read from an earlier file never passes for one of this file: with the
\* identity taken before the read (oizys_config), whoever renews the file before the load is
\* over is seen by the next look at it.
NothingMissed == loaded /\ stat = "this" => cache = Settled(file)

\* "A replacement during the read must trigger another load", whether it leaves a file or
\* none.
WorkerAlwaysCatchesUp == <>[](loaded /\ cache = Settled(Contents))

\* Once the app's commands have run and no slider is held, the panel shows what is in the
\* file, whichever of them failed, were killed after they had written, or wrote values the
\* user has since dragged past; a draft is not left to hide the file for good.  Unless the
\* last look at the file failed, or nobody has looked since an editor was there.
PanelShowsTheFile == Quiet /\ held = {} /\ current => shown = Settled(Contents)

Resetting == Reset \in {queue[i] : i \in DOMAIN queue}
                 \/ (cli # None /\ cli.cmd = Reset)
                 \/ \E i \in DOMAIN done : done[i].cmd = Reset

Saving(k, v) == Set(k, v) \in {queue[i] : i \in DOMAIN queue}
                 \/ (cli # None /\ cli.cmd = Set(k, v))
                 \/ \E i \in DOMAIN done : done[i].cmd = Set(k, v)

\* "A refresh confirms saved values without replacing an in-progress slider edit": while the
\* user holds a slider nothing else moves it, however many saves and listings of older
\* values arrive meanwhile -- as long as none of them saves the very value it is held at,
\* and no reset of everything is on its way.
HeldSliderStays ==
    [][\A k \in held \intersect held' \intersect DOMAIN draft :
           (edits' = edits /\ ~Saving(k, draft[k]) /\ ~Resetting) => shown'[k] = shown[k]]_vars
===============================================================================
