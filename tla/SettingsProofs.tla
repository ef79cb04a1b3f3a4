---------------------------- MODULE SettingsProofs ----------------------------
(***************************************************************************)
(* For any settings, values and editors, however many commands are under   *)
(* way: a slider that is held stays where it is held, and when all is done *)
(* the panel shows the file.                                               *)
(***************************************************************************)
EXTENDS Settings, SequenceTheorems, TLAPS

\* A process or a completion of a listing that came to its end has what it read.
Process == {p \in Running : p.ran /\ p.cmd = List => p.read \in Stored}
Completion == {c \in [cmd : Command, ok : BOOLEAN, listing : Stored \union {None}] :
                  c.ok /\ c.cmd = List => c.listing \in Stored}

\* The panel knows a value of every setting, and what is being edited is what it shows.
DraftInv ==
    /\ shown \in [Keys -> Values] /\ confirmed \in [Keys -> Values]
    /\ DOMAIN draft \subseteq Keys /\ \A k \in DOMAIN draft : draft[k] = shown[k]

\* Every process is that of a command, and so is every completion; edits are counted.
CommandInv ==
    /\ file \in Stored \union {None}
    /\ queue \in Seq(Command) /\ done \in Seq(Completion)
    /\ cli = None \/ cli \in Process
    /\ edits \in Nat

IInv == DraftInv /\ CommandInv

-------------------------------------------------------------------------------
(* The settings in a file.                                                 *)

LEMMA StoredValues ==
    ASSUME NEW f
    PROVE  f \in Stored <=> /\ f = [k \in DOMAIN f |-> f[k]] /\ DOMAIN f \subseteq Keys
                            /\ \A k \in DOMAIN f : f[k] \in Values \union {Invalid}
<1>1. ASSUME f \in Stored
      PROVE  /\ f = [k \in DOMAIN f |-> f[k]] /\ DOMAIN f \subseteq Keys
             /\ \A k \in DOMAIN f : f[k] \in Values \union {Invalid}
    <2> PICK S \in SUBSET Keys : f \in [S -> Values \union {Invalid}]
        BY <1>1 DEF Stored
    <2> QED OBVIOUS
<1>2. ASSUME f = [k \in DOMAIN f |-> f[k]], DOMAIN f \subseteq Keys,
             \A k \in DOMAIN f : f[k] \in Values \union {Invalid}
      PROVE  f \in Stored
    <2>1. f \in [DOMAIN f -> Values \union {Invalid}]
        BY <1>2
    <2> QED BY <1>2, <2>1 DEF Stored
<1> QED BY <1>1, <1>2

LEMMA WithStored ==
    ASSUME NEW f \in Stored, NEW k \in Keys, NEW v \in Values
    PROVE  With(f, k, v) \in Stored
<1> DEFINE g == With(f, k, v)
<1>1. /\ g = [j \in DOMAIN g |-> g[j]] /\ DOMAIN g = DOMAIN f \union {k}
      /\ \A j \in DOMAIN g : g[j] = v \/ (j \in DOMAIN f /\ g[j] = f[j])
    BY DEF With
<1>2. DOMAIN f \subseteq Keys /\ \A j \in DOMAIN f : f[j] \in Values \union {Invalid}
    BY StoredValues
<1> HIDE DEF g
<1>3. DOMAIN g \subseteq Keys /\ \A j \in DOMAIN g : g[j] \in Values \union {Invalid}
    BY <1>1, <1>2
<1> QED BY <1>1, <1>3, StoredValues DEF g

LEMMA NothingStored == <<>> \in Stored
<1>1. DOMAIN <<>> = {} /\ <<>> = [k \in DOMAIN <<>> |-> <<>>[k]]
    OBVIOUS
<1> QED BY <1>1, StoredValues

LEMMA SettledValues == ASSUME NEW f \in Stored PROVE Settled(f) \in [Keys -> Values]
<1> SUFFICES ASSUME NEW k \in Keys PROVE Settled(f)[k] \in Values
    BY DEF Settled, Over
<1>1. k \in DOMAIN f => f[k] \in Values \union {Invalid}
    BY StoredValues
<1>2. Defaults[k] \in Values
    BY SettingsAssumption DEF Defaults
<1> QED BY <1>1, <1>2 DEF Settled, Over

LEMMA Reads == ASSUME CommandInv PROVE Contents \in Stored
BY NothingStored DEF Contents, CommandInv

LEMMA Replaced ==
    ASSUME CommandInv, Replace
    PROVE  file' \in Stored \union {None} /\ cli # None /\ cli.cmd # List
<1>1. CASE /\ cli.cmd.op = "set" /\ cli.read # None
           /\ Becomes(With(cli.read, cli.cmd.key, cli.cmd.value))
    <2>1. cli.cmd \in Command /\ cli.read \in Stored
        BY <1>1 DEF CommandInv, Process, Running, Replace
    <2>2. cli.cmd.key \in Keys /\ cli.cmd.value \in Values
        BY <1>1, <2>1 DEF Command, Reset, List
    <2> QED BY <1>1, <2>1, <2>2, WithStored DEF Becomes, List, Replace
<1>2. CASE cli.cmd = Reset /\ Becomes(None)
    BY <1>2 DEF Becomes, Reset, List, Replace
<1> QED BY <1>1, <1>2 DEF Replace

-------------------------------------------------------------------------------
(* The drafts.                                                             *)

LEMMA Edited ==
    ASSUME DraftInv, NEW k \in Keys, NEW v \in Values, EditSetting(k, v)
    PROVE  /\ shown' \in [Keys -> Values] /\ DOMAIN draft' \subseteq Keys
           /\ \A j \in DOMAIN draft' : draft'[j] = shown'[j]
<1>1. shown' \in [Keys -> Values] /\ shown'[k] = v /\ \A j \in Keys \ {k} : shown'[j] = shown[j]
    BY DEF DraftInv, EditSetting
<1>2. DOMAIN draft' = DOMAIN draft \union {k} /\ draft'[k] = v
      /\ \A j \in DOMAIN draft : j # k => draft'[j] = draft[j]
    BY DEF EditSetting, With
<1> QED BY <1>1, <1>2 DEF DraftInv

\* What a save leaves of the drafts is what there was of them.
LEMMA DraftsLeft ==
    ASSUME NEW key, NEW value
    PROVE  /\ DOMAIN Drafts(key, value) \subseteq DOMAIN draft
           /\ \A j \in DOMAIN Drafts(key, value) : Drafts(key, value)[j] = draft[j]
           /\ ~(key \in DOMAIN draft /\ draft[key] = value) => Drafts(key, value) = draft
           /\ \A j \in DOMAIN draft : j # key => j \in DOMAIN Drafts(key, value)
BY DEF Drafts, Without

\* The command a completion of a save is of.
LEMMA SavedCommand ==
    ASSUME CommandInv, done # <<>>, Finished.cmd.op = "set"
    PROVE  /\ Finished.cmd.key \in Keys /\ Finished.cmd.value \in Values
           /\ Finished.cmd = Set(Finished.cmd.key, Finished.cmd.value)
           /\ 1 \in DOMAIN done /\ Finished = done[1]
<1>1. Finished \in Completion /\ 1 \in DOMAIN done /\ Finished = done[1]
    BY HeadTailProperties, EmptySeq, LenProperties DEF CommandInv, Finished
<1>2. Finished.cmd \in Command
    BY <1>1 DEF Completion
<1> QED BY <1>1, <1>2 DEF Command, Set, Reset, List

LEMMA SavedDrafts ==
    ASSUME IInv, Saved
    PROVE  /\ DraftInv'
           /\ \A k \in DOMAIN draft : ~Saving(k, draft[k]) => shown'[k] = shown[k]
<1> DEFINE key == Finished.cmd.key
           value == Finished.cmd.value
           kept == Drafts(key, value)
           sure == IF Finished.ok /\ key \in DOMAIN draft THEN [confirmed EXCEPT ![key] = value]
                   ELSE confirmed
<1>1. /\ key \in Keys /\ value \in Values /\ Finished.cmd = Set(key, value)
      /\ 1 \in DOMAIN done /\ Finished = done[1]
    BY SavedCommand DEF IInv, Saved
<1>2. /\ draft' = kept /\ confirmed' = sure
      /\ shown' = IF key \in DOMAIN draft THEN [shown EXCEPT ![key] = Shows(kept, sure)[key]] ELSE shown
    BY DEF Saved
<1>3. /\ DOMAIN kept \subseteq DOMAIN draft /\ \A j \in DOMAIN kept : kept[j] = draft[j]
      /\ ~(key \in DOMAIN draft /\ draft[key] = value) => kept = draft
      /\ \A j \in DOMAIN draft : j # key => j \in DOMAIN kept
    BY DraftsLeft
<1>4. sure \in [Keys -> Values]
    BY <1>1 DEF IInv, DraftInv
<1>5. Shows(kept, sure)[key] = IF key \in DOMAIN kept THEN kept[key] ELSE sure[key]
    BY <1>1 DEF Shows
<1> HIDE DEF key, value, kept, sure
<1>6. shown' \in [Keys -> Values]
    BY <1>1, <1>2, <1>3, <1>4, <1>5 DEF IInv, DraftInv
<1>7. \A j \in DOMAIN kept : kept[j] = shown'[j]
    BY <1>1, <1>2, <1>3, <1>5 DEF IInv, DraftInv
<1>8. ASSUME NEW k \in DOMAIN draft, ~Saving(k, draft[k])
      PROVE  shown'[k] = shown[k]
    <2>1. ~(k = key /\ draft[key] = value)
        BY <1>1, <1>8 DEF Saving
    <2> QED BY <1>1, <1>2, <1>3, <1>5, <2>1 DEF IInv, DraftInv
<1> QED BY <1>2, <1>3, <1>4, <1>6, <1>7, <1>8 DEF IInv, DraftInv

LEMMA ListedDrafts ==
    ASSUME IInv, Listed
    PROVE  DraftInv' /\ \A k \in DOMAIN draft : shown'[k] = shown[k]
<1> DEFINE listing == Finished.listing
<1>1. Finished \in Completion
    BY HeadTailProperties DEF IInv, CommandInv, Finished, Listed
<1>2. CASE Finished.ok
    <2>1. confirmed' = Settled(listing) /\ shown' = Shows(draft, Settled(listing)) /\ draft' = draft
        BY <1>2 DEF Listed, Accepted
    <2>2. confirmed' \in [Keys -> Values]
        BY <2>1, <1>1, <1>2, SettledValues DEF Completion, Listed
    <2>3. /\ shown' \in [Keys -> Values]
          /\ \A k \in DOMAIN draft : shown'[k] = draft[k]
        BY <2>1, <2>2 DEF Shows, IInv, DraftInv
    <2> QED BY <2>1, <2>2, <2>3 DEF IInv, DraftInv
<1>3. CASE ~Finished.ok
    BY <1>3 DEF Listed, IInv, DraftInv
<1> QED BY <1>2, <1>3

-------------------------------------------------------------------------------
(* The commands.                                                           *)

LEMMA Commands == \A k \in Keys, v \in Values : Set(k, v) \in Command
BY DEF Set, Command

LEMMA Asked ==
    ASSUME queue \in Seq(Command), NEW c \in Command, Ask(c)
    PROVE  queue' \in Seq(Command)
BY AppendProperties DEF Ask

LEMMA FixedCommands == Reset \in Command /\ List \in Command
BY DEF Command

LEMMA Reported ==
    ASSUME CommandInv, cli # None, NEW ok \in BOOLEAN, ok => cli.ran, Report(ok)
    PROVE  CommandInv'
<1>1. cli \in Process
    BY DEF CommandInv
<1>2. [cmd |-> cli.cmd, ok |-> ok, listing |-> cli.read] \in Completion
    BY <1>1 DEF Process, Running, Completion
<1>3. done' \in Seq(Completion)
    BY <1>2, AppendProperties DEF Report, CommandInv
<1> QED BY <1>3 DEF Report, CommandInv, workerVars

LEMMA InitKeeps == Init => IInv
<1> SUFFICES ASSUME Init PROVE IInv
    OBVIOUS
<1>1. shown \in [Keys -> Values] /\ confirmed = shown
    BY NothingStored, SettledValues DEF Init
<1>2. draft = <<>> /\ DOMAIN <<>> = {}
    BY DEF Init
<1>3. DraftInv
    BY <1>1, <1>2 DEF DraftInv
<1>4. CommandInv
    BY NothingStored, EmptySeq DEF Init, CommandInv
<1> QED BY <1>3, <1>4 DEF IInv

LEMMA NextKeeps == IInv /\ [Next]_vars => IInv'
<1> SUFFICES ASSUME IInv, [Next]_vars PROVE IInv'
    OBVIOUS
<1> USE DEF IInv
<1>1. ASSUME NEW k \in Sliders, NEW v \in Values, Drag(k, v) PROVE IInv'
    <2>1. DraftInv'
        BY <1>1, Edited, SettingsAssumption DEF Drag, DraftInv
    <2> QED BY <1>1, <2>1 DEF Drag, UserActs, CommandInv
<1>2. ASSUME NEW k \in Sliders, LetGo(k) PROVE IInv'
    <2>1. k \in Keys /\ shown[k] \in Values
        BY SettingsAssumption DEF DraftInv
    <2>2. DraftInv'
        BY <1>2, <2>1, Edited DEF LetGo, DraftInv
    <2>3. queue' \in Seq(Command)
        BY <1>2, <2>1, Commands, Asked DEF LetGo, CommandInv
    <2> QED BY <1>2, <2>2, <2>3 DEF LetGo, CommandInv
<1>3. ASSUME NEW k \in Keys, ResetSetting(k) PROVE IInv'
    <2>1. Default \in Values
        BY SettingsAssumption
    <2>2. DraftInv'
        BY <1>3, <2>1, Edited DEF ResetSetting, DraftInv
    <2>3. queue' \in Seq(Command)
        BY <1>3, <2>1, Commands, Asked DEF ResetSetting, CommandInv
    <2> QED BY <1>3, <2>2, <2>3 DEF ResetSetting, UserActs, CommandInv
<1>4. ASSUME NEW k \in Keys, NEW v \in Values, Choose(k, v) PROVE IInv'
    <2>1. queue' \in Seq(Command)
        BY <1>4, Commands, Asked DEF Choose, CommandInv
    <2> QED BY <1>4, <2>1 DEF Choose, UserActs, CommandInv, DraftInv
<1>5. CASE ResetAll
    <2>1. queue' \in Seq(Command)
        BY <1>5, FixedCommands, Asked DEF ResetAll, CommandInv
    <2> QED BY <1>5, <2>1 DEF ResetAll, UserActs, CommandInv, DraftInv
<1>6. CASE RefreshSlowly
    <2>1. queue' \in Seq(Command)
        BY <1>6, FixedCommands, Asked DEF RefreshSlowly, CommandInv
    <2> QED BY <1>6, <2>1 DEF RefreshSlowly, CommandInv, DraftInv
<1>7. CASE Spawn
    <2>1. Head(queue) \in Command /\ queue' \in Seq(Command)
        BY <1>7, HeadTailProperties DEF Spawn, CommandInv
    <2>2. cli' \in Process
        BY <1>7, <2>1 DEF Spawn, Process, Running
    <2> QED BY <1>7, <2>1, <2>2 DEF Spawn, CommandInv, DraftInv
<1>8. CASE ReadFile
    <2>1. cli \in Process /\ Contents \in Stored /\ cli' = [cli EXCEPT !.read = Contents, !.ran = cli.cmd = List]
        BY <1>8, Reads DEF ReadFile, CommandInv
    <2>2. cli' \in Process
        BY <2>1 DEF Process, Running
    <2> QED BY <1>8, <2>2 DEF ReadFile, CommandInv, DraftInv, appVars
<1>9. CASE Replace
    <2>1. file' \in Stored \union {None} /\ cli # None /\ cli.cmd # List
        BY <1>9, Replaced
    <2>2. cli' = [cli EXCEPT !.ran = TRUE] /\ cli \in Process
        BY <1>9, <2>1 DEF Replace, CommandInv
    <2>3. cli' \in Process
        BY <2>1, <2>2 DEF Process, Running
    <2> QED BY <1>9, <2>1, <2>3 DEF Replace, CommandInv, DraftInv, appVars
<1>10. CASE Exit
    BY <1>10, Reported DEF Exit, Report, DraftInv
<1>11. CASE Fail
    BY <1>11, Reported DEF Fail, Report, DraftInv
<1>12. CASE Saved
    <2>1. queue' \in Seq(Command) /\ done' \in Seq(Completion)
        BY <1>12, FixedCommands, Asked, HeadTailProperties DEF Saved, CommandInv
    <2> QED BY <1>12, <2>1, SavedDrafts DEF Saved, CommandInv
<1>13. CASE ResetDone
    <2>1. queue' \in Seq(Command) /\ done' \in Seq(Completion)
        BY <1>13, FixedCommands, Asked, HeadTailProperties DEF ResetDone, CommandInv
    <2>2. DOMAIN draft' \subseteq Keys /\ \A k \in DOMAIN draft' : draft'[k] = shown[k]
        BY <1>13 DEF ResetDone, DraftInv
    <2> QED BY <1>13, <2>1, <2>2 DEF ResetDone, CommandInv, DraftInv
<1>14. CASE Listed
    <2>1. done' \in Seq(Completion)
        BY <1>14, HeadTailProperties DEF Listed, CommandInv
    <2> QED BY <1>14, <2>1, ListedDrafts DEF Listed, CommandInv
<1>15. CASE RefreshIfChanged
    BY <1>15 DEF RefreshIfChanged, CommandInv, DraftInv, appVars
<1>16. ASSUME NEW t \in Threads, Load(t) PROVE IInv'
    BY <1>16 DEF Load, BeginLoad, LoadValues, EndLoad, CommandInv, DraftInv, appVars
<1>17. CASE Outside
    <2>1. file' \in Stored
        BY <1>17, SettingsAssumption DEF Outside, Becomes, Stored
    <2> QED BY <1>17, <2>1 DEF Outside, CommandInv, DraftInv, appVars
<1>18. CASE UNCHANGED vars
    BY <1>18 DEF vars, appVars, CommandInv, DraftInv
<1> QED BY <1>1, <1>2, <1>3, <1>4, <1>5, <1>6, <1>7, <1>8, <1>9, <1>10, <1>11, <1>12,
           <1>13, <1>14, <1>15, <1>16, <1>17, <1>18 DEF Next, User, CliQueue, MainThread

-------------------------------------------------------------------------------
(* The theorems.                                                           *)

\* What is edited is what is shown, and only commands run, in every behaviour of Settings.
THEOREM Inductive == Spec => []IInv
<1>1. Init => IInv
    BY InitKeeps
<1>2. IInv /\ [Next]_vars => IInv'
    BY NextKeeps
<1> QED BY <1>1, <1>2, PTL DEF Spec

LEMMA HeldStays ==
    ASSUME IInv, [Next]_vars,
           NEW k \in held \intersect held' \intersect DOMAIN draft,
           edits' = edits, ~Saving(k, draft[k])
    PROVE  shown'[k] = shown[k]
<1>1. ASSUME UserActs PROVE FALSE
    BY <1>1 DEF UserActs, IInv, CommandInv
<1>2. CASE User
    BY <1>1, <1>2 DEF User, Drag, Choose, ResetSetting, ResetAll, RefreshSlowly
<1>3. ASSUME NEW j \in Sliders, LetGo(j) PROVE shown' = shown
    BY <1>3 DEF LetGo, EditSetting, IInv, DraftInv
<1>4. CASE Saved
    BY <1>4, SavedDrafts
<1>5. CASE Listed
    BY <1>5, ListedDrafts
<1>6. CASE CliQueue \/ Fail \/ ResetDone \/ RefreshIfChanged \/ Outside \/ UNCHANGED vars
    BY <1>6 DEF CliQueue, Spawn, ReadFile, Replace, Exit, Fail, Report, ResetDone,
                RefreshIfChanged, Outside, vars, appVars
<1>7. ASSUME NEW t \in Threads, Load(t) PROVE shown' = shown
    BY <1>7 DEF Load, BeginLoad, LoadValues, EndLoad, appVars
<1> QED BY <1>2, <1>3, <1>4, <1>5, <1>6, <1>7 DEF Next, MainThread

\* "A refresh confirms saved values without replacing an in-progress slider edit"
\* (acceptSettings, and the completion of a save): whatever listings and saves arrive, a
\* slider that is held stays where its user holds it.
THEOREM HeldSlidersStay == Spec => HeldSliderStays
<1>1. IInv /\ [Next]_vars =>
          [\A k \in held \intersect held' \intersect DOMAIN draft :
               (edits' = edits /\ ~Saving(k, draft[k]) /\ ~Resetting) => shown'[k] = shown[k]]_vars
    BY HeldStays
<1> QED BY <1>1, Inductive, PTL DEF Spec, HeldSliderStays

-------------------------------------------------------------------------------
(* What the panel shows of the file.                                       *)

\* The commands that the panel has not heard of yet.
Pending ==
    {queue[i] : i \in DOMAIN queue} \union (IF cli = None THEN {} ELSE {cli.cmd})
        \union {done[i].cmd : i \in DOMAIN done}

\* A draft is of a slider that is held, or its save is on its way.
SaveInv == \A k \in DOMAIN draft : k \in held \/ Set(k, draft[k]) \in Pending

Last == done[Len(done)]

\* Unless an editor or a failed listing came after it, the last command to have run was a
\* listing and is of the file as it is, or its completion asks for one; and once all is done,
\* what is not being edited is shown as it is in the file.
ListInv ==
    /\ cli # None /\ current => (cli.cmd = List /\ cli.ran => cli.read = Contents)
    /\ current /\ cli = None /\ done # <<>> =>
           (Last.cmd = List => Last.ok /\ Last.listing = Contents)
    /\ Quiet /\ current => confirmed = Settled(Contents) /\ shown = Shows(draft, confirmed)

LEMMA Appended ==
    ASSUME NEW T, NEW s \in Seq(T), NEW e \in T
    PROVE  LET r == Append(s, e)
           IN  /\ r \in Seq(T) /\ r # <<>> /\ Len(r) \in DOMAIN r /\ r[Len(r)] = e
               /\ \A i \in DOMAIN s : i \in DOMAIN r /\ r[i] = s[i]
<1> DEFINE r == Append(s, e)
<1>1. /\ r \in Seq(T) /\ Len(r) = Len(s) + 1 /\ Len(s) \in Nat /\ r[Len(r)] = e
      /\ \A i \in 1..Len(s) : r[i] = s[i]
      /\ DOMAIN s = 1..Len(s) /\ DOMAIN r = 1..Len(r)
    BY AppendProperties, LenProperties
<1> QED BY <1>1, EmptySeq

LEMMA Tailed ==
    ASSUME NEW T, NEW s \in Seq(T), s # <<>>
    PROVE  LET r == Tail(s)
           IN  /\ r \in Seq(T) /\ 1 \in DOMAIN s /\ s[1] = Head(s)
               /\ \A i \in DOMAIN s : s[i] = Head(s) \/ \E j \in DOMAIN r : r[j] = s[i]
               /\ r # <<>> => r[Len(r)] = s[Len(s)]
               /\ r = <<>> => s[Len(s)] = Head(s)
<1> DEFINE r == Tail(s)
<1>1. /\ r \in Seq(T) /\ Len(s) \in Nat \ {0} /\ Len(r) = Len(s) - 1
      /\ \A i \in 1..Len(r) : r[i] = s[i + 1]
      /\ s[1] = Head(s) /\ DOMAIN s = 1..Len(s) /\ DOMAIN r = 1..Len(r)
    BY HeadTailProperties, LenProperties, EmptySeq
<1> HIDE DEF r
<1>2. ASSUME NEW i \in DOMAIN s, i # 1 PROVE \E j \in DOMAIN r : r[j] = s[i]
    <2>1. i - 1 \in 1..Len(r) /\ (i - 1) + 1 = i
        BY <1>1, <1>2
    <2> QED BY <1>1, <2>1
<1>3. r # <<>> => r[Len(r)] = s[Len(s)]
    <2>1. r # <<>> => Len(r) \in 1..Len(r)
        BY <1>1, EmptySeq
    <2> QED BY <1>1, <2>1
<1>4. r = <<>> => Len(s) = 1
    BY <1>1
<1> QED BY <1>1, <1>2, <1>3, <1>4 DEF r

\* A step that hands every command on, or completes only such as are no draft's, keeps the
\* drafts' saves.
LEMMA SaveByPassing ==
    ASSUME SaveInv, UNCHANGED <<draft, held>>,
           \A c \in Pending : c.op = "set" => c \in Pending'
    PROVE  SaveInv'
<1>1. \A k, v : Set(k, v).op = "set"
    BY DEF Set
<1>2. ASSUME NEW k \in DOMAIN draft' PROVE k \in held' \/ Set(k, draft'[k]) \in Pending'
    BY <1>1 DEF SaveInv
<1> QED BY <1>2 DEF SaveInv

\* Asking for something adds it to what is pending.
LEMMA AskedIsPending ==
    ASSUME CommandInv, NEW c \in Command, Ask(c), UNCHANGED <<cli, done>>
    PROVE  queue' # <<>> /\ c \in Pending' /\ \A d \in Pending : d \in Pending'
<1>1. /\ queue' # <<>> /\ Len(queue') \in DOMAIN queue' /\ queue'[Len(queue')] = c
      /\ \A i \in DOMAIN queue : i \in DOMAIN queue' /\ queue'[i] = queue[i]
    BY Appended DEF Ask, CommandInv
<1> QED BY <1>1 DEF Pending

\* A listing is not a save, nor is a reset.
LEMMA OnlySavesSave == List.op # "set" /\ Reset.op # "set" /\ List # Reset
BY DEF List, Reset

\* A process that ends becomes a completion.
LEMMA ReportPasses ==
    ASSUME IInv, SaveInv, cli # None, NEW ok \in BOOLEAN, ok => cli.ran, Report(ok)
    PROVE  /\ SaveInv'
           /\ done' # <<>> /\ Last' = [cmd |-> cli.cmd, ok |-> ok, listing |-> cli.read]
           /\ cli' = None /\ UNCHANGED file
<1> DEFINE c == [cmd |-> cli.cmd, ok |-> ok, listing |-> cli.read]
<1>1. c \in Completion /\ c.cmd = cli.cmd
    BY DEF IInv, CommandInv, Process, Running, Completion
<1>2. done \in Seq(Completion) /\ done' = Append(done, c)
    BY DEF IInv, CommandInv, Report
<1>3. cli' = None /\ UNCHANGED <<file, queue, draft, held>>
    BY DEF Report
<1> HIDE DEF c
<1>4. /\ done' # <<>> /\ Len(done') \in DOMAIN done' /\ done'[Len(done')] = c
      /\ \A i \in DOMAIN done : i \in DOMAIN done' /\ done'[i] = done[i]
    BY <1>1, <1>2, Appended
<1>5. \A d \in Pending : d \in Pending'
    BY <1>1, <1>3, <1>4 DEF Pending
<1>6. SaveInv'
    BY <1>3, <1>5, SaveByPassing
<1> QED BY <1>3, <1>4, <1>6 DEF Last, c

\* A completion that is dealt with: the rest is still pending, and the last still the last.
LEMMA Dealt ==
    ASSUME IInv, done # <<>>, done' = Tail(done), UNCHANGED cli,
           \A i \in DOMAIN queue : i \in DOMAIN queue' /\ queue'[i] = queue[i]
    PROVE  /\ \A c \in Pending : c # Finished.cmd => c \in Pending'
           /\ done' # <<>> => Last' = Last
           /\ done' = <<>> => Last = Finished
<1>1. /\ \A i \in DOMAIN done : done[i] = Finished \/ \E j \in DOMAIN done' : done'[j] = done[i]
      /\ done' # <<>> => done'[Len(done')] = done[Len(done)]
      /\ done' = <<>> => done[Len(done)] = Finished
    BY Tailed DEF IInv, CommandInv, Finished
<1> QED BY <1>1 DEF Pending, Last

\* With something in the queue, and the completions at most fewer, a listing is still to come.
LEMMA ListByAsking ==
    ASSUME ListInv, queue' # <<>>, UNCHANGED <<cli, file, current>>,
           \/ UNCHANGED done
           \/ done' # <<>> => Last' = Last /\ done # <<>>
    PROVE  ListInv'
<1>1. Contents' = Contents /\ ~Quiet'
    BY DEF Contents, Quiet
<1>2. done' # <<>> => done # <<>> /\ Last' = Last
    BY DEF Last
<1> QED BY <1>1, <1>2 DEF ListInv

\* An edit is shown at once, whatever is known of the file.
LEMMA EditIsShown ==
    ASSUME DraftInv, NEW k \in Keys, NEW v \in Values, EditSetting(k, v),
           shown = Shows(draft, confirmed)
    PROVE  shown' = Shows(draft', confirmed)
<1>1. /\ shown' = [shown EXCEPT ![k] = v]
      /\ DOMAIN draft' = DOMAIN draft \union {k} /\ draft'[k] = v
      /\ \A j \in DOMAIN draft : j # k => draft'[j] = draft[j]
    BY DEF EditSetting, With
<1>2. shown = [j \in Keys |-> IF j \in DOMAIN draft THEN draft[j] ELSE confirmed[j]]
    BY DEF Shows
<1>3. \A j \in Keys : shown'[j] = IF j \in DOMAIN draft' THEN draft'[j] ELSE confirmed[j]
    BY <1>1, <1>2 DEF DraftInv
<1>4. shown' = [j \in Keys |-> shown'[j]]
    BY <1>1 DEF DraftInv
<1>5. Shows(draft', confirmed)
          = [j \in Keys |-> IF j \in DOMAIN draft' THEN draft'[j] ELSE confirmed[j]]
    BY DEF Shows
<1> QED BY <1>3, <1>4, <1>5

\* An edit that is held, or of which the save is asked for.
LEMMA SaveByEdit ==
    ASSUME SaveInv, NEW k \in Keys, NEW v \in Values, EditSetting(k, v),
           \A c \in Pending : c \in Pending',
           k \in held' \/ Set(k, v) \in Pending', \A j \in held : j # k => j \in held'
    PROVE  SaveInv'
<1>1. /\ DOMAIN draft' = DOMAIN draft \union {k} /\ draft'[k] = v
      /\ \A j \in DOMAIN draft : j # k => draft'[j] = draft[j]
    BY DEF EditSetting, With
<1>2. ASSUME NEW j \in DOMAIN draft' PROVE j \in held' \/ Set(j, draft'[j]) \in Pending'
    <2>1. CASE j = k
        BY <1>1, <2>1
    <2>2. CASE j # k
        BY <1>1, <2>2 DEF SaveInv
    <2> QED BY <2>1, <2>2
<1> QED BY <1>2 DEF SaveInv

\* A step the panel and its commands take no part in.
LEMMA PanelByOthers ==
    ASSUME SaveInv, ListInv, UNCHANGED <<cli, appVars>>,
           UNCHANGED <<file, current>> \/ current' = FALSE
    PROVE  SaveInv' /\ ListInv'
<1>1. UNCHANGED <<queue, done, cli, draft, held, shown, confirmed>>
    BY DEF appVars
<1>2. SaveInv'
    BY <1>1 DEF SaveInv, Pending
<1>3. ListInv'
    BY <1>1 DEF ListInv, Contents, Last, Quiet
<1> QED BY <1>2, <1>3

\* What a process does before it ends.
LEMMA PanelByProcess ==
    ASSUME IInv, SaveInv, cli # None, cli' \in Process, cli'.cmd = cli.cmd, UNCHANGED appVars,
           cli.cmd = List /\ cli'.ran => cli'.read = Contents'
    PROVE  SaveInv' /\ ListInv'
<1>1. UNCHANGED <<queue, done, draft, held>> /\ cli' # None
    BY SettingsAssumption DEF appVars, Process
<1>2. Pending' = Pending
    BY <1>1 DEF Pending
<1>3. SaveInv'
    BY <1>1, <1>2 DEF SaveInv
<1>4. ListInv'
    BY <1>1 DEF ListInv, Quiet
<1> QED BY <1>3, <1>4

\* The completion of a save takes away no draft whose save is still to come.
LEMMA SaveBySaved ==
    ASSUME IInv, SaveInv, Saved
    PROVE  SaveInv' /\ queue' # <<>> /\ (done' # <<>> => Last' = Last)
<1> DEFINE key == Finished.cmd.key
           value == Finished.cmd.value
<1>1. Finished.cmd = Set(key, value)
    BY SavedCommand DEF IInv, Saved
<1>2. /\ done # <<>> /\ done' = Tail(done) /\ UNCHANGED <<cli, held>> /\ Ask(List)
      /\ draft' = Drafts(key, value)
    BY DEF Saved
<1>3. /\ queue' # <<>>
      /\ \A i \in DOMAIN queue : i \in DOMAIN queue' /\ queue'[i] = queue[i]
    BY <1>2, FixedCommands, Appended DEF Ask, IInv, CommandInv
<1>4. /\ \A c \in Pending : c # Set(key, value) => c \in Pending'
      /\ done' # <<>> => Last' = Last
    BY <1>1, <1>2, <1>3, Dealt
<1>5. /\ \A j \in DOMAIN draft' : j \in DOMAIN draft /\ draft'[j] = draft[j]
      /\ key \in DOMAIN draft' => draft[key] # value
    BY <1>2 DEF Drafts, Without
<1> HIDE DEF key, value
<1>6. ASSUME NEW k \in DOMAIN draft' PROVE k \in held' \/ Set(k, draft'[k]) \in Pending'
    <2>1. Set(k, draft[k]) # Set(key, value)
        BY <1>5 DEF Set
    <2> QED BY <1>2, <1>4, <1>5, <2>1 DEF SaveInv
<1> QED BY <1>3, <1>4, <1>6 DEF SaveInv

LEMMA SaveByReset ==
    ASSUME IInv, SaveInv, ResetDone
    PROVE  SaveInv' /\ queue' # <<>> /\ (done' # <<>> => Last' = Last)
<1>1. /\ done # <<>> /\ done' = Tail(done) /\ UNCHANGED <<cli, held>> /\ Ask(List)
      /\ Finished.cmd = Reset /\ (draft' = <<>> \/ draft' = draft)
    BY DEF ResetDone
<1>2. /\ queue' # <<>>
      /\ \A i \in DOMAIN queue : i \in DOMAIN queue' /\ queue'[i] = queue[i]
    BY <1>1, FixedCommands, Appended DEF Ask, IInv, CommandInv
<1>3. /\ \A c \in Pending : c # Reset => c \in Pending'
      /\ done' # <<>> => Last' = Last
    BY <1>1, <1>2, Dealt
<1>4. CASE draft' = <<>>
    BY <1>2, <1>3, <1>4 DEF SaveInv
<1>5. CASE draft' = draft
    BY <1>1, <1>2, <1>3, <1>5, OnlySavesSave, SaveByPassing
<1> QED BY <1>1, <1>4, <1>5

\* A listing that arrives is shown, but for what is being edited.
LEMMA PanelByListed ==
    ASSUME IInv, SaveInv, ListInv, Listed
    PROVE  SaveInv' /\ ListInv'
<1>1. /\ done # <<>> /\ done' = Tail(done) /\ Finished.cmd = List
      /\ UNCHANGED <<cli, held, queue, draft, file, current>>
      /\ Finished.ok => /\ confirmed' = Settled(Finished.listing)
                        /\ shown' = Shows(draft, confirmed')
    BY DEF Listed, Accepted
<1>2. /\ \A c \in Pending : c # List => c \in Pending'
      /\ done' # <<>> => Last' = Last
      /\ done' = <<>> => Last = Finished
    BY <1>1, Dealt
<1>3. SaveInv'
    BY <1>1, <1>2, OnlySavesSave, SaveByPassing
<1>4. Contents' = Contents
    BY <1>1 DEF Contents
<1>5. ASSUME Quiet', current'
      PROVE  confirmed' = Settled(Contents') /\ shown' = Shows(draft', confirmed')
    <2>1. Last = Finished /\ cli = None /\ current
        BY <1>1, <1>2, <1>5 DEF Quiet
    <2>2. Finished.ok /\ Finished.listing = Contents
        BY <1>1, <2>1 DEF ListInv
    <2> QED BY <1>1, <1>4, <2>2
<1>6. ListInv'
    BY <1>1, <1>2, <1>4, <1>5 DEF ListInv
<1> QED BY <1>3, <1>6

LEMMA PanelKeeps == IInv /\ SaveInv /\ ListInv /\ [Next]_vars => SaveInv' /\ ListInv'
<1> SUFFICES ASSUME IInv, SaveInv, ListInv, [Next]_vars PROVE SaveInv' /\ ListInv'
    OBVIOUS
<1>0. DraftInv /\ CommandInv
    BY DEF IInv
<1>1. ASSUME NEW k \in Sliders, NEW v \in Values, Drag(k, v) PROVE SaveInv' /\ ListInv'
    <2>1. /\ k \in Keys /\ EditSetting(k, v) /\ held' = held \union {k}
          /\ UNCHANGED <<queue, done, cli, file, current, confirmed>>
        BY <1>1, SettingsAssumption DEF Drag
    <2>2. Pending' = Pending
        BY <2>1 DEF Pending
    <2>3. SaveInv'
        BY <2>1, <2>2, SaveByEdit
    <2>4. shown = Shows(draft, confirmed) => shown' = Shows(draft', confirmed)
        BY <1>0, <2>1, EditIsShown
    <2> QED BY <2>1, <2>3, <2>4 DEF ListInv, Quiet, Last, Contents
<1>2. ASSUME NEW k \in Sliders, LetGo(k) PROVE SaveInv' /\ ListInv'
    <2>1. k \in Keys /\ shown[k] \in Values
        BY <1>0, SettingsAssumption DEF DraftInv
    <2>2. /\ EditSetting(k, shown[k]) /\ held' = held \ {k} /\ Ask(Set(k, shown[k]))
          /\ UNCHANGED <<cli, done, file, current>>
        BY <1>2 DEF LetGo
    <2>3. queue' # <<>> /\ Set(k, shown[k]) \in Pending' /\ \A c \in Pending : c \in Pending'
        BY <1>0, <2>1, <2>2, Commands, AskedIsPending
    <2> QED BY <2>1, <2>2, <2>3, SaveByEdit, ListByAsking
<1>3. ASSUME NEW k \in Keys, ResetSetting(k) PROVE SaveInv' /\ ListInv'
    <2>1. Default \in Values
        BY SettingsAssumption
    <2>2. /\ EditSetting(k, Default) /\ held' = held /\ Ask(Set(k, Default))
          /\ UNCHANGED <<cli, done, file, current>>
        BY <1>3 DEF ResetSetting
    <2>3. queue' # <<>> /\ Set(k, Default) \in Pending' /\ \A c \in Pending : c \in Pending'
        BY <1>0, <2>1, <2>2, Commands, AskedIsPending
    <2> QED BY <2>1, <2>2, <2>3, SaveByEdit, ListByAsking
<1>4. ASSUME NEW c \in Command, Ask(c), UNCHANGED <<cli, done, file, current, draft, held>>
      PROVE  SaveInv' /\ ListInv'
    <2>1. queue' # <<>> /\ \A d \in Pending : d \in Pending'
        BY <1>0, <1>4, AskedIsPending
    <2>2. SaveInv'
        BY <1>4, <2>1, SaveByPassing
    <2>3. ListInv'
        BY <1>4, <2>1, ListByAsking
    <2> QED BY <2>2, <2>3
<1>5. ASSUME NEW k \in Keys, NEW v \in Values, Choose(k, v) PROVE SaveInv' /\ ListInv'
    BY <1>4, <1>5, Commands DEF Choose
<1>6. CASE ResetAll
    BY <1>4, <1>6, FixedCommands DEF ResetAll
<1>7. CASE RefreshSlowly
    BY <1>4, <1>7, FixedCommands DEF RefreshSlowly
<1>8. CASE Spawn
    <2>1. /\ cli = None /\ queue # <<>> /\ queue' = Tail(queue)
          /\ cli' = [cmd |-> Head(queue), read |-> None, ran |-> FALSE]
          /\ UNCHANGED <<done, draft, held>>
        BY <1>8 DEF Spawn
    <2>2. Head(queue) \in Command
        BY <1>0, <2>1, HeadTailProperties DEF CommandInv
    <2>3. cli' \in Running /\ cli'.cmd = Head(queue) /\ ~cli'.ran
        BY <2>1, <2>2 DEF Running
    <2>4. cli' # None
        BY <2>3, SettingsAssumption
    <2>5. \A i \in DOMAIN queue :
              queue[i] = Head(queue) \/ \E j \in DOMAIN queue' : queue'[j] = queue[i]
        BY <1>0, <2>1, Tailed DEF CommandInv
    <2>6. \A c \in Pending : c \in Pending'
        BY <2>1, <2>3, <2>4, <2>5 DEF Pending
    <2>7. SaveInv'
        BY <2>1, <2>6, SaveByPassing
    <2> QED BY <2>3, <2>4, <2>7 DEF ListInv, Quiet
<1>9. CASE ReadFile
    <2>1. /\ cli \in Process /\ Contents \in Stored /\ cli # None
          /\ cli' = [cli EXCEPT !.read = Contents, !.ran = cli.cmd = List]
          /\ UNCHANGED <<file, appVars>>
        BY <1>0, <1>9, Reads DEF ReadFile, CommandInv
    <2>2. cli' \in Process /\ cli'.cmd = cli.cmd /\ cli'.read = Contents
        BY <2>1 DEF Process, Running
    <2>3. Contents' = Contents
        BY <2>1 DEF Contents
    <2> QED BY <2>1, <2>2, <2>3, PanelByProcess
<1>10. CASE Replace
    <2>1. cli # None /\ cli.cmd # List /\ UNCHANGED appVars
        BY <1>0, <1>10, Replaced DEF Replace
    <2>2. cli' = [cli EXCEPT !.ran = TRUE] /\ cli \in Process
        BY <1>0, <1>10, <2>1 DEF Replace, CommandInv
    <2>3. cli' \in Process /\ cli'.cmd = cli.cmd
        BY <2>1, <2>2 DEF Process, Running
    <2> QED BY <2>1, <2>3, PanelByProcess
<1>11. CASE Exit
    <2>1. cli # None /\ cli.ran /\ Report(TRUE) /\ UNCHANGED current
        BY <1>11 DEF Exit
    <2>2. /\ SaveInv' /\ done' # <<>> /\ cli' = None /\ UNCHANGED file
          /\ Last' = [cmd |-> cli.cmd, ok |-> TRUE, listing |-> cli.read]
        BY <2>1, ReportPasses
    <2>3. Contents' = Contents
        BY <2>2 DEF Contents
    <2>4. current' /\ Last'.cmd = List => Last'.ok /\ Last'.listing = Contents'
        BY <2>1, <2>2, <2>3 DEF ListInv
    <2> QED BY <2>2, <2>4 DEF ListInv, Quiet
<1>12. CASE Fail
    <2>1. cli # None /\ Report(FALSE) /\ current' = (current /\ cli.cmd # List)
        BY <1>12 DEF Fail
    <2>2. /\ SaveInv' /\ done' # <<>> /\ cli' = None
          /\ Last' = [cmd |-> cli.cmd, ok |-> FALSE, listing |-> cli.read]
        BY <2>1, ReportPasses
    <2>3. current' => Last'.cmd # List
        BY <2>1, <2>2
    <2> QED BY <2>2, <2>3 DEF ListInv, Quiet
<1>13. CASE Saved
    BY <1>13, SaveBySaved, ListByAsking DEF Saved
<1>14. CASE ResetDone
    BY <1>14, SaveByReset, ListByAsking DEF ResetDone
<1>15. CASE Listed
    BY <1>15, PanelByListed
<1>16. CASE RefreshIfChanged
    BY <1>16, PanelByOthers DEF RefreshIfChanged
<1>17. ASSUME NEW t \in Threads, Load(t) PROVE SaveInv' /\ ListInv'
    BY <1>17, PanelByOthers DEF Load, BeginLoad, LoadValues, EndLoad
<1>18. CASE Outside
    BY <1>18, PanelByOthers DEF Outside
<1>19. CASE UNCHANGED vars
    BY <1>19, PanelByOthers DEF vars
<1> QED BY <1>1, <1>2, <1>3, <1>5, <1>6, <1>7, <1>8, <1>9, <1>10, <1>11, <1>12, <1>13, <1>14,
           <1>15, <1>16, <1>17, <1>18, <1>19 DEF Next, User, CliQueue, MainThread

\* However the user's changes, the processes that save them, their failures and an editor's
\* interfere: once all is done, no slider held, and the last look at the file a good one, no
\* draft is left, and the panel shows what is in the file.
THEOREM PanelShowsWhatIsThere == Spec => []PanelShowsTheFile
<1>1. Init => SaveInv /\ ListInv
    <2> SUFFICES ASSUME Init PROVE SaveInv /\ ListInv
        OBVIOUS
    <2>1. draft = <<>> /\ file = <<>> /\ shown = Settled(file) /\ confirmed = shown
        BY DEF Init
    <2>2. DOMAIN draft = {}
        BY <2>1
    <2>3. shown \in [Keys -> Values]
        BY <2>1, NothingStored, SettledValues
    <2>4. shown = Shows(draft, confirmed)
        BY <2>1, <2>2, <2>3 DEF Shows
    <2>5. Contents = file
        BY <2>1 DEF Contents
    <2> QED BY <2>1, <2>2, <2>4, <2>5 DEF SaveInv, ListInv, Init
<1>2. IInv /\ SaveInv /\ ListInv => PanelShowsTheFile
    <2> SUFFICES ASSUME IInv, SaveInv, ListInv, Quiet, held = {}, current
                 PROVE  shown = Settled(Contents)
        BY DEF PanelShowsTheFile
    <2>1. Pending = {}
        <3>1. queue = <<>> /\ cli = None /\ done = <<>> /\ DOMAIN <<>> = {}
            BY DEF Quiet
        <3> QED BY <3>1 DEF Pending
    <2>2. DOMAIN draft = {}
        BY <2>1 DEF SaveInv
    <2>3. confirmed = Settled(Contents) /\ shown = Shows(draft, confirmed)
        BY DEF ListInv
    <2>4. Shows(draft, confirmed) = confirmed
        BY <2>2 DEF Shows, IInv, DraftInv
    <2> QED BY <2>3, <2>4
<1>3. IInv /\ (SaveInv /\ ListInv) /\ [Next]_vars => (SaveInv /\ ListInv)'
    BY PanelKeeps
<1> QED BY <1>1, <1>2, <1>3, Inductive, PTL DEF Spec
-------------------------------------------------------------------------------
(* The worker's cache.                                                     *)

\* The types that the panel and the processes do not need.
WorkerInv ==
    /\ held \subseteq Sliders /\ current \in BOOLEAN
    /\ loaded \in BOOLEAN /\ cache \in [Keys -> Values] /\ stat \in {"absent", "this", "earlier"}
    /\ loading \in [Threads -> {None} \union [read : BOOLEAN, vals : Stored]]

LEMMA OverValues ==
    ASSUME NEW f \in Stored, NEW before \in [Keys -> Values]
    PROVE  Over(f, before) \in [Keys -> Values]
<1> SUFFICES ASSUME NEW k \in Keys PROVE Over(f, before)[k] \in Values
    BY DEF Over
<1>1. k \in DOMAIN f => f[k] \in Values \union {Invalid}
    BY StoredValues
<1> QED BY <1>1 DEF Over

LEMMA DefaultValues == Defaults \in [Keys -> Values]
BY SettingsAssumption DEF Defaults

LEMMA WorkerTypes == IInv /\ WorkerInv /\ [Next]_vars => WorkerInv'
<1> SUFFICES ASSUME IInv, WorkerInv, [Next]_vars PROVE WorkerInv'
    OBVIOUS
<1>0. Contents \in Stored
    BY Reads DEF IInv
<1>1. CASE User \/ \E k \in Sliders : LetGo(k)
    BY <1>1 DEF WorkerInv, User, Drag, LetGo, ResetSetting, Choose, ResetAll, RefreshSlowly, workerVars
<1>2. CASE CliQueue \/ Fail
    BY <1>2 DEF WorkerInv, CliQueue, Spawn, ReadFile, Replace, Exit, Fail, Report, Becomes,
                workerVars, appVars
<1>3. CASE MainThread
    BY <1>3 DEF WorkerInv, MainThread, Saved, ResetDone, Listed, workerVars
<1>4. CASE RefreshIfChanged
    BY <1>4 DEF WorkerInv, RefreshIfChanged, appVars
<1>5. ASSUME NEW t \in Threads, BeginLoad(t) PROVE WorkerInv'
    BY <1>5, DefaultValues, NothingStored DEF WorkerInv, BeginLoad, Identity, appVars
<1>6. ASSUME NEW t \in Threads, LoadValues(t) PROVE WorkerInv'
    BY <1>0, <1>6 DEF WorkerInv, LoadValues, appVars
<1>7. ASSUME NEW t \in Threads, EndLoad(t) PROVE WorkerInv'
    <2>1. loading[t] \in [read : BOOLEAN, vals : Stored]
        BY <1>7 DEF WorkerInv, EndLoad
    <2>2. cache' \in [Keys -> Values]
        BY <1>7, <2>1, OverValues DEF WorkerInv, EndLoad
    <2> QED BY <1>7, <2>2 DEF WorkerInv, EndLoad, appVars
<1>8. CASE Outside
    BY <1>8 DEF WorkerInv, Outside, Becomes, appVars
<1>9. CASE UNCHANGED vars
    BY <1>9 DEF WorkerInv, vars, appVars, workerVars
<1> QED BY <1>1, <1>2, <1>3, <1>4, <1>5, <1>6, <1>7, <1>8, <1>9 DEF Next, Load

LEMMA WorkerStarts == Init => WorkerInv
<1>1. <<>> \in Stored
    BY NothingStored
<1>2. Settled(<<>>) \in [Keys -> Values]
    BY <1>1, SettledValues
<1> QED BY <1>2 DEF Init, WorkerInv

\* Everything is of its type: what a file holds and a process or a load has read of it, what
\* is asked of `oizys config`, what the panel shows and the worker drives by.
THEOREM TypeCorrect == Spec => []TypeOK
<1>1. IInv /\ WorkerInv => TypeOK
    BY DEF IInv, DraftInv, CommandInv, WorkerInv, TypeOK, Process
<1> QED BY <1>1, WorkerStarts, WorkerTypes, Inductive, PTL DEF Spec

\* One thread loads at a time: the tick of the worker's control clock.
OneThread == \A s, t \in Threads : s = t

\* A load that is not over has the cache to itself; what it has read is the file, as long as
\* the file is the one whose identity it took first.
LoadInv ==
    /\ stat = "this" => file # None
    /\ \A t \in Threads : loading[t] # None =>
           /\ ~loaded /\ cache = Defaults
           /\ loading[t].read /\ stat = "this" => loading[t].vals = file

\* What leaves the file and the worker alone, or renews the file.
LEMMA LoadByOthers ==
    ASSUME LoadInv, NothingMissed, UNCHANGED <<loaded, cache, loading>>,
           UNCHANGED <<file, stat>> \/ stat' # "this"
    PROVE  LoadInv' /\ NothingMissed'
BY DEF LoadInv, NothingMissed

LEMMA RenewedIsEarlier == ASSUME NEW f, Becomes(f) PROVE stat' # "this"
BY DEF Becomes

LEMMA LoadKeeps ==
    ASSUME OneThread, WorkerInv, LoadInv, NothingMissed, [Next]_vars
    PROVE  LoadInv' /\ NothingMissed'
<1>1. CASE User \/ \E k \in Sliders : LetGo(k)
    BY <1>1, LoadByOthers DEF User, Drag, LetGo, ResetSetting, Choose, ResetAll, RefreshSlowly, workerVars
<1>2. CASE Spawn \/ ReadFile \/ Exit \/ Fail
    BY <1>2, LoadByOthers DEF Spawn, ReadFile, Exit, Fail, Report, workerVars
<1>3. CASE Replace
    BY <1>3, LoadByOthers, RenewedIsEarlier DEF Replace
<1>4. CASE MainThread
    BY <1>4, LoadByOthers DEF MainThread, Saved, ResetDone, Listed, workerVars
<1>5. CASE RefreshIfChanged
    BY <1>5 DEF RefreshIfChanged, LoadInv, NothingMissed
<1>6. ASSUME NEW t \in Threads, BeginLoad(t) PROVE LoadInv' /\ NothingMissed'
    <2>1. /\ ~loaded' /\ cache' = Defaults /\ stat' = Identity /\ file' = file
          /\ loading' = [loading EXCEPT ![t] = [read |-> FALSE, vals |-> <<>>]]
        BY <1>6 DEF BeginLoad
    <2>2. ~loading'[t].read /\ \A s \in Threads : s = t
        BY <2>1 DEF OneThread, WorkerInv
    <2> QED BY <2>1, <2>2, Zenon DEF LoadInv, NothingMissed, Identity
<1>7. ASSUME NEW t \in Threads, LoadValues(t) PROVE LoadInv' /\ NothingMissed'
    <2>1. /\ loading' = [loading EXCEPT ![t] = [read |-> TRUE, vals |-> Contents]]
          /\ UNCHANGED <<loaded, cache, stat, file>> /\ loading[t] # None
        BY <1>7 DEF LoadValues
    <2>2. loading'[t].vals = Contents /\ \A s \in Threads : s = t
        BY <2>1 DEF OneThread, WorkerInv
    <2>3. stat = "this" => Contents = file
        BY DEF LoadInv, Contents
    <2> QED BY <2>1, <2>2, <2>3, Zenon DEF LoadInv, NothingMissed
<1>8. ASSUME NEW t \in Threads, EndLoad(t) PROVE LoadInv' /\ NothingMissed'
    <2>1. /\ loading[t] # None /\ loading[t].read /\ cache' = Over(loading[t].vals, cache)
          /\ loading' = [loading EXCEPT ![t] = None] /\ UNCHANGED <<stat, file>>
        BY <1>8 DEF EndLoad
    <2>2. loading'[t] = None /\ \A s \in Threads : s = t
        BY <2>1 DEF OneThread, WorkerInv
    <2>3. stat = "this" => cache' = Settled(file)
        BY <2>1 DEF LoadInv, Settled
    <2> QED BY <2>1, <2>2, <2>3, Zenon DEF LoadInv, NothingMissed
<1>9. CASE Outside
    BY <1>9, LoadByOthers, RenewedIsEarlier DEF Outside
<1>10. CASE UNCHANGED vars
    BY <1>10, LoadByOthers DEF vars, workerVars
<1> QED BY <1>1, <1>2, <1>3, <1>4, <1>5, <1>6, <1>7, <1>8, <1>9, <1>10 DEF Next, CliQueue, Load

\* However saves, resets and an editor fall between the steps of a load: settings that are not
\* those of the file are never taken for them, so the next look at the file renews them.  What
\* is left of WorkerCatchesUp is that there is a next look.
THEOREM LoadsMissNothing == OneThread /\ Spec => []NothingMissed
<1> SUFFICES ASSUME OneThread PROVE Spec => []NothingMissed
    OBVIOUS
<1>1. Init => LoadInv /\ NothingMissed
    <2>1. Init => file # None
        BY NothingStored, SettingsAssumption DEF Init
    <2> QED BY <2>1 DEF Init, LoadInv, NothingMissed
<1>2. WorkerInv /\ (LoadInv /\ NothingMissed) /\ [Next]_vars => (LoadInv /\ NothingMissed)'
    BY LoadKeeps
<1> QED BY <1>1, <1>2, WorkerStarts, WorkerTypes, Inductive, PTL DEF Spec
===============================================================================
