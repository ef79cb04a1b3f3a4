------------------------------ MODULE DeskProofs ------------------------------
(***************************************************************************)
(* What a run leaves of the desk, and what a quiet settle leaves alone,    *)
(* for any displays, layouts, modes and delays.                            *)
(***************************************************************************)
EXTENDS DeskRun, TLAPS

\* Every display has a mode, on the desk or not.
ModesInv == online \subseteq Displays /\ mode = [d \in Displays |-> mode[d]]

\* Until its heads are made a run has no snapshot to answer for and no heads on the desk;
\* before it owns a driver it owns at most a session; and on the way out the heads are gone.
PhaseInv ==
    /\ phase \in {"begin", "open", "engage", "arm", "snapshot", "create", "restore", "exited"} =>
           online \intersect HeadSet = {}
    /\ phase \in {"begin", "open", "engage", "arm", "snapshot"} => DOMAIN snap = {}
    /\ phase \in {"begin", "open"} => held = {}
    /\ phase = "engage" => held = {"session"}

IInv == ModesInv /\ PhaseInv /\ NothingLeftBehind

-------------------------------------------------------------------------------
LEMMA Constants ==
    /\ HeadSet \intersect Others = {} /\ HeadSet \subseteq Displays /\ Others \subseteq Displays
    /\ None \notin Int /\ SettleDelay \in Nat \ {0} /\ SettleDelay # None /\ TopologySettle \in Nat
BY DesktopAssumption DEF Displays

\* A transaction leaves every display with a mode and moves none onto or off the desk.
LEMMA CommitShapes ==
    ASSUME ModesInv, NEW base, NEW arrange \in BOOLEAN,
           Commit(base, arrange) \/ CommitFails(base, arrange)
    PROVE  ModesInv' /\ online' = online
<1>1. CASE Commit(base, arrange)
    BY <1>1 DEF Commit, Applied, ModesInv, desk
<1>2. CASE CommitFails(base, arrange)
    BY <1>2 DEF CommitFails, ModesInv, desk
<1> QED BY <1>1, <1>2

\* A relayout leaves every display with a mode and the desk it was told to.
LEMMA RelayoutShapes ==
    ASSUME NEW stayed, NEW present, present \subseteq Displays, Relaid(stayed, present)
    PROVE  ModesInv' /\ online' = present
BY DEF Relaid, ModesInv

\* What macOS and the user do adds no head and takes none but with the rest.
LEMMA OutsideShapes ==
    ASSUME ModesInv, FoldLate \/ (\E d \in Others : ShrinkLate(d)) \/ Outside
    PROVE  /\ ModesInv' /\ UNCHANGED <<snap, refused>>
           /\ online' \intersect HeadSet = online \intersect HeadSet
<1>1. CASE FoldLate \/ \E d \in Others : ShrinkLate(d)
    BY <1>1 DEF FoldLate, ShrinkLate, Noted, ModesInv, memory
<1>2. CASE \E d \in Others : Arrive(d) \/ Leave(d)
    <2> PICK d \in Others : Arrive(d) \/ Leave(d)
        BY <1>2
    <2>1. ModesInv' /\ (online' = online \union {d} \/ online' = online \ {d})
        BY RelayoutShapes, Constants DEF Arrive, Leave, ModesInv
    <2> QED BY <2>1, Constants DEF Arrive, Leave, Noted, memory
<1>3. CASE \E d \in Others, m \in Chosen : PickMode(d, m)
    BY <1>3 DEF PickMode, Noted, ModesInv, memory
<1>4. CASE \E l \in Layouts : PickLayout(l)
    BY <1>4 DEF PickLayout, Noted, ModesInv, memory
<1> QED BY <1>1, <1>2, <1>3, <1>4 DEF Outside

-------------------------------------------------------------------------------
LEMMA InitKeeps == Init => IInv
<1> SUFFICES ASSUME Init PROVE IInv
    OBVIOUS
<1>1. ModesInv
    BY DEF Init, DesktopInit, ModesInv, Displays
<1>2. online \intersect HeadSet = {} /\ DOMAIN snap = {}
    BY Constants DEF Init, DesktopInit
<1>3. phase = "begin" /\ held = {}
    BY DEF Init
<1> QED BY <1>1, <1>2, <1>3 DEF IInv, PhaseInv, NothingLeftBehind

\* A start that goes on or leaves by itself, up to the snapshot.
LEMMA EarlyKeeps ==
    ASSUME IInv, Begin \/ Open \/ Engage \/ TakeSnapshot \/ (Arm /\ phase' = "snapshot")
    PROVE  IInv'
<1>1. CASE Begin
    BY <1>1 DEF Begin, desktopVars, desk, memory, IInv, ModesInv, PhaseInv, NothingLeftBehind
<1>2. CASE Open
    BY <1>2 DEF Open, Goto, Return, desktopVars, desk, memory, IInv, ModesInv, PhaseInv, NothingLeftBehind
<1>3. CASE Engage
    BY <1>3 DEF Engage, Goto, Return, desktopVars, desk, memory, IInv, ModesInv, PhaseInv, NothingLeftBehind
<1>4. CASE TakeSnapshot
    BY <1>4 DEF TakeSnapshot, desk, IInv, ModesInv, PhaseInv, NothingLeftBehind
<1>5. CASE Arm /\ phase' = "snapshot"
    BY <1>5 DEF Arm, Goto, RunShutdown, desktopVars, desk, memory, IInv, ModesInv, PhaseInv, NothingLeftBehind
<1> QED BY <1>1, <1>2, <1>3, <1>4, <1>5

LEMMA ShutdownKeeps == ASSUME IInv, RunShutdown PROVE IInv'
<1>1. ModesInv' /\ online' \intersect HeadSet = {}
    <2>1. CASE online \intersect HeadSet = {}
        BY <2>1 DEF RunShutdown, desk, IInv, ModesInv
    <2>2. CASE online \intersect HeadSet # {}
        BY <2>2, RelayoutShapes DEF RunShutdown, IInv, ModesInv
    <2> QED BY <2>1, <2>2
<1>2. phase' = "restore"
    BY DEF RunShutdown
<1> QED BY <1>1, <1>2 DEF IInv, PhaseInv, NothingLeftBehind

\* The middle of a run: what follows the snapshot and is not the end.
LEMMA MiddleKeeps ==
    ASSUME IInv, MakeHeads \/ SettleHeads \/ ArrangeAgain \/ StartWatching \/ StartCapture
                 \/ FirstFrames \/ OnMainQueue,
           phase' # "restore"
    PROVE  IInv'
<1>1. phase' \in {"settle", "unmirror", "capture", "first", "serving"}
    BY DEF MakeHeads, SettleHeads, ArrangeAgain, StartWatching, StartCapture, FirstFrames,
           OnMainQueue, RunShutdown, Goto, run
<1>2. ModesInv'
    <2>1. CASE MakeHeads
        BY <2>1, RelayoutShapes, Constants DEF MakeHeads, RunShutdown, IInv, ModesInv
    <2>2. CASE SettleHeads
        BY <2>2, CommitShapes DEF SettleHeads, RunShutdown, IInv
    <2>3. CASE ArrangeAgain
        BY <2>3, CommitShapes DEF ArrangeAgain, IInv
    <2>4. CASE StartWatching \/ StartCapture \/ FirstFrames
        BY <2>4 DEF StartWatching, Watch, StartCapture, FirstFrames, RunShutdown, Goto,
                    desktopVars, desk, IInv, ModesInv
    <2>5. CASE OnMainQueue
        <3>1. CASE SettleNow
            BY <3>1, CommitShapes DEF SettleNow, IInv
        <3>2. CASE (\E n \in Note : Reconfigured(n)) \/ SettleWaits
            BY <3>2 DEF Reconfigured, SettleWaits, desk, IInv, ModesInv
        <3> QED BY <2>5, <3>1, <3>2 DEF OnMainQueue, Watcher
    <2> QED BY <2>1, <2>2, <2>3, <2>4, <2>5
<1> QED BY <1>1, <1>2 DEF IInv, PhaseInv, NothingLeftBehind

\* The end puts back every mode the snapshot has, unless its transaction is refused.
LEMMA ReleaseKeeps == ASSUME KeepModes, IInv, Release PROVE IInv'
<1>1. ModesInv' /\ online' = online /\ snap' = snap
    BY CommitShapes DEF Release, IInv
<1>2. online \intersect HeadSet = {} /\ phase' = "exited" /\ held' = {} /\ vendor' = ~Supervised
    BY DEF Release, IInv, PhaseInv
<1>3. ASSUME ~refused', NEW d \in DOMAIN snap \intersect online
      PROVE  mode'[d] = snap[d].mode
    <2>0. d \in Displays
        BY DEF IInv, ModesInv
    <2>1. Commit(Restored(snap), FALSE)
        BY <1>3 DEF Release, CommitFails
    <2>2. Restored(snap)[d].mode = snap[d].mode
        BY <1>3, <2>0 DEF Restored
    <2>3. AsItIs[d].mode = mode[d]
        BY <2>0 DEF AsItIs
    <2>4. mode'[d] = Restored(snap)[d].mode
        BY <2>0, <2>1, <2>3 DEF Commit, Applied, desk
    <2> QED BY <2>2, <2>4
<1> QED BY <1>1, <1>2, <1>3 DEF IInv, PhaseInv, NothingLeftBehind

LEMMA NextKeeps == ASSUME KeepModes PROVE IInv /\ [Next]_vars => IInv'
<1> SUFFICES ASSUME IInv, [Next]_vars PROVE IInv'
    OBVIOUS
<1>1. CASE MainThread
    <2>1. phase' = "restore" /\ ~RunShutdown => Release
        BY <1>1 DEF MainThread, Begin, Open, Engage, Arm, TakeSnapshot, MakeHeads, SettleHeads,
                    ArrangeAgain, StartWatching, StillMirrored, StartCapture, FirstFrames,
                    OnMainQueue, Release, Return, Goto, run
    <2>2. Arm => phase' = "snapshot" \/ RunShutdown
        BY DEF Arm, Goto
    <2>3. StillMirrored => RunShutdown
        BY DEF StillMirrored
    <2>4. Release => phase' = "exited"
        BY DEF Release
    <2> QED BY <1>1, <2>1, <2>2, <2>3, <2>4, EarlyKeeps, MiddleKeeps, ShutdownKeeps, ReleaseKeeps
            DEF MainThread
<1>2. CASE Stop
    BY <1>2, ShutdownKeeps DEF Stop
<1>3. CASE Killed
    BY <1>3 DEF Killed, memory, IInv, ModesInv, PhaseInv, NothingLeftBehind
<1>4. CASE Time
    BY <1>4 DEF Time, Tick, run, desk, memory, IInv, ModesInv, PhaseInv, NothingLeftBehind
<1>5. CASE Elsewhere
    <2>1. /\ ModesInv' /\ UNCHANGED <<snap, refused>>
          /\ online' \intersect HeadSet = online \intersect HeadSet
        BY <1>5, OutsideShapes DEF Elsewhere, IInv
    <2>2. phase # "exited" /\ UNCHANGED <<phase, held, vendor>>
        BY <1>5 DEF Elsewhere, run
    <2> QED BY <2>1, <2>2 DEF IInv, PhaseInv, NothingLeftBehind
<1>6. CASE UNCHANGED vars
    BY <1>6 DEF vars, desktopVars, desk, memory, run, IInv, ModesInv, PhaseInv, NothingLeftBehind
<1> QED BY <1>1, <1>2, <1>3, <1>4, <1>5, <1>6 DEF Next

\* For any displays, layouts, attempts and delays: a run that keeps modes and ends by itself,
\* whichever step it ends at, has given everything back.
THEOREM RunsLeaveNothing == ASSUME KeepModes PROVE Spec => []NothingLeftBehind
<1>1. IInv => NothingLeftBehind
    BY DEF IInv
<1> QED BY <1>1, InitKeeps, NextKeeps, PTL DEF Spec

-------------------------------------------------------------------------------
\* The modes are there whether they are kept or not.
LEMMA ModesKeep == ModesInv /\ [Next]_vars => ModesInv'
<1> SUFFICES ASSUME ModesInv, [Next]_vars PROVE ModesInv'
    OBVIOUS
<1>1. ASSUME RunShutdown PROVE ModesInv'
    BY <1>1, RelayoutShapes DEF RunShutdown, desk, ModesInv
<1>2. ASSUME Begin \/ Open \/ Engage \/ Arm \/ TakeSnapshot \/ StartWatching \/ StartCapture
             \/ FirstFrames \/ StillMirrored \/ Stop, ~RunShutdown
      PROVE  ModesInv'
    BY <1>2 DEF Begin, Open, Engage, Arm, TakeSnapshot, StartWatching, Watch, StartCapture,
                FirstFrames, StillMirrored, Stop, Return, Goto, desktopVars, desk, ModesInv
<1>3. ASSUME MakeHeads, ~RunShutdown PROVE ModesInv'
    BY <1>3, RelayoutShapes, Constants DEF MakeHeads, ModesInv
<1>4. ASSUME SettleHeads \/ ArrangeAgain \/ Release, ~RunShutdown PROVE ModesInv'
    BY <1>4, CommitShapes DEF SettleHeads, ArrangeAgain, Release
<1>5. ASSUME OnMainQueue PROVE ModesInv'
    <2>1. CASE SettleNow
        BY <2>1, CommitShapes DEF SettleNow
    <2>2. CASE (\E n \in Note : Reconfigured(n)) \/ SettleWaits
        BY <2>2 DEF Reconfigured, SettleWaits, desk, ModesInv
    <2> QED BY <1>5, <2>1, <2>2 DEF OnMainQueue, Watcher
<1>6. ASSUME Killed \/ Time \/ UNCHANGED vars PROVE ModesInv'
    BY <1>6 DEF Killed, Time, Tick, vars, desktopVars, desk, ModesInv
<1>7. ASSUME Elsewhere PROVE ModesInv'
    BY <1>7, OutsideShapes DEF Elsewhere
<1> QED BY <1>1, <1>2, <1>3, <1>4, <1>5, <1>6, <1>7 DEF Next, MainThread

\* A settle away from any attach stages for every display the mode it has and, for all but
\* the heads, the place it has.
LEMMA QuietSettle ==
    ASSUME ModesInv, SettleNow, age >= TopologySettle
    PROVE  mode' = mode /\ \A d \in Others : origin'[d] = origin[d]
<1> DEFINE base == Restored(Snapshot)
<1>1. Adopted = Snapshot
    BY DEF Adopted
<1>2. ASSUME NEW d \in Displays
      PROVE  /\ base[d].mode = mode[d] /\ base[d].origin = origin[d]
             /\ Arranged(base)[d].mode = mode[d]
             /\ d \in Others => Arranged(base)[d].origin = origin[d]
    <2>1. base[d].mode = mode[d] /\ base[d].origin = origin[d]
          /\ base[d] = [origin |-> base[d].origin, mode |-> base[d].mode, mirror |-> base[d].mirror]
        BY DEF Restored, Snapshot
    <2> HIDE DEF base
    <2>2. Arranged(base)[d].mode = base[d].mode
        BY <2>1 DEF Arranged
    <2>3. d \in Others => Arranged(base)[d].origin = base[d].origin
        BY <2>1, Constants DEF Arranged
    <2> QED BY <2>1, <2>2, <2>3
<1> HIDE DEF base
<1>3. CASE Commit(base, TRUE)
    <2>1. CASE UNCHANGED desk
        BY <2>1 DEF desk
    <2>2. CASE Applied(base)
        BY <1>2, <2>2, Constants DEF Applied, ModesInv
    <2>3. CASE Applied(Arranged(base))
        BY <1>2, <2>3, Constants DEF Applied, ModesInv
    <2> QED BY <1>3, <2>1, <2>2, <2>3 DEF Commit
<1>4. CASE CommitFails(base, TRUE)
    BY <1>4 DEF CommitFails, desk
<1> QED BY <1>1, <1>3, <1>4 DEF SettleNow, base

\* For any displays, layouts, modes and delays: long after the last attach, a settle moves no
\* mode and no display but the heads.
THEOREM QuietSettlesKeepChoices == Spec => QuietSettleKeepsChoices
<1> DEFINE Kept == (timer = 0 /\ timer' = None /\ age >= TopologySettle) =>
                       mode' = mode /\ \A d \in Others : origin'[d] = origin[d]
<1>1. ASSUME ModesInv, [Next]_vars PROVE Kept
    <2> SUFFICES ASSUME timer = 0, timer' = None, age >= TopologySettle
                 PROVE  mode' = mode /\ \A d \in Others : origin'[d] = origin[d]
        OBVIOUS
    <2>1. None # 0 /\ SettleDelay # None
        BY Constants
    <2>2. ~UNCHANGED timer /\ ~Time
        BY <2>1 DEF Time, Tick
    <2>3. OnMainQueue
        BY <1>1, <2>2 DEF Next, vars, desktopVars, clock, MainThread, Stop, Killed, Elsewhere, Begin, Open,
           Engage, Arm, TakeSnapshot, MakeHeads, SettleHeads, ArrangeAgain, StartWatching, Watch,
           StillMirrored, StartCapture, FirstFrames, Release, Return, Goto, RunShutdown, FoldLate,
           ShrinkLate, Outside, Arrive, Leave, PickMode, PickLayout, Noted
    <2>4. CASE SettleNow
        BY <1>1, <2>4, QuietSettle
    <2>5. CASE \E n \in Note : Reconfigured(n)
        BY <2>1, <2>2, <2>5 DEF Reconfigured
    <2>6. CASE SettleWaits
        BY <2>6 DEF SettleWaits, desk
    <2> QED BY <2>3, <2>4, <2>5, <2>6 DEF OnMainQueue, Watcher
<1>2. Init => ModesInv
    BY DesktopAssumption DEF Init, DesktopInit, ModesInv, Displays
<1> QED BY <1>1, <1>2, ModesKeep, PTL DEF Spec, QuietSettleKeepsChoices

-------------------------------------------------------------------------------
(* Types.                                                                  *)

DeskTyped ==
    /\ online \subseteq Displays
    /\ origin \in [Displays -> Int]
    /\ mode \in [Displays -> Modes]
    /\ mirror \in [Displays -> Displays \union {None}]

MemoryTyped ==
    /\ DOMAIN snap \subseteq Displays /\ \A d \in DOMAIN snap : snap[d] \in Face
    /\ seat \in Int \union {None}

ClockTyped ==
    /\ age \in 0 .. TopologySettle /\ deadline \in 0 .. SettleDelay
    /\ timer \in 0 .. SettleDelay \union {None}

RunTyped ==
    /\ watching \in BOOLEAN /\ notes \subseteq Note /\ events \in 0 .. MaxEvents
    /\ refused \in BOOLEAN
    /\ phase \in Phase /\ held \subseteq Resource /\ vendor \in BOOLEAN
    /\ tries \in 0 .. IF Attempts > StartTicks THEN Attempts ELSE StartTicks

LEMMA TypeParts == TypeOK <=> DeskTyped /\ MemoryTyped /\ ClockTyped /\ RunTyped
BY DEF TypeOK, DesktopTypeOK, DeskTyped, MemoryTyped, ClockTyped, RunTyped

LEMMA UsualIsChosen == Usual \in Chosen /\ Chosen \subseteq Modes /\ Fallen \in Modes
BY DesktopAssumption DEF Usual, Modes

\* Plans stage a place, a mode and a mirror for every display.
Plans == [Displays -> Face]

LEMMA SnapshotTypes ==
    ASSUME DeskTyped
    PROVE  DOMAIN Snapshot \subseteq Displays /\ \A d \in DOMAIN Snapshot : Snapshot[d] \in Face
BY DEF DeskTyped, Snapshot, Face

LEMMA AnchorIsInt == ASSUME DeskTyped, MemoryTyped PROVE Anchor \in Int
<1>1. CASE seat # None
    BY <1>1 DEF MemoryTyped, Anchor
<1>2. CASE seat = None /\ Native \in online
    <2>1. Native \in Displays /\ Len(Heads) \in Nat
        BY <1>2, DesktopAssumption DEF DeskTyped
    <2>2. origin[Native] \in Int
        BY <2>1 DEF DeskTyped
    <2> QED BY <1>2, <2>1, <2>2 DEF Anchor
<1>3. CASE seat = None /\ Native \notin online
    <2>1. Builtin \in Displays
        BY DesktopAssumption DEF Displays
    <2> QED BY <1>3, <2>1 DEF DeskTyped, Anchor
<1> QED BY <1>1, <1>2, <1>3

LEMMA SeatsAreInt ==
    ASSUME NEW first \in Int, NEW h \in HeadSet
    PROVE  SeatOf(first)[h] \in Int
<1> DEFINE place == CHOOSE i \in DOMAIN Heads : Heads[i] = h
<1>1. \E i \in DOMAIN Heads : Heads[i] = h
    BY DEF HeadSet
<1>2. place \in DOMAIN Heads
    BY <1>1
<1>3. DOMAIN Heads \subseteq Int
    BY DesktopAssumption
<1>4. place \in Int
    BY <1>2, <1>3
<1>5. SeatOf(first)[h] = first + place - 1
    BY DEF SeatOf
<1> HIDE DEF place
<1> QED BY <1>4, <1>5

LEMMA RestoredTypes ==
    ASSUME DeskTyped, NEW taken, \A d \in DOMAIN taken : taken[d] \in Face
    PROVE  Restored(taken) \in Plans
<1>1. ASSUME NEW d \in Displays PROVE Restored(taken)[d] \in Face
    <2>1. CASE d \notin DOMAIN taken \intersect online
        BY <2>1 DEF Restored, Face, DeskTyped
    <2>2. CASE d \in DOMAIN taken \intersect online
        <3>1. taken[d] \in Face
            BY <2>2
        <3>2. Restored(taken)[d] =
                 [origin |-> taken[d].origin,
                  mode |-> IF KeepModes THEN taken[d].mode ELSE mode[d],
                  mirror |-> IF taken[d].mirror \in online THEN taken[d].mirror ELSE mirror[d]]
            BY <2>2 DEF Restored
        <3>3. mode[d] \in Modes /\ mirror[d] \in Displays \union {None}
            BY DEF DeskTyped
        <3> QED BY <3>1, <3>2, <3>3 DEF Face
    <2> QED BY <2>1, <2>2
<1>2. Restored(taken) = [d \in Displays |-> Restored(taken)[d]]
    BY DEF Restored
<1> QED BY <1>1, <1>2 DEF Plans

LEMMA AsItIsTypes == ASSUME DeskTyped PROVE AsItIs \in Plans
BY DEF AsItIs, Plans, Face, DeskTyped

LEMMA ArrangedTypes ==
    ASSUME DeskTyped, MemoryTyped, NEW staged \in Plans
    PROVE  Arranged(staged) \in Plans
<1>1. ASSUME NEW d \in Displays PROVE Arranged(staged)[d] \in Face
    <2>1. staged[d] \in Face
        BY DEF Plans
    <2>2. d \in HeadSet => SeatOf(Anchor)[d] \in Int
        BY AnchorIsInt, SeatsAreInt
    <2>3. Arranged(staged)[d] =
             [staged[d] EXCEPT
                !.origin = IF d \in HeadSet THEN SeatOf(Anchor)[d] ELSE @,
                !.mirror = IF (d \in HeadSet /\ mirror[d] # None) \/ mirror[d] \in HeadSet
                           THEN None ELSE @]
        BY DEF Arranged
    <2> QED BY <2>1, <2>2, <2>3 DEF Face
<1>2. Arranged(staged) = [d \in Displays |-> Arranged(staged)[d]]
    BY DEF Arranged
<1> QED BY <1>1, <1>2 DEF Plans

LEMMA AppliedTypes ==
    ASSUME DeskTyped, NEW staged \in Plans, Applied(staged), notes \subseteq Note
    PROVE  DeskTyped' /\ notes' \subseteq Note
<1>1. \A d \in Displays : staged[d].origin \in Int /\ staged[d].mode \in Modes
                          /\ staged[d].mirror \in Displays \union {None}
    BY DEF Plans, Face
<1> QED BY <1>1 DEF Applied, DeskTyped, Note

\* A transaction keeps the types of the desk, whatever it stages.
LEMMA TransactionTypes ==
    ASSUME DeskTyped, MemoryTyped, notes \subseteq Note, refused \in BOOLEAN,
           NEW base \in Plans, NEW arrange \in BOOLEAN,
           Commit(base, arrange) \/ CommitFails(base, arrange)
    PROVE  DeskTyped' /\ notes' \subseteq Note /\ seat' \in Int \union {None} /\ refused' \in BOOLEAN
<1>1. origin[Heads[1]] \in Int
    <2>1. Heads[1] \in Displays
        BY DesktopAssumption DEF HeadSet, Displays
    <2> QED BY <2>1 DEF DeskTyped
<1>2. CASE Commit(base, arrange)
    <2>1. seat' \in Int \union {None}
        BY <1>1, <1>2, AnchorIsInt DEF Commit, MemoryTyped
    <2>2. refused' = refused
        BY <1>2 DEF Commit
    <2>3. Applied(base) \/ Applied(Arranged(base)) \/ UNCHANGED <<desk, notes>>
        BY <1>2 DEF Commit
    <2>4. DeskTyped' /\ notes' \subseteq Note
        BY <2>3, AppliedTypes, ArrangedTypes DEF desk, DeskTyped
    <2> QED BY <2>1, <2>2, <2>4
<1>3. CASE CommitFails(base, arrange)
    BY <1>1, <1>3 DEF CommitFails, desk, DeskTyped, MemoryTyped
<1> QED BY <1>2, <1>3

LEMMA FoldsTypes ==
    ASSUME NEW present, present \subseteq Displays
    PROVE  Folds(present) \subseteq [Displays -> Displays \union {None}]
BY DEF Folds

LEMMA RelaidTypes ==
    ASSUME DeskTyped, NEW stayed, NEW present, present \subseteq Displays, Relaid(stayed, present)
    PROVE  DeskTyped'
<1>1. online' = present /\ mirror' \in [Displays -> Displays \union {None}]
    BY FoldsTypes DEF Relaid
<1>2. origin' \in [Displays -> Int]
    <2>1. PICK l \in Layouts : origin' = [d \in Displays |-> IF d \in present THEN l[d] ELSE 0]
        BY DEF Relaid
    <2>2. l \in [Displays -> Int]
        BY DesktopAssumption
    <2> QED BY <2>1, <2>2
<1>3. mode' \in [Displays -> Modes]
    <2>1. PICK shrunk \in SUBSET stayed, own \in [(present \ online) \ HeadSet -> Chosen] :
              mode' = [d \in Displays |-> IF d \in shrunk THEN Fallen
                                          ELSE IF d \in DOMAIN own THEN own[d]
                                          ELSE IF d \in present THEN mode[d] ELSE Usual]
        BY DEF Relaid
    <2>2. \A d \in DOMAIN own : own[d] \in Modes
        BY UsualIsChosen
    <2>3. \A d \in Displays : mode[d] \in Modes
        BY DEF DeskTyped
    <2> QED BY <2>1, <2>2, <2>3, UsualIsChosen
<1> QED BY <1>1, <1>2, <1>3 DEF DeskTyped

\* What macOS and the user do.
LEMMA OutsideTypes ==
    ASSUME DeskTyped, notes \subseteq Note, watching \in BOOLEAN, events \in 0 .. MaxEvents,
           FoldLate \/ (\E d \in Others : ShrinkLate(d)) \/ Outside
    PROVE  /\ DeskTyped' /\ notes' \subseteq Note /\ events' \in 0 .. MaxEvents
           /\ UNCHANGED <<memory, watching, clock, refused>>
<1> DEFINE Kept == /\ notes' \subseteq Note /\ events' \in 0 .. MaxEvents
                   /\ UNCHANGED <<memory, watching, clock, refused>>
<1>1. ASSUME NEW kinds, kinds \subseteq Note, Noted(kinds) PROVE Kept
    BY <1>1, DesktopAssumption DEF Noted
<1>2. {"change"} \subseteq Note
    BY DEF Note
<1>3. CASE FoldLate
    <2>1. Kept
        BY <1>1, <1>2, <1>3 DEF FoldLate
    <2>2. DeskTyped'
        BY <1>3, FoldsTypes DEF FoldLate, DeskTyped
    <2> QED BY <2>1, <2>2
<1>4. ASSUME NEW d \in Others, ShrinkLate(d) \/ \E m \in Chosen : PickMode(d, m)
      PROVE  Kept /\ DeskTyped'
    <2>1. Kept
        BY <1>1, <1>2, <1>4 DEF ShrinkLate, PickMode
    <2>2. DeskTyped'
        BY <1>4, UsualIsChosen DEF ShrinkLate, PickMode, DeskTyped
    <2> QED BY <2>1, <2>2
<1>5. ASSUME NEW d \in Others, Arrive(d) \/ Leave(d) PROVE Kept /\ DeskTyped'
    <2>1. Kept
        BY <1>1, <1>5 DEF Arrive, Leave
    <2>2. DeskTyped'
        BY <1>5, RelaidTypes, Constants DEF Arrive, Leave, DeskTyped
    <2> QED BY <2>1, <2>2
<1>6. ASSUME NEW l \in Layouts, PickLayout(l) PROVE Kept /\ DeskTyped'
    <2>1. Kept
        BY <1>1, <1>2, <1>6 DEF PickLayout
    <2>2. l \in [Displays -> Int]
        BY DesktopAssumption
    <2>3. DeskTyped'
        BY <1>6, <2>2 DEF PickLayout, DeskTyped
    <2> QED BY <2>1, <2>3
<1> HIDE DEF Kept
<1>7. Kept /\ DeskTyped'
    BY <1>3, <1>4, <1>5, <1>6, <1>3 DEF Outside, FoldLate, Kept
<1> QED BY <1>7 DEF Kept

\* The watcher on the main queue, and the time that passes.
LEMMA WatcherTypes ==
    ASSUME TypeOK, Watcher
    PROVE  DeskTyped' /\ MemoryTyped' /\ ClockTyped' /\ notes' \subseteq Note
           /\ refused' \in BOOLEAN /\ UNCHANGED <<watching, events>>
<1>0. DeskTyped /\ MemoryTyped /\ ClockTyped /\ RunTyped
    BY TypeParts
<1>1. SettleDelay \in 0 .. SettleDelay /\ 0 \in 0 .. TopologySettle
    BY Constants
<1>2. ASSUME NEW n \in Note, Reconfigured(n)
      PROVE  DeskTyped' /\ MemoryTyped' /\ ClockTyped' /\ notes' \subseteq Note
             /\ refused' = refused /\ UNCHANGED <<watching, events>>
    BY <1>0, <1>1, <1>2 DEF Reconfigured, desk, memory, DeskTyped, MemoryTyped, ClockTyped, RunTyped
<1>3. CASE SettleWaits
    BY <1>0, <1>3 DEF SettleWaits, desk, memory, DeskTyped, MemoryTyped, ClockTyped, RunTyped
<1>4. CASE SettleNow
    <2>1. DOMAIN Adopted \subseteq Displays /\ \A d \in DOMAIN Adopted : Adopted[d] \in Face
        BY <1>0, SnapshotTypes DEF Adopted, MemoryTyped
    <2>2. Restored(Adopted) \in Plans
        BY <1>0, <2>1, RestoredTypes
    <2>3. DeskTyped' /\ notes' \subseteq Note /\ seat' \in Int \union {None} /\ refused' \in BOOLEAN
        BY <1>0, <1>4, <2>2, TransactionTypes DEF SettleNow, RunTyped
    <2>4. MemoryTyped'
        BY <1>4, <2>1, <2>3 DEF SettleNow, MemoryTyped
    <2>5. ClockTyped' /\ UNCHANGED <<watching, events>>
        BY <1>0, <1>4 DEF SettleNow, ClockTyped
    <2> QED BY <2>3, <2>4, <2>5
<1> QED BY <1>0, <1>2, <1>3, <1>4 DEF Watcher, RunTyped

LEMMA TickTypes ==
    ASSUME ClockTyped, Tick
    PROVE  ClockTyped' /\ UNCHANGED <<desk, memory, watching, notes, events, refused>>
<1>1. age' \in 0 .. TopologySettle
    BY Constants DEF Tick, ClockTyped
<1>2. deadline' \in 0 .. SettleDelay
    BY Constants DEF Tick, ClockTyped
<1>3. timer' \in 0 .. SettleDelay \union {None}
    BY Constants DEF Tick, ClockTyped
<1>4. UNCHANGED <<desk, memory, watching, notes, events, refused>>
    BY DEF Tick
<1> QED BY <1>1, <1>2, <1>3, <1>4 DEF ClockTyped

LEMMA ShutdownTypes == ASSUME TypeOK, RunShutdown PROVE TypeOK'
<1>0. DeskTyped /\ MemoryTyped /\ ClockTyped /\ RunTyped
    BY TypeParts
<1>1. DeskTyped' /\ notes' \subseteq Note
    <2>1. CASE online \intersect HeadSet = {}
        BY <1>0, <2>1 DEF RunShutdown, desk, DeskTyped, RunTyped
    <2>2. CASE online \intersect HeadSet # {}
        <3>1. Relaid(online \ HeadSet, online \ HeadSet) /\ online \ HeadSet \subseteq Displays
            BY <1>0, <2>2 DEF RunShutdown, DeskTyped
        <3>2. notes' \subseteq Note
            BY <1>0, <2>2 DEF RunShutdown, RunTyped
        <3> QED BY <1>0, <3>1, <3>2, RelaidTypes
    <2> QED BY <2>1, <2>2
<1>2. MemoryTyped' /\ ClockTyped'
    BY <1>0 DEF RunShutdown, memory, clock, MemoryTyped, ClockTyped
<1>3. RunTyped'
    BY <1>0, <1>1 DEF RunShutdown, RunTyped, Phase
<1>4. TypeOK' <=> DeskTyped' /\ MemoryTyped' /\ ClockTyped' /\ RunTyped'
    BY TypeParts, PTL
<1> QED BY <1>1, <1>2, <1>3, <1>4

LEMMA TriesFit ==
    LET most == IF Attempts > StartTicks THEN Attempts ELSE StartTicks
    IN  /\ 0 \in 0 .. most
        /\ \A n \in 0 .. most : n < Attempts \/ n < StartTicks => n + 1 \in 0 .. most
BY DeskRunAssumption

\* The main thread, but for its shutdown.
LEMMA MainThreadTypes ==
    ASSUME TypeOK, MainThread \/ Stop, ~RunShutdown
    PROVE  TypeOK'
<1>0. DeskTyped /\ MemoryTyped /\ ClockTyped /\ RunTyped
    BY TypeParts
<1>1. TypeOK' <=> DeskTyped' /\ MemoryTyped' /\ ClockTyped' /\ RunTyped'
    BY TypeParts, PTL
<1>2. (~Supervised) \in BOOLEAN
    BY Zenon
<1>3. CASE Begin \/ Open \/ Engage \/ Arm \/ StartCapture \/ FirstFrames
    <2>1. UNCHANGED <<desktopVars, tries>>
        BY <1>3 DEF Begin, Open, Engage, Arm, StartCapture, FirstFrames, Goto, Return
    <2>2. phase' \in Phase /\ vendor' \in BOOLEAN
        BY <1>0, <1>3, <1>2 DEF Begin, Open, Engage, Arm, StartCapture, FirstFrames, Goto, Return,
           RunTyped, Phase
    <2>3. held' \subseteq Resource
        BY <1>0, <1>3 DEF Begin, Open, Engage, Arm, StartCapture, FirstFrames, Goto, Return,
           RunTyped, Resource
    <2>4. DeskTyped' /\ MemoryTyped' /\ ClockTyped'
        BY <1>0, <2>1 DEF desktopVars, desk, memory, clock, DeskTyped, MemoryTyped, ClockTyped
    <2>5. RunTyped'
        BY <1>0, <2>1, <2>2, <2>3 DEF desktopVars, RunTyped
    <2> QED BY <1>1, <2>4, <2>5
<1>4. CASE TakeSnapshot
    <2>1. MemoryTyped'
        BY <1>0, <1>4, SnapshotTypes DEF TakeSnapshot, MemoryTyped
    <2>2. DeskTyped' /\ ClockTyped' /\ RunTyped'
        BY <1>0, <1>4 DEF TakeSnapshot, desk, clock, DeskTyped, ClockTyped, RunTyped, Phase
    <2> QED BY <1>1, <2>1, <2>2
<1>5. CASE MakeHeads
    <2>1. Relaid(online, online \union HeadSet) /\ online \union HeadSet \subseteq Displays
        BY <1>0, <1>5, Constants DEF MakeHeads, DeskTyped
    <2>2. DeskTyped'
        BY <1>0, <2>1, RelaidTypes
    <2>3. MemoryTyped' /\ ClockTyped'
        BY <1>0, <1>5 DEF MakeHeads, memory, clock, MemoryTyped, ClockTyped
    <2>4. RunTyped'
        BY <1>0, <1>5 DEF MakeHeads, RunTyped, Phase, Resource
    <2> QED BY <1>1, <2>2, <2>3, <2>4
<1>6. CASE SettleHeads \/ ArrangeAgain \/ Release
    <2>1. Restored(snap) \in Plans /\ AsItIs \in Plans
        BY <1>0, RestoredTypes, AsItIsTypes DEF MemoryTyped
    <2>2. DeskTyped' /\ notes' \subseteq Note /\ seat' \in Int \union {None} /\ refused' \in BOOLEAN
        BY <1>0, <1>6, <2>1, TransactionTypes DEF SettleHeads, ArrangeAgain, Release, RunTyped
    <2>3. MemoryTyped' /\ ClockTyped'
        BY <1>0, <1>6, <2>2 DEF SettleHeads, ArrangeAgain, Release, clock, MemoryTyped, ClockTyped
    <2>4. tries' \in 0 .. IF Attempts > StartTicks THEN Attempts ELSE StartTicks
        BY <1>0, <1>6, TriesFit DEF SettleHeads, ArrangeAgain, Release, RunTyped
    <2>5. phase' \in Phase /\ held' \subseteq Resource /\ vendor' \in BOOLEAN
        BY <1>0, <1>6, <1>2 DEF SettleHeads, ArrangeAgain, Release, RunTyped, Phase
    <2>6. RunTyped'
        BY <1>0, <1>6, <2>2, <2>4, <2>5 DEF SettleHeads, ArrangeAgain, Release, RunTyped
    <2> QED BY <1>1, <2>2, <2>3, <2>6
<1>7. CASE StartWatching
    <2>1. DeskTyped' /\ MemoryTyped' /\ ClockTyped'
        BY <1>0, <1>7, Constants DEF StartWatching, Watch, desk, memory, DeskTyped, MemoryTyped, ClockTyped
    <2>2. RunTyped'
        BY <1>0, <1>7, TriesFit DEF StartWatching, Watch, RunTyped, Phase
    <2> QED BY <1>1, <2>1, <2>2
<1>8. CASE OnMainQueue
    <2>1. RunTyped'
        BY <1>0, <1>8, WatcherTypes DEF OnMainQueue, run, RunTyped
    <2> QED BY <1>1, <1>8, <2>1, WatcherTypes DEF OnMainQueue
<1>9. ~StillMirrored /\ ~Stop
    BY DEF StillMirrored, Stop
<1> QED BY <1>3, <1>4, <1>5, <1>6, <1>7, <1>8, <1>9 DEF MainThread

LEMMA TypesKept == TypeOK /\ [Next]_vars => TypeOK'
<1> SUFFICES ASSUME TypeOK, [Next]_vars PROVE TypeOK'
    OBVIOUS
<1>0. DeskTyped /\ MemoryTyped /\ ClockTyped /\ RunTyped
    BY TypeParts
<1>1. TypeOK' <=> DeskTyped' /\ MemoryTyped' /\ ClockTyped' /\ RunTyped'
    BY TypeParts, PTL
<1>2. CASE MainThread \/ Stop
    BY <1>2, MainThreadTypes, ShutdownTypes
<1>3. CASE Killed
    <2>1. DeskTyped' /\ MemoryTyped' /\ ClockTyped'
        BY <1>0, <1>3 DEF Killed, memory, clock, DeskTyped, MemoryTyped, ClockTyped
    <2>2. RunTyped'
        BY <1>0, <1>3 DEF Killed, RunTyped, Phase
    <2> QED BY <1>1, <2>1, <2>2
<1>4. CASE Time
    <2>1. ClockTyped' /\ UNCHANGED <<desk, memory, watching, notes, events, refused>>
        BY <1>0, <1>4, TickTypes DEF Time
    <2>2. DeskTyped' /\ MemoryTyped'
        BY <1>0, <2>1 DEF desk, memory, DeskTyped, MemoryTyped
    <2>3. RunTyped'
        BY <1>0, <1>4, <2>1, TriesFit DEF Time, run, RunTyped
    <2> QED BY <1>1, <2>1, <2>2, <2>3
<1>5. CASE Elsewhere
    <2>1. FoldLate \/ (\E d \in Others : ShrinkLate(d)) \/ Outside
        BY <1>5 DEF Elsewhere
    <2>2. /\ DeskTyped' /\ notes' \subseteq Note /\ events' \in 0 .. MaxEvents
          /\ UNCHANGED <<memory, watching, clock, refused>>
        BY <1>0, <2>1, OutsideTypes DEF RunTyped
    <2>3. MemoryTyped' /\ ClockTyped'
        BY <1>0, <2>2 DEF memory, clock, MemoryTyped, ClockTyped
    <2>4. RunTyped'
        BY <1>0, <1>5, <2>2 DEF Elsewhere, run, RunTyped
    <2> QED BY <1>1, <2>2, <2>3, <2>4
<1>6. CASE UNCHANGED vars
    BY <1>0, <1>1, <1>6 DEF vars, desktopVars, desk, memory, clock, run, DeskTyped, MemoryTyped,
       ClockTyped, RunTyped
<1> QED BY <1>2, <1>3, <1>4, <1>5, <1>6 DEF Next

\* The desk, what the driver remembers of it, its clock and the run around it keep their types.
THEOREM TypeCorrect == Spec => []TypeOK
<1>1. Init => TypeOK
    <2> SUFFICES ASSUME Init PROVE DeskTyped /\ MemoryTyped /\ ClockTyped /\ RunTyped
        BY TypeParts
    <2>1. DeskTyped
        BY UsualIsChosen DEF Init, DesktopInit, DeskTyped, Displays
    <2>2. MemoryTyped /\ ClockTyped
        BY Constants DEF Init, DesktopInit, MemoryTyped, ClockTyped
    <2>3. vendor \in BOOLEAN
        <3>1. (~Supervised) \in BOOLEAN
            BY Zenon
        <3> QED BY <3>1 DEF Init
    <2>4. events \in 0 .. MaxEvents /\ tries \in 0 .. IF Attempts > StartTicks THEN Attempts ELSE StartTicks
        BY TriesFit, DesktopAssumption DEF Init, DesktopInit
    <2>5. RunTyped
        BY <2>3, <2>4 DEF Init, DesktopInit, RunTyped, Phase
    <2> QED BY <2>1, <2>2, <2>5
<1> QED BY <1>1, TypesKept, PTL DEF Spec

-------------------------------------------------------------------------------
(* Fallout.                                                                *)

Shrunk(d) == d \in DOMAIN snap \intersect online /\ snap[d].mode # Fallen /\ mode[d] = Fallen

\* The watcher is there from the moment the desk has been restored for the heads.
WatchInv ==
    /\ watching => phase \in {"capture", "first", "serving", "restore", "exited", "killed"}
    /\ phase \in {"capture", "first", "serving"} => watching

\* When it comes, nothing is shrunk; from then on there is a note or a settle for what is.
FalloutInv ==
    ~refused =>
        /\ phase = "unmirror" => \A d \in Displays : ~Shrunk(d)
        /\ phase \in {"capture", "first", "serving"} =>
               \A d \in Displays : Shrunk(d) => timer # None \/ notes # {}

LEMMA WatchKept == WatchInv /\ [Next]_vars => WatchInv'
<1> SUFFICES ASSUME WatchInv, [Next]_vars PROVE WatchInv'
    OBVIOUS
<1>1. CASE StartWatching
    BY <1>1 DEF StartWatching, Watch, WatchInv
<1>2. ASSUME RunShutdown PROVE WatchInv'
    BY <1>2 DEF RunShutdown, WatchInv
<1>3. ASSUME Begin \/ Open \/ Engage \/ Arm \/ TakeSnapshot \/ MakeHeads, ~RunShutdown PROVE WatchInv'
    BY <1>3 DEF Begin, Open, Engage, Arm, TakeSnapshot, MakeHeads, Goto, Return, desktopVars, WatchInv
<1>4. ASSUME SettleHeads \/ ArrangeAgain \/ StartCapture \/ FirstFrames \/ Release, ~RunShutdown
      PROVE  WatchInv'
    <2>1. watching' = watching
        BY <1>4 DEF SettleHeads, ArrangeAgain, StartCapture, FirstFrames, Release, Goto, desktopVars
    <2>2. CASE SettleHeads \/ ArrangeAgain
        BY <1>4, <2>1, <2>2 DEF SettleHeads, ArrangeAgain, WatchInv
    <2>3. CASE StartCapture \/ FirstFrames \/ Release
        BY <1>4, <2>1, <2>3 DEF StartCapture, FirstFrames, Release, Goto, WatchInv
    <2> QED BY <1>4, <2>2, <2>3
<1>5. CASE OnMainQueue
    BY <1>5 DEF OnMainQueue, Watcher, Reconfigured, SettleWaits, SettleNow, run, WatchInv
<1>6. CASE Killed \/ Time \/ UNCHANGED vars
    BY <1>6 DEF Killed, Time, Tick, vars, desktopVars, run, WatchInv
<1>7. CASE Elsewhere
    <2>1. UNCHANGED <<phase, watching>>
        BY <1>7 DEF Elsewhere, FoldLate, ShrinkLate, Outside, Arrive, Leave, PickMode, PickLayout,
                    Noted, run
    <2> QED BY <2>1 DEF WatchInv
<1> QED BY <1>1, <1>2, <1>3, <1>4, <1>5, <1>6, <1>7 DEF Next, MainThread, Stop, StillMirrored

\* A restoring transaction that is committed puts back every mode it has, seated or not.
LEMMA CommitRestores ==
    ASSUME KeepModes, DeskTyped, NEW taken, NEW arrange \in BOOLEAN, Commit(Restored(taken), arrange),
           NEW d \in Displays, d \in DOMAIN taken \intersect online
    PROVE  mode'[d] = taken[d].mode
<1> DEFINE base == Restored(taken)
<1>1. base[d] = [origin |-> taken[d].origin, mode |-> taken[d].mode,
                 mirror |-> IF taken[d].mirror \in online THEN taken[d].mirror ELSE mirror[d]]
    BY DEF Restored
<1>2. base[d].mode = taken[d].mode
    BY <1>1
<1>3. Arranged(base)[d].mode = base[d].mode
    <2> HIDE DEF base
    <2> QED BY <1>1 DEF Arranged
<1>4. AsItIs[d].mode = mode[d]
    BY DEF AsItIs
<1>5. (base = AsItIs /\ UNCHANGED mode) \/ Applied(base) \/ Applied(Arranged(base))
    BY DEF Commit, desk
<1> HIDE DEF base
<1> QED BY <1>2, <1>3, <1>4, <1>5 DEF Applied

\* What happens on the desk while the watcher is there leaves it a note.
LEMMA ElsewhereIsNoted ==
    ASSUME Elsewhere
    PROVE  /\ UNCHANGED <<phase, watching, snap, timer, refused>>
           /\ watching => notes' # {}
<1>1. ASSUME NEW kinds, kinds # {}, Noted(kinds)
      PROVE  UNCHANGED <<watching, snap, timer, refused>> /\ (watching => notes' # {})
    BY <1>1 DEF Noted, memory, clock
<1>2. {"change"} # {} /\ Note # {}
    BY DEF Note
<1>3. Noted({"change"}) \/ Noted(Note)
    BY DEF Elsewhere, FoldLate, ShrinkLate, Outside, Arrive, Leave, PickMode, PickLayout
<1> QED BY <1>1, <1>2, <1>3 DEF Elsewhere, run

LEMMA FalloutKept ==
    ASSUME KeepModes, ~Windows
    PROVE  TypeOK /\ WatchInv /\ FalloutInv /\ [Next]_vars => FalloutInv'
<1> SUFFICES ASSUME TypeOK, WatchInv, FalloutInv, [Next]_vars, ~refused' PROVE FalloutInv'
    BY DEF FalloutInv
<1>0. DeskTyped /\ MemoryTyped /\ ClockTyped /\ None \notin Int
    BY TypeParts, Constants
<1>1. ASSUME phase' \notin {"unmirror", "capture", "first", "serving"} PROVE FalloutInv'
    BY <1>1 DEF FalloutInv
<1>2. CASE SettleHeads
    <2>1. CASE RunShutdown
        BY <1>1, <2>1 DEF RunShutdown
    <2>2. CASE ~RunShutdown
        <3>1. Commit(Restored(snap), TRUE) /\ snap' = snap /\ phase' = "unmirror"
            BY <1>2, <2>2 DEF SettleHeads
        <3>2. online' = online
            BY <1>0, <3>1, CommitShapes DEF DeskTyped, ModesInv
        <3> QED BY <1>0, <3>1, <3>2, CommitRestores DEF FalloutInv, Shrunk
    <2> QED BY <2>1, <2>2
<1>3. CASE ArrangeAgain
    <2>1. Commit(AsItIs, TRUE) /\ snap' = snap /\ phase = "unmirror" /\ phase' = "unmirror" /\ ~refused
        BY <1>3 DEF ArrangeAgain, CommitFails, Commit
    <2>2. online' = online
        BY <1>0, <2>1, CommitShapes DEF DeskTyped, ModesInv
    <2>3. ASSUME NEW d \in Displays PROVE mode'[d] = mode[d]
        <3>1. AsItIs[d].mode = mode[d] /\ Arranged(AsItIs)[d].mode = AsItIs[d].mode
            BY DEF AsItIs, Arranged
        <3>2. UNCHANGED mode \/ Applied(AsItIs) \/ Applied(Arranged(AsItIs))
            BY <2>1 DEF Commit, desk
        <3> QED BY <3>1, <3>2 DEF Applied
    <2> QED BY <2>1, <2>2, <2>3 DEF FalloutInv, Shrunk
<1>4. CASE StartWatching \/ StartCapture \/ FirstFrames
    <2>1. CASE RunShutdown
        BY <1>1, <2>1 DEF RunShutdown
    <2>2. CASE ~RunShutdown
        <3>1. /\ UNCHANGED <<desk, snap, timer, notes, refused>>
              /\ phase \in {"unmirror", "capture", "first"} /\ phase' \in {"capture", "first", "serving"}
            BY <1>4, <2>2 DEF StartWatching, Watch, StartCapture, FirstFrames, Goto, desktopVars,
                              memory, clock
        <3> QED BY <3>1 DEF FalloutInv, Shrunk, desk
    <2> QED BY <2>1, <2>2
<1>5. CASE OnMainQueue
    <2>1. phase = "serving" /\ phase' = "serving"
        BY <1>5 DEF OnMainQueue, run
    <2>2. CASE (\E n \in Note : Reconfigured(n)) \/ SettleWaits
        <3>1. timer' # None
            BY <1>0, <2>2, Constants DEF Reconfigured, SettleWaits, ClockTyped
        <3> QED BY <2>1, <3>1 DEF FalloutInv
    <2>3. CASE SettleNow
        <3>1. Commit(Restored(Adopted), TRUE) /\ snap' = Adopted
            BY <2>3 DEF SettleNow, CommitFails
        <3>2. online' = online
            BY <1>0, <3>1, CommitShapes DEF DeskTyped, ModesInv
        <3>3. \A d \in Displays : ~Shrunk(d)'
            BY <1>0, <3>1, <3>2, CommitRestores DEF Shrunk
        <3> QED BY <2>1, <3>3 DEF FalloutInv
    <2> QED BY <1>5, <2>2, <2>3 DEF OnMainQueue, Watcher
<1>6. CASE Time
    <2>1. UNCHANGED <<desk, snap, notes, refused, phase>> /\ (timer # None => timer' # None)
        BY <1>0, <1>6 DEF Time, Tick, memory, run, ClockTyped
    <2> QED BY <2>1 DEF FalloutInv, Shrunk, desk
<1>7. CASE Elsewhere
    <2>1. UNCHANGED <<phase, watching, snap, timer, refused>> /\ (watching => notes' # {})
        BY <1>7, ElsewhereIsNoted
    <2>2. CASE phase = "unmirror"
        <3>1. FoldLate
            BY <1>7, <2>2 DEF Elsewhere, Blind
        <3>2. UNCHANGED <<online, mode>>
            BY <3>1 DEF FoldLate
        <3> QED BY <2>1, <2>2, <3>2 DEF FalloutInv, Shrunk
    <2>3. CASE phase # "unmirror"
        BY <2>1, <2>3 DEF WatchInv, FalloutInv
    <2> QED BY <2>2, <2>3
<1>8. CASE UNCHANGED vars
    BY <1>8 DEF vars, desktopVars, desk, memory, clock, run, FalloutInv, Shrunk
<1>9. ASSUME Begin \/ Open \/ Engage \/ Arm \/ TakeSnapshot \/ MakeHeads \/ StillMirrored \/ Stop
             \/ Release \/ Killed
      PROVE  phase' \notin {"unmirror", "capture", "first", "serving"}
    BY <1>9 DEF Begin, Open, Engage, Arm, TakeSnapshot, MakeHeads, StillMirrored, Stop, Release, Killed,
       RunShutdown, Return, Goto
<1> QED BY <1>1, <1>2, <1>3, <1>4, <1>5, <1>6, <1>7, <1>8, <1>9 DEF Next, MainThread

\* For any displays, layouts, modes and delays, where modes are kept and macOS changes nothing
\* in the instants the watcher does not see: no display that macOS has shrunk is left without
\* a settle to come, until it is put back.
THEOREM FalloutIsRemembered == Spec => []NoFalloutIsForgotten
<1>1. CASE KeepModes /\ ~Windows
    <2>1. Init => WatchInv /\ FalloutInv
        BY DEF Init, DesktopInit, WatchInv, FalloutInv
    <2>2. TypeOK /\ WatchInv /\ FalloutInv => NoFalloutIsForgotten
        <3> SUFFICES ASSUME TypeOK, WatchInv, FalloutInv, watching, ~refused, ~Over,
                            NEW d \in DOMAIN snap \intersect online,
                            snap[d].mode # Fallen, mode[d] = Fallen
                     PROVE  timer # None \/ notes # {}
            BY DEF NoFalloutIsForgotten
        <3>1. d \in Displays /\ Shrunk(d)
            BY TypeParts DEF DeskTyped, Shrunk
        <3>2. phase \in {"capture", "first", "serving"}
            BY DEF WatchInv, Over
        <3> QED BY <3>1, <3>2 DEF FalloutInv
    <2>3. TypeOK /\ WatchInv /\ FalloutInv /\ [Next]_vars => FalloutInv'
        BY <1>1, FalloutKept
    <2> QED BY <2>1, <2>2, <2>3, TypeCorrect, WatchKept, PTL DEF Spec
<1>2. CASE ~(KeepModes /\ ~Windows)
    <2>1. NoFalloutIsForgotten
        BY <1>2 DEF NoFalloutIsForgotten
    <2> QED BY <2>1, PTL
<1> QED BY <1>1, <1>2

-------------------------------------------------------------------------------
(* The heads.                                                              *)

LEMMA HealthyHeads == Healthy => OwnDesktops /\ Paired
<1> SUFFICES ASSUME Healthy PROVE OwnDesktops /\ Paired
    OBVIOUS
<1>1. \A h \in HeadSet : mirror[h] = None /\ \A d \in online \ {h} : mirror[d] # h
    BY DEF Healthy, InMirrorSet
<1>2. None \notin HeadSet
    BY DesktopAssumption DEF Displays
<1> QED BY <1>1, <1>2 DEF OwnDesktops, Healthy

\* For any heads, layouts and snapshots: a settle that no other follows has found every head in
\* no mirror set and the heads side by side, or was refused.
THEOREM HeadsAreSeenApart == Spec => LastSettleSeesThemApart
<1> DEFINE Seen == timer # None /\ timer' = None =>
                       (OwnDesktops' /\ Paired') \/ "change" \in notes' \/ refused'
<1>1. ASSUME TypeOK, WatchInv, [Next]_vars PROVE Seen
    <2> SUFFICES ASSUME timer # None, timer' = None
                 PROVE  (OwnDesktops' /\ Paired') \/ "change" \in notes' \/ refused'
        OBVIOUS
    <2>0. timer \in Int /\ deadline \in Int /\ None \notin Int
        BY <1>1, TypeParts, Constants DEF ClockTyped
    <2>1. SettleDelay # None
        BY Constants
    <2>2. ~UNCHANGED timer /\ ~Time
        BY <2>0 DEF Time, Tick
    <2>3. OnMainQueue
        BY <1>1, <2>2 DEF Next, vars, desktopVars, clock, MainThread, Stop, Killed, Elsewhere, Begin, Open,
           Engage, Arm, TakeSnapshot, MakeHeads, SettleHeads, ArrangeAgain, StartWatching, Watch,
           StillMirrored, StartCapture, FirstFrames, Release, Return, Goto, RunShutdown, FoldLate,
           ShrinkLate, Outside, Arrive, Leave, PickMode, PickLayout, Noted
    <2>4. SettleNow /\ watching
        BY <1>1, <2>0, <2>1, <2>3 DEF OnMainQueue, Watcher, Reconfigured, SettleWaits, WatchInv
    <2>5. CASE CommitFails(Restored(Adopted), TRUE)
        BY <2>5 DEF CommitFails
    <2>6. CASE Commit(Restored(Adopted), TRUE)
        <3>1. CASE Healthy /\ UNCHANGED <<desk, notes>>
            BY <3>1, HealthyHeads DEF OwnDesktops, Paired, desk
        <3>2. CASE ~(Healthy /\ UNCHANGED <<desk, notes>>)
            <4>1. Applied(Restored(Adopted)) \/ Applied(Arranged(Restored(Adopted)))
                BY <2>6, <3>2 DEF Commit
            <4> QED BY <2>4, <4>1 DEF Applied
        <3> QED BY <3>1, <3>2
    <2> QED BY <2>4, <2>5, <2>6 DEF SettleNow
<1>2. Init => WatchInv
    BY DEF Init, DesktopInit, WatchInv
<1> QED BY <1>1, <1>2, TypeCorrect, WatchKept, PTL DEF Spec, LastSettleSeesThemApart
===============================================================================
