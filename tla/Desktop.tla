-------------------------------- MODULE Desktop --------------------------------
(***************************************************************************)
(* The arrangement of the desk (OizysCore/display.c): the snapshot taken   *)
(* before the virtual heads exist and put back after every relayout, the   *)
(* seating of the heads, the one transaction that commits both, and the    *)
(* watcher that turns bursts of reconfiguration callbacks into settles.    *)
(*                                                                         *)
(* macOS is the environment: it moves, shrinks and mirrors displays when   *)
(* one comes or goes, and it applies what a transaction stages.  A display *)
(* has an origin (whole steps along one row: a head is one step wide), a   *)
(* mode and the display it mirrors.  Time is counted in settle delays.     *)
(*                                                                         *)
(* A plan and its commit are one step: nothing else moves a display while  *)
(* a transaction of the main thread is open.                               *)
(***************************************************************************)
EXTENDS Integers, Sequences, FiniteSets

CONSTANTS
    Heads,              \* the driven heads, left to right: a sequence of displays
    Others,             \* displays that are not heads
    Builtin,            \* the one of them that never leaves: the main display
    Native,             \* the verified native panel, or None
    None,
    KeepModes,          \* display.keep_modes
    Fallen,             \* the mode macOS gives a display for a set it has not seen
    Chosen,             \* the modes users choose
    Layouts,            \* the origins macOS or a user may give: functions on displays
    SettleDelay,        \* OIZYS_SETTLE_DELAY_S
    TopologySettle,     \* OIZYS_TOPOLOGY_SETTLE_S, in the same unit
    MayFail,            \* one transaction of the watcher or of the end may be refused
    MaxEvents           \* bound: what macOS and the user do

HeadSet == {Heads[i] : i \in DOMAIN Heads}
Displays == HeadSet \union Others
Modes == Chosen \union {Fallen}
Usual == CHOOSE m \in Chosen : TRUE

ASSUME DesktopAssumption ==
    /\ Heads \in Seq(HeadSet) /\ Len(Heads) > 0 /\ HeadSet \cap Others = {}
    /\ Builtin \in Others /\ Native \in Others \union {None} /\ None \notin Displays \union Int
    /\ Fallen \notin Chosen /\ Chosen # {}
    /\ Layouts \subseteq [Displays -> Int]
    /\ {SettleDelay, TopologySettle} \subseteq Nat \ {0} /\ MaxEvents \in Nat
    /\ {KeepModes, MayFail} \subseteq BOOLEAN

VARIABLES
    \* The desk, as the window server has it.
    online, origin, mode, mirror,
    \* The driver.
    snap,           \* g_snapshot: what each display it covers was like
    seat,           \* g_seat_x: the origin of the first head, None before g_seated
    watching,       \* the callback is registered and g_watch filled in
    age,            \* since g_topology_at, capped at TopologySettle
    deadline,       \* until g_settle_deadline
    timer,          \* until the dispatched block runs; None when not armed
    notes,          \* callbacks macOS has raised and the main thread not run
    events,         \* bound
    refused         \* history: a transaction was

desk == <<online, origin, mode, mirror>>
clock == <<age, deadline, timer>>
memory == <<snap, seat>>
desktopVars == <<desk, memory, watching, clock, notes, events, refused>>

Note == {"topology", "change"}
Face == [origin : Int, mode : Modes, mirror : Displays \union {None}]

DesktopTypeOK ==
    /\ online \subseteq Displays
    /\ origin \in [Displays -> Int]
    /\ mode \in [Displays -> Modes]
    /\ mirror \in [Displays -> Displays \union {None}]
    /\ DOMAIN snap \subseteq Displays /\ \A d \in DOMAIN snap : snap[d] \in Face
    /\ seat \in Int \union {None}
    /\ watching \in BOOLEAN
    /\ age \in 0 .. TopologySettle /\ deadline \in 0 .. SettleDelay
    /\ timer \in 0 .. SettleDelay \union {None}
    /\ notes \subseteq Note /\ events \in 0 .. MaxEvents /\ refused \in BOOLEAN

DesktopInit ==
    /\ online \in {present \in SUBSET Others : Builtin \in present}
    /\ origin = [d \in Displays |-> 0]
    /\ mode = [d \in Displays |-> Usual]
    /\ mirror = [d \in Displays |-> None]
    /\ snap = << >> /\ seat = None
    /\ watching = FALSE /\ age = TopologySettle /\ deadline = 0 /\ timer = None
    /\ notes = {} /\ events = 0 /\ refused = FALSE

-------------------------------------------------------------------------------
(* What the driver makes of the desk.                                      *)

Snapshot == [d \in online |-> [origin |-> origin[d], mode |-> mode[d], mirror |-> mirror[d]]]

\* Mutant: only a head that is the copy counts as mirrored.
InMirrorSet_CopyOnly(h) == mirror[h] # None

\* A head is the copy, or the display another one copies.
InMirrorSet(h) == mirror[h] # None \/ \E d \in online \ {h} : mirror[d] = h

Paired == \A i \in 2 .. Len(Heads) : origin[Heads[i]] = origin[Heads[i - 1]] + 1

Healthy == Paired /\ \A h \in HeadSet : ~InMirrorSet(h)

\* plan_restore: what each display is staged to be, from a snapshot.
Restored(taken) == [d \in Displays |->
    IF d \notin DOMAIN taken \intersect online
    THEN [origin |-> origin[d], mode |-> mode[d], mirror |-> mirror[d]]
    ELSE [origin |-> taken[d].origin,
          mode |-> IF KeepModes THEN taken[d].mode ELSE mode[d],
          mirror |-> IF taken[d].mirror \in online THEN taken[d].mirror ELSE mirror[d]]]

AsItIs == [d \in Displays |-> [origin |-> origin[d], mode |-> mode[d], mirror |-> mirror[d]]]

\* The first seat: where the heads were, beside the native panel, or over the main one.
Anchor ==
    IF seat # None THEN seat
    ELSE IF Native \in online THEN origin[Native] - Len(Heads)
    ELSE origin[Builtin]

SeatOf(first) == [h \in HeadSet |-> first + (CHOOSE i \in DOMAIN Heads : Heads[i] = h) - 1]

\* plan_arrange over what is staged: the mirror sets are those of the desk as it is.
Arranged(staged) == [d \in Displays |->
    [staged[d] EXCEPT
        !.origin = IF d \in HeadSet THEN SeatOf(Anchor)[d] ELSE @,
        !.mirror = IF (d \in HeadSet /\ mirror[d] # None) \/ mirror[d] \in HeadSet
                   THEN None ELSE @]]

-------------------------------------------------------------------------------
(* One transaction: base is what the restoring plan stages, arrange says    *)
(* whether the heads are seated in it too.                                 *)

Applied(staged) ==
    /\ origin' = [d \in Displays |-> staged[d].origin]
    /\ mode' = [d \in Displays |-> staged[d].mode]
    /\ mirror' = [d \in Displays |-> staged[d].mirror]
    /\ notes' = IF watching THEN notes \union {"change"} ELSE notes
    /\ UNCHANGED online

\* Mutant: a transaction is committed although nothing was staged.
Commit_Always(base, arrange) ==
    LET seating == arrange /\ ~Healthy
    IN  /\ Applied(IF seating THEN Arranged(base) ELSE base)
        /\ UNCHANGED refused
        /\ seat' = IF ~arrange THEN seat
                   ELSE IF Healthy THEN origin[Heads[1]] ELSE Anchor

\* The desk is blanked only when something was staged; the seats staged are adopted, and
\* seats that are right already were noted while planning.
Commit(base, arrange) ==
    LET seating == arrange /\ ~Healthy
    IN  /\ IF base # AsItIs \/ seating
           THEN Applied(IF seating THEN Arranged(base) ELSE base)
           ELSE UNCHANGED <<desk, notes>>
        /\ UNCHANGED refused
        /\ seat' = IF ~arrange THEN seat
                   ELSE IF Healthy THEN origin[Heads[1]] ELSE Anchor

\* The transaction could not be begun, or what it staged could not be committed.
CommitFails(base, arrange) ==
    /\ MayFail /\ ~refused /\ refused' = TRUE
    /\ \/ UNCHANGED seat
       \/ arrange /\ Healthy /\ base # AsItIs /\ seat' = origin[Heads[1]]
    /\ UNCHANGED <<desk, notes>>

-------------------------------------------------------------------------------
(* The watcher, on the main queue.                                         *)

\* Mutant: arming the watcher does not count as a topology change.
Watch_AgeKept ==
    /\ watching' = TRUE /\ UNCHANGED age
    /\ UNCHANGED <<desk, memory, deadline, timer, notes, events, refused>>

Watch ==
    /\ watching' = TRUE /\ age' = 0
    /\ UNCHANGED <<desk, memory, deadline, timer, notes, events, refused>>

\* reconfigured: the settled half of one notification.
Reconfigured(n) ==
    /\ n \in notes
    /\ notes' = notes \ {n}
    /\ age' = IF n = "topology" THEN 0 ELSE age
    /\ deadline' = SettleDelay
    /\ timer' = IF timer = None THEN SettleDelay ELSE timer
    /\ UNCHANGED <<desk, memory, watching, events, refused>>

\* settle_now before the deadline that moved while it waited.
SettleWaits ==
    /\ timer = 0 /\ deadline > 0
    /\ timer' = deadline
    /\ UNCHANGED <<desk, memory, watching, age, deadline, notes, events, refused>>

\* Mutant: what the user picks is never taken into the snapshot.
Adopted_Never == snap

\* A mode that moved long after the last attach is the user's own choice.
Adopted == IF age >= TopologySettle THEN Snapshot ELSE snap

SettleNow ==
    /\ timer = 0 /\ deadline = 0
    /\ timer' = None
    /\ snap' = Adopted
    /\ \/ Commit(Restored(Adopted), TRUE)
       \/ CommitFails(Restored(Adopted), TRUE)
    /\ UNCHANGED <<watching, age, deadline, events>>

Watcher == (\E n \in Note : Reconfigured(n)) \/ SettleWaits \/ SettleNow

Due == notes # {} \/ timer = 0

Tick ==
    /\ timer # 0
    /\ age' = IF age < TopologySettle THEN age + 1 ELSE age
    /\ deadline' = IF deadline > 0 THEN deadline - 1 ELSE 0
    /\ timer' = IF timer = None THEN None ELSE timer - 1
    /\ <<age', deadline', timer'>> # clock
    /\ UNCHANGED <<desk, memory, watching, notes, events, refused>>

-------------------------------------------------------------------------------
(* macOS and the user.                                                     *)

Noted(kinds) ==
    /\ events < MaxEvents /\ events' = events + 1
    /\ notes' = IF watching THEN notes \union kinds ELSE notes
    /\ UNCHANGED <<memory, watching, clock, refused>>

\* A set of displays folded together: none, a head copying one, or one copying a head.
Folds(present) ==
    {[d \in Displays |-> None]} \union
    {[d \in Displays |-> IF d = p[1] THEN p[2] ELSE None] :
        p \in {q \in present \X present :
                (q[1] \in HeadSet) # (q[2] \in HeadSet) /\ Builtin \notin {q[1], q[2]}}}

\* The relayout that follows a display coming or going: displays that stay may shrink, one
\* that arrives brings a mode of its own.  (What is absent has no place: 0, Usual.)
Relaid(stayed, present) ==
    /\ online' = present
    /\ \E l \in Layouts :
           origin' = [d \in Displays |-> IF d \in present THEN l[d] ELSE 0]
    /\ \E shrunk \in SUBSET stayed, own \in [(present \ online) \ HeadSet -> Chosen] :
           mode' = [d \in Displays |-> IF d \in shrunk THEN Fallen
                                      ELSE IF d \in DOMAIN own THEN own[d]
                                      ELSE IF d \in present THEN mode[d] ELSE Usual]
    /\ mirror' \in Folds(present)

Arrive(d) ==
    /\ d \in Others \ online
    /\ Noted(Note)
    /\ Relaid(online \ HeadSet, online \union {d})

Leave(d) ==
    /\ d \in (Others \intersect online) \ {Builtin}
    /\ Noted(Note)
    /\ Relaid(online \ (HeadSet \union {d}), online \ {d})

\* The last callback of an attach: a mirror set put in place without a display coming.
FoldLate ==
    /\ Noted({"change"})
    /\ mirror' \in Folds(online) \ {mirror}
    /\ UNCHANGED <<online, origin, mode>>

\* A resolution that moves after the callbacks of the relayout it belongs to.
ShrinkLate(d) ==
    /\ d \in Others \intersect online /\ mode[d] # Fallen
    /\ Noted({"change"})
    /\ mode' = [mode EXCEPT ![d] = Fallen]
    /\ UNCHANGED <<online, origin, mirror>>

PickMode(d, m) ==
    /\ d \in Others \intersect online /\ m \in Chosen \ {mode[d]}
    /\ Noted({"change"})
    /\ mode' = [mode EXCEPT ![d] = m]
    /\ UNCHANGED <<online, origin, mirror>>

PickLayout(l) ==
    /\ origin' = [d \in Displays |-> IF d \in online THEN l[d] ELSE 0]
    /\ origin' # origin
    /\ Noted({"change"})
    /\ UNCHANGED <<online, mode, mirror>>

Outside ==
    \/ \E d \in Others : Arrive(d) \/ Leave(d) \/ (\E m \in Chosen : PickMode(d, m))
    \/ \E l \in Layouts : PickLayout(l)
===============================================================================
