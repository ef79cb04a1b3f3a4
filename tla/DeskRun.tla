-------------------------------- MODULE DeskRun --------------------------------
(***************************************************************************)
(* One run of the worker from claiming the dock to giving it back          *)
(* (cmd_run and run_shutdown in oizys/main.c), around the desk it changes  *)
(* (Desktop).  Everything here happens on the main thread, in order: until *)
(* dispatch_main the callbacks of the window server wait, and a failure    *)
(* leaves by way of whatever was acquired before it.                       *)
(***************************************************************************)
EXTENDS Desktop

CONSTANTS
    Supervised,         \* started by the supervisor, which owns DisplayLink
    Attempts,           \* the 5 times a mirrored head is arranged again
    StartTicks,         \* bound: settle delays that pass between watching and serving
    Windows             \* macOS may act where the watcher does not see it: before its
                        \* callback is registered, and while a settle is due

ASSUME DeskRunAssumption ==
    /\ {Supervised, Windows} \subseteq BOOLEAN /\ {Attempts, StartTicks} \subseteq Nat

VARIABLES
    phase,          \* where the main thread is
    held,           \* what g_run owns
    vendor,         \* DisplayLink is running
    tries           \* arranging again; then settle delays spent starting the capture

run == <<phase, held, vendor, tries>>
vars == <<desktopVars, run>>

Phase == {"begin", "open", "engage", "arm", "snapshot", "create", "settle", "unmirror",
          "capture", "first", "serving", "restore", "exited", "killed"}
Resource == {"session", "driver", "heads", "capture"}

TypeOK ==
    /\ DesktopTypeOK
    /\ phase \in Phase /\ held \subseteq Resource /\ vendor \in BOOLEAN
    /\ tries \in 0 .. IF Attempts > StartTicks THEN Attempts ELSE StartTicks

Init ==
    /\ DesktopInit
    /\ phase = "begin" /\ held = {} /\ vendor = ~Supervised /\ tries = 0

-------------------------------------------------------------------------------
(* Starting.                                                               *)

Goto(p) == phase' = p /\ UNCHANGED <<desktopVars, vendor, tries>>

Begin ==
    /\ phase = "begin"
    /\ vendor' = (vendor /\ Supervised)
    /\ phase' = "open"
    /\ UNCHANGED <<desktopVars, held, tries>>

\* Mutant: an early failure does not start DisplayLink again.
Return_VendorForgotten(kept) ==
    /\ phase' = "exited" /\ held' = kept
    /\ UNCHANGED <<desktopVars, vendor, tries>>

\* What fails before anything of the desk was touched returns by itself.
Return(kept) ==
    /\ phase' = "exited" /\ held' = kept
    /\ vendor' = ~Supervised
    /\ UNCHANGED <<desktopVars, tries>>

Open ==
    /\ phase = "open"
    /\ \/ held' = {"session"} /\ Goto("engage")
       \/ Return({})

Engage ==
    /\ phase = "engage"
    /\ \/ held' = held \union {"driver"} /\ Goto("arm")
       \/ Return(held \ {"session"})

\* Stops the capture, then drops the heads, which is one more relayout.
RunShutdown ==
    /\ phase' = "restore" /\ held' = held \ {"capture", "heads"}
    /\ IF online \intersect HeadSet = {}
       THEN UNCHANGED <<desk, notes>>
       ELSE /\ Relaid(online \ HeadSet, online \ HeadSet)
            /\ notes' = IF watching THEN Note ELSE notes
    /\ UNCHANGED <<memory, watching, clock, events, refused, vendor, tries>>

\* Every driven head has its EDID and its mode.
Arm ==
    /\ phase = "arm"
    /\ (UNCHANGED held /\ Goto("snapshot")) \/ RunShutdown

TakeSnapshot ==
    /\ phase = "snapshot"
    /\ snap' = Snapshot
    /\ phase' = "create"
    /\ UNCHANGED <<desk, seat, watching, clock, notes, events, refused, held, vendor, tries>>

\* With its decoys when a unit is shared; what it made it drops when it fails.
MakeHeads ==
    /\ phase = "create"
    /\ \/ /\ Relaid(online, online \union HeadSet)
          /\ held' = held \union {"heads"} /\ phase' = "settle"
          /\ UNCHANGED <<memory, watching, clock, notes, events, refused, vendor, tries>>
       \/ RunShutdown

SettleHeads ==
    /\ phase = "settle"
    /\ \/ /\ Commit(Restored(snap), TRUE)
          /\ phase' = "unmirror" /\ tries' = 0
          /\ UNCHANGED <<snap, watching, clock, events, held, vendor>>
       \/ RunShutdown

\* oizys_display_is_mirrored: the head is the copy.
Mirrored == \E h \in HeadSet : mirror[h] # None

ArrangeAgain ==
    /\ phase = "unmirror" /\ Mirrored /\ tries < Attempts
    /\ tries' = tries + 1
    /\ Commit(AsItIs, TRUE) \/ CommitFails(AsItIs, TRUE)
    /\ UNCHANGED <<snap, watching, clock, events, phase, held, vendor>>

StartWatching ==
    /\ phase = "unmirror" /\ ~Mirrored
    /\ Watch
    /\ phase' = "capture" /\ tries' = 0
    /\ UNCHANGED <<held, vendor>>

StillMirrored ==
    /\ phase = "unmirror" /\ Mirrored /\ tries = Attempts
    /\ RunShutdown

StartCapture ==
    /\ phase = "capture"
    /\ (held' = held \union {"capture"} /\ Goto("first")) \/ RunShutdown

\* A first frame from every head, or giving up; then dispatch_main.
FirstFrames ==
    /\ phase = "first"
    /\ (UNCHANGED held /\ Goto("serving")) \/ RunShutdown

-------------------------------------------------------------------------------
(* Serving and ending.                                                     *)

OnMainQueue == phase = "serving" /\ Watcher /\ UNCHANGED run

\* A signal, a failed head, or a supervisor that has gone.
Stop == phase = "serving" /\ RunShutdown

Release ==
    /\ phase = "restore"
    /\ Commit(Restored(snap), FALSE) \/ CommitFails(Restored(snap), FALSE)
    /\ phase' = "exited" /\ held' = {} /\ vendor' = ~Supervised
    /\ UNCHANGED <<snap, watching, clock, events, tries>>

\* SIGTERM before the handlers are installed, or SIGKILL: the heads go with the process.
Killed ==
    /\ phase \notin {"exited", "killed"}
    /\ phase' = "killed" /\ held' = {}
    /\ online' = online \ HeadSet
    /\ UNCHANGED <<origin, mode, mirror, memory, watching, clock, notes, events, refused, vendor, tries>>

\* Time: the main queue runs what is due before it passes, once it runs at all.
Time ==
    \/ phase = "serving" /\ ~Due /\ Tick /\ UNCHANGED run
    \/ /\ phase \in {"capture", "first"} /\ tries < StartTicks
       /\ Tick
       /\ tries' = tries + 1 /\ UNCHANGED <<phase, held, vendor>>

Blind == phase = "unmirror" \/ (phase = "serving" /\ timer = 0)

\* macOS and the user act between two steps of the main thread.
Elsewhere ==
    /\ phase \notin {"exited", "killed", "restore"}
    /\ \/ FoldLate /\ (Blind => Windows \/ phase = "unmirror")
       \/ phase \in {"capture", "first"} /\ \E d \in Others : ShrinkLate(d)
       \/ Outside /\ (Blind => Windows)
    /\ UNCHANGED run

MainThread ==
    \/ Begin \/ Open \/ Engage \/ Arm \/ TakeSnapshot \/ MakeHeads \/ SettleHeads
    \/ ArrangeAgain \/ StartWatching \/ StillMirrored \/ StartCapture \/ FirstFrames
    \/ OnMainQueue \/ Release

Next == MainThread \/ Stop \/ Killed \/ Time \/ Elsewhere

Spec == Init /\ [][Next]_vars

\* The main thread goes on as long as it has something to do, and time passes.
FairSpec == Spec /\ WF_vars(MainThread) /\ WF_vars(Time)

-------------------------------------------------------------------------------
(* What it promises.                                                       *)

Over == phase \in {"exited", "killed", "restore"}

\* However a run ends by itself, from whichever step it failed at, nothing it acquired is
\* left, the heads are gone, DisplayLink has the dock unless the supervisor decides that,
\* and no display the snapshot covers was left at a mode macOS chose for the heads' sake.
NothingLeftBehind ==
    phase = "exited" =>
        /\ held = {} /\ online \intersect HeadSet = {}
        /\ vendor = ~Supervised
        /\ ~refused => \A d \in DOMAIN snap \intersect online :
                          snap[d].mode # Fallen => mode[d] # Fallen

\* A head in a mirror set scans out some other display's desktop.  Once a callback has
\* armed a settle, the heads end up in no mirror set and side by side.
OwnDesktops ==
    /\ \A h \in HeadSet : mirror[h] = None
    /\ \A d \in online : mirror[d] \notin HeadSet

HeadsComeApart == (timer # None) ~> ((OwnDesktops /\ Paired) \/ refused \/ Over)

\* What it rests on: no settle is the last one that leaves the heads folded or apart.  One that
\* had nothing to stage found them as they should be, and one that staged anything has raised
\* the callback that brings the next.
LastSettleSeesThemApart ==
    [][timer # None /\ timer' = None =>
           (OwnDesktops' /\ Paired') \/ "change" \in notes' \/ refused']_vars

\* The settles of a burst end: the driver does not go on answering the callbacks its own
\* commits raise, whatever the snapshot and the seats it remembers disagree about.
SettlesDown == <>[](Over \/ (timer = None /\ notes = {}))

\* A display that was running at a mode its user chose when the snapshot was taken, and
\* that macOS shrank because of a relayout, is put back.
KnownFalloutIsPutBack ==
    \A d \in Others :
        (watching /\ d \in DOMAIN snap /\ snap[d].mode # Fallen /\ mode[d] = Fallen)
            ~> (mode[d] # Fallen \/ d \notin online \/ refused \/ Over)

\* What KnownFalloutIsPutBack rests on: a display that macOS shrank has a settle on its way, or
\* a callback that will arm one, until it is put back; no settle is the last before that.
NoFalloutIsForgotten ==
    KeepModes /\ ~Windows /\ watching /\ ~refused /\ ~Over =>
        \A d \in DOMAIN snap \intersect online :
            snap[d].mode # Fallen /\ mode[d] = Fallen => timer # None \/ notes # {}

\* Away from any attach, a settle never moves what is the user's own: no mode and no
\* display other than the heads.
QuietSettleKeepsChoices ==
    [][(timer = 0 /\ timer' = None /\ age >= TopologySettle) =>
           /\ mode' = mode
           /\ \A d \in Others : origin'[d] = origin[d]]_vars

\* Heads the user seated side by side, once a quiet settle has seen them there, are put
\* back after a relayout.
AdoptedSeatsComeBack ==
    <>[](Over \/ refused \/ (watching /\ HeadSet \subseteq DOMAIN snap
                      /\ (\A i \in 2 .. Len(Heads) :
                            snap[Heads[i]].origin = snap[Heads[i - 1]].origin + 1)
                      => \A h \in HeadSet : origin[h] = snap[h].origin))

\* A display arriving or leaving makes macOS shrink others: that is fallout, and it is put
\* back, on every display that was not that small before it.
FalloutIsPutBack ==
    \A d \in Others :
        (timer # None /\ mode[d] = Fallen /\ ~(d \in DOMAIN snap /\ snap[d].mode = Fallen))
            ~> (mode[d] # Fallen \/ d \notin online \/ Over)
===============================================================================
