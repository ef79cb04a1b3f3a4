------------------------------ MODULE Calibration ------------------------------
(***************************************************************************)
(* Matching the displays with a phone (CalibrationSession.swift): the      *)
(* session on the app's main thread, the pages in the phone's browser that *)
(* measure the patch it lights and post what they saw, the solver that     *)
(* runs in the background, and the correction file the result goes to,     *)
(* which `oizys calibrate` commands change too.  Requests, replies and     *)
(* connections may be lost at any moment, and a sitting may be stopped or  *)
(* started again at any moment.                                            *)
(***************************************************************************)
EXTENDS Integers, FiniteSets

CONSTANTS
    Pages,          \* pages open on the phone, or on another one
    Patches,        \* patches of a sitting: each level on each display, in order
    MaxSittings,    \* bound: sittings started
    MaxTheirs       \* bound: times somebody else changes the correction file

ASSUME CalibrationAssumption ==
    /\ Patches \in Nat \ {0} /\ MaxSittings \in Nat /\ MaxTheirs \in Nat

VARIABLES
    phase,
    sitting,    \* the sitting whose tokens are good, counting from 1
    open,       \* the listener, its certificate and its deadline are there
    used,       \* the one-time token of the QR code has been
    current,    \* the display and patch it waits for
    lit,        \* the patch on the screens; None for none
    readings,   \* patch -> what was lit when the camera saw it
    unconfirmed,\* last replies whose fate has not been reported
    solves,     \* solvers: the readings each has, and whether sessionID is still theirs
    file,       \* whose correction is stored: Nobody, Theirs or a sitting's
    saved,      \* savedCorrection: what it wrote and what it found there
    writing,    \* what it is between reading the file and writing it
    page,       \* what each page is doing
    theirs      \* times somebody else changed the file

server == <<open, used, current, lit, readings>>
store == <<file, saved, writing, theirs>>
vars == <<phase, sitting, server, unconfirmed, solves, store, page>>

None == -1
Nobody == 0
Theirs == MaxSittings + 1
Owner == Nobody .. Theirs

Active == phase \in {"waitingForPhone", "measuring", "solving"}

NoUndo == [wrote |-> None]
Nothing == [what |-> "nothing"]
Blank == [at |-> "none", of |-> 0, patch |-> 0, seen |-> None]

TypeOK ==
    /\ phase \in {"idle", "waitingForPhone", "measuring", "solving", "done", "failed"}
    /\ sitting \in 0 .. MaxSittings /\ open \in BOOLEAN /\ used \in BOOLEAN
    /\ current \in 0 .. Patches - 1 /\ lit \in {None} \union 0 .. Patches - 1
    /\ DOMAIN readings \subseteq 0 .. Patches - 1
    /\ unconfirmed \in Nat
    /\ solves \subseteq [of : 1 .. MaxSittings, live : BOOLEAN]
    /\ file \in Owner /\ saved \in {NoUndo} \union [wrote : Owner, found : Owner]
    /\ writing.what \in {"nothing", "save", "undo"}
    /\ \A p \in Pages : page[p].at \in
           {"none", "entering", "entered", "loaded", "posting", "answered", "last"}

Init ==
    /\ phase = "idle" /\ sitting = 0
    /\ open = FALSE /\ used = TRUE /\ current = 0 /\ lit = None /\ readings = <<>>
    /\ unconfirmed = 0 /\ solves = {}
    /\ file \in {Nobody, Theirs} /\ saved = NoUndo /\ writing = Nothing /\ theirs = 0
    /\ page = [p \in Pages |-> Blank]

-------------------------------------------------------------------------------
(* The session.                                                            *)

\* shutdown, which also cancels the connections; what they were replying still reports.
Shutdown ==
    /\ open' = FALSE /\ used' = TRUE /\ lit' = None
    /\ UNCHANGED <<current, readings>>

\* A new sessionID.
Disowned == {[s EXCEPT !.live = FALSE] : s \in solves}

Stop ==
    /\ phase # "idle"
    /\ phase' = "idle" /\ solves' = Disowned
    /\ Shutdown
    /\ UNCHANGED <<sitting, unconfirmed, store, page>>

\* Stops what there was; with fresh tokens and a listener, or not.
Start ==
    /\ ~Active /\ sitting < MaxSittings
    /\ solves' = Disowned
    /\ \/ /\ phase' = "waitingForPhone" /\ sitting' = sitting + 1
          /\ open' = TRUE /\ used' = FALSE /\ lit' = None
       \/ /\ phase' = "failed"
          /\ open' = FALSE /\ used' = TRUE /\ lit' = None /\ UNCHANGED sitting
    /\ current' = 0 /\ readings' = <<>>
    /\ UNCHANGED <<unconfirmed, store, page>>

\* Mutant: once a phone has come, the deadline no longer applies.
Deadline_ForThePhone ==
    /\ open /\ phase = "waitingForPhone"
    /\ phase' = "failed"
    /\ Shutdown
    /\ UNCHANGED <<sitting, unconfirmed, solves, store, page>>

\* After 600 s, or when the listener fails.
Deadline ==
    /\ open
    /\ phase' = "failed"
    /\ Shutdown
    /\ UNCHANGED <<sitting, unconfirmed, solves, store, page>>

\* present, on a display whose screen stays: of one that has gone it shows nothing, and does not
\* notice (README, section 5).
Light(patch) == current' = patch /\ lit' = patch /\ phase' = "measuring"

-------------------------------------------------------------------------------
(* Requests, as handle answers them.                                       *)

Becomes(p, at) == page' = [page EXCEPT ![p].at = at]

\* The tokens are those of the sitting that served them.
Known(p) == open /\ page[p].of = sitting

HandleEntry(p) ==
    /\ page[p].at = "entering"
    /\ IF Known(p) /\ ~used
       THEN used' = TRUE /\ Becomes(p, "entered")
       ELSE UNCHANGED used /\ Becomes(p, "none")
    /\ UNCHANGED <<phase, sitting, open, current, lit, readings, unconfirmed, solves, store>>

\* The page, at the patch it is to begin with; the first one starts the measuring.
HandlePage(p) ==
    /\ page[p].at = "entered"
    /\ IF Known(p) /\ phase \in {"waitingForPhone", "measuring"}
       THEN /\ IF phase = "waitingForPhone" THEN Light(0) ELSE UNCHANGED <<current, lit, phase>>
            /\ page' = [page EXCEPT ![p].at = "loaded", ![p].patch = current']
       ELSE UNCHANGED <<current, lit, phase>> /\ Becomes(p, "none")
    /\ UNCHANGED <<sitting, open, used, readings, unconfirmed, solves, store>>

\* Mutant: a reading is filed whichever patch it says it is of.
Accepts_AnyPatch(p) == Known(p) /\ phase = "measuring"

\* decodeReading: the reading is of the patch that is waited for.
Accepts(p) == Known(p) /\ phase = "measuring" /\ page[p].patch = current

Ingest(p) ==
    /\ page[p].at = "posting" /\ Accepts(p)
    /\ readings' = [n \in DOMAIN readings \union {page[p].patch} |->
                       IF n = page[p].patch THEN page[p].seen ELSE readings[n]]
    /\ IF page[p].patch + 1 < Patches
       THEN /\ Light(page[p].patch + 1)
            /\ page' = [page EXCEPT ![p].at = "answered", ![p].patch = current']
            /\ UNCHANGED unconfirmed
       ELSE /\ phase' = "solving" /\ lit' = None
            /\ unconfirmed' = unconfirmed + 1
            /\ Becomes(p, "last")
            /\ UNCHANGED current
    /\ UNCHANGED <<sitting, open, used, solves, store>>

\* 400 leaves the page where it was; 404 and 410 end it.
Refuse(p) ==
    /\ page[p].at = "posting" /\ ~Accepts(p)
    /\ Becomes(p, IF Known(p) /\ phase = "measuring" THEN "loaded" ELSE "none")
    /\ UNCHANGED <<phase, sitting, server, unconfirmed, solves, store>>

\* solve: the server goes and the solver gets the readings.
Solve ==
    /\ solves' = Disowned \union {[of |-> sitting, live |-> TRUE]}
    /\ phase' = "solving"
    /\ Shutdown

\* What a last reply came to, whichever sitting it was of.
LastReplyReported ==
    /\ unconfirmed > 0
    /\ unconfirmed' = unconfirmed - 1
    /\ IF phase # "solving"
       THEN UNCHANGED <<phase, server, solves>>
       ELSE \/ Solve
            \/ phase' = "failed" /\ Shutdown /\ UNCHANGED solves
    /\ UNCHANGED <<sitting, store, page>>

-------------------------------------------------------------------------------
(* The solver and the correction.                                          *)

\* Mutant: the answer of any session's solver is taken.
Wanted_AnySession(s) == phase = "solving"

Wanted(s) == s.live /\ phase = "solving"

\* Within 11 s, when it is killed; nobody looks at the answer of a run that is not wanted.
SolverAnswers(s) ==
    /\ s \in solves
    /\ solves' = solves \ {s}
    /\ IF ~Wanted(s)
       THEN UNCHANGED <<phase, writing>>
       ELSE \/ phase' = "failed" /\ UNCHANGED writing
            \/ /\ writing' = [what |-> "save", result |-> [wrote |-> s.of, found |-> file]]
               /\ UNCHANGED phase
    /\ UNCHANGED <<sitting, server, unconfirmed, file, saved, theirs, page>>

\* The rename, which may fail and then leaves the correction and the undo there were.
FinishSave ==
    /\ writing.what = "save" /\ writing' = Nothing
    /\ \/ saved' = writing.result /\ file' = saved'.wrote /\ phase' = "done"
       \/ phase' = "failed" /\ UNCHANGED <<saved, file>>
    /\ UNCHANGED <<sitting, server, unconfirmed, solves, theirs, page>>

\* restore looks before it puts anything back.
Ours == file = saved.wrote

Undo ==
    /\ ~Active /\ saved # NoUndo
    /\ IF Ours THEN writing' = [what |-> "undo", since |-> theirs] /\ UNCHANGED phase
               ELSE phase' = "failed" /\ UNCHANGED writing
    /\ UNCHANGED <<sitting, server, unconfirmed, solves, file, saved, theirs, page>>

FinishUndo ==
    /\ writing.what = "undo" /\ writing' = Nothing
    /\ \/ file' = saved.found /\ saved' = NoUndo /\ phase' = "done"
       \/ phase' = "failed" /\ UNCHANGED <<file, saved>>
    /\ UNCHANGED <<sitting, server, unconfirmed, solves, theirs, page>>

-------------------------------------------------------------------------------
(* The phone and the rest of the world.                                    *)

\* Scans the QR code of the sitting that shows one.
Scan(p) ==
    /\ page[p].at = "none" /\ open
    /\ page' = [page EXCEPT ![p].at = "entering", ![p].of = sitting]
    /\ UNCHANGED <<phase, sitting, server, unconfirmed, solves, store>>

\* Loads the page it has been sent to again.
Reload(p) ==
    /\ page[p].at \in {"none", "loaded"} /\ page[p].of # 0 /\ used
    /\ Becomes(p, "entered")
    /\ UNCHANGED <<phase, sitting, server, unconfirmed, solves, store>>

\* The camera, after its 900 ms, and the request with what it saw.
Measure(p) ==
    /\ page[p].at = "loaded" /\ lit # None
    /\ page' = [page EXCEPT ![p].at = "posting", ![p].seen = lit]
    /\ UNCHANGED <<phase, sitting, server, unconfirmed, solves, store>>

Answered(p) ==
    /\ page[p].at \in {"answered", "last"}
    /\ Becomes(p, IF page[p].at = "last" THEN "none" ELSE "loaded")
    /\ UNCHANGED <<phase, sitting, server, unconfirmed, solves, store>>

\* A connection is lost, or cancelled: by shutdown, by its limits of 10 and 120 s, or by the
\* limit of an older connection that had the same ObjectIdentifier.
Cut(p) ==
    /\ page[p].at \in {"entering", "entered", "posting", "answered"}
    /\ Becomes(p, "none")
    /\ UNCHANGED <<phase, sitting, server, unconfirmed, solves, store>>

\* `oizys calibrate run` or clear from elsewhere.
SomebodyElse ==
    /\ theirs < MaxTheirs /\ theirs' = theirs + 1
    /\ file' \in {Nobody, Theirs}
    /\ UNCHANGED <<phase, sitting, server, unconfirmed, solves, saved, writing, page>>

User == Start \/ Stop \/ Undo
Finish == FinishSave \/ FinishUndo
Background == LastReplyReported \/ \E s \in solves : SolverAnswers(s)
Request(p) == HandleEntry(p) \/ HandlePage(p) \/ Ingest(p) \/ Refuse(p)
Phone(p) == Scan(p) \/ Reload(p) \/ Measure(p) \/ Answered(p) \/ Cut(p)

\* The main thread does one thing at a time.
MainThread == User \/ Deadline \/ Background \/ \E p \in Pages : Request(p)

Next ==
    \/ writing = Nothing /\ MainThread
    \/ Finish
    \/ \E p \in Pages : Phone(p)
    \/ SomebodyElse

Spec == Init /\ [][Next]_vars

\* The timer fires, replies report and solvers are killed if they must be.
FairSpec ==
    /\ Spec
    /\ WF_vars(writing = Nothing /\ Deadline) /\ WF_vars(writing = Nothing /\ Background)
    /\ WF_vars(Finish)

-------------------------------------------------------------------------------
(* What it promises.                                                       *)

\* Every reading the solver gets is of the patch it is filed under, one for each patch,
\* whatever pages were loaded twice, cut off or left over from an earlier sitting -- as long as
\* the display that is calibrated keeps its screen, without which nothing is lit.
ReadingsAreOfTheirPatch ==
    /\ \A n \in DOMAIN readings : readings[n] = n
    /\ phase = "solving" => DOMAIN readings = 0 .. Patches - 1

\* "The server must not outlive the sitting, whatever happens to the UI": nothing is lit and
\* nothing listens unless a sitting is waiting for the phone.
NothingOutlivesTheSitting == (open \/ lit # None) => Active

\* The stored correction is touched only by whom it is due.  A result is saved only for the
\* sitting that is still on: not once it was stopped, timed out or started again, however
\* late its solver answers.  And a correction somebody else stored, or cleared, stays until
\* a later sitting is saved: no undo replaces it, unless it came between the look and the
\* write of that very undo.
StoredByWhomItIsDue ==
    [][/\ writing = Nothing /\ writing'.what = "save" =>
            writing'.result.wrote = sitting /\ DOMAIN readings = 0 .. Patches - 1
       /\ file \in {Nobody, Theirs} /\ file' # file /\ theirs' = theirs =>
            writing.what = "save" \/ theirs # writing.since]_vars

\* A sitting comes to an end by itself, whatever the phone does and wherever it leaves off: no
\* path takes the deadline away from it without something else being due.  And what it opened
\* goes with it.
SittingEnds == (Active ~> ~Active) /\ []NothingOutlivesTheSitting

\* What SittingEnds rests on: as long as a sitting is on something is due that ends it or moves
\* it on, the deadline, a solver that answers to this sitting, or the save of its result;
\* shutdown, a stop and a restart between them never leave it without.
SittingIsAwaited ==
    Active => open \/ (\E s \in solves : s.live) \/ writing.what = "save"
===============================================================================
