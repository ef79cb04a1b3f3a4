------------------------------- MODULE AppProofs -------------------------------
(***************************************************************************)
(* Two parts of the app that know nothing of each other, each proved safe  *)
(* by an invariant of its own: Calibration, for any number of pages,       *)
(* patches and sittings, and however often somebody else changes the       *)
(* correction; and SidecarAuto, for every ladder and every bound.          *)
(***************************************************************************)
EXTENDS Calibration, SidecarAuto, SequenceTheorems, TLAPS

(* Calibration.                                                            *)
Patch == 0 .. Patches - 1
Seen == {None} \union Patch
Stage == {"none", "entering", "entered", "loaded", "posting", "answered", "last"}
PageState == [at : Stage, of : 0 .. MaxSittings, patch : Patch, seen : Seen]
SolverRun == [of : 1 .. MaxSittings, live : BOOLEAN]
Undoable == [wrote : 1 .. MaxSittings, found : Owner]

\* What is read, written and counted has its type.
ShapeInv ==
    /\ sitting \in 0 .. MaxSittings /\ current \in Patch /\ lit \in Seen
    /\ open \in BOOLEAN /\ used \in BOOLEAN
    /\ unconfirmed \in Nat /\ theirs \in Nat
    /\ page \in [Pages -> PageState]
    /\ solves \subseteq SolverRun
    /\ file \in Owner
    /\ saved = NoUndo \/ saved \in Undoable

\* Between a look at the correction and the write there is nothing else, and the look of an
\* undo has found the app's own correction.
WritingInv ==
    \/ writing = Nothing
    \/ writing.what = "save" /\ writing.result \in Undoable
    \/ /\ writing.what = "undo" /\ saved \in Undoable
       /\ writing.since \in 0 .. theirs
       /\ writing.since = theirs => file = saved.wrote

\* A solver whose answer is awaited, and a write, begin when the server has gone; the
\* solver's sitting is the one that is on, and what is on is a sitting.
QuietInv ==
    /\ writing # Nothing \/ (\E s \in solves : s.live) => ~open /\ lit = None
    /\ \A s \in solves : s.live => s.of = sitting
    /\ Active => sitting # 0

\* The patches are measured in order: those before the current one have a reading.
MeasureInv ==
    /\ phase = "waitingForPhone" => current = 0
    /\ phase \in {"waitingForPhone", "measuring"} => open /\ DOMAIN readings = 0 .. current - 1
    /\ phase = "solving" => DOMAIN readings = Patch
    /\ lit # None => lit = current
    /\ \A n \in DOMAIN readings : readings[n] = n

\* A page of this sitting is never ahead of it, and one that saw a later patch than its own
\* is behind it for good.
PageInv ==
    \A p \in Pages :
        /\ page[p].of <= sitting
        /\ Known(p) /\ page[p].at \in {"loaded", "posting", "answered"} =>
               page[p].patch <= current
        /\ Known(p) /\ page[p].at = "posting" =>
               page[p].seen = page[p].patch \/ page[p].patch < current

IInv == ShapeInv /\ WritingInv /\ QuietInv /\ MeasureInv /\ PageInv /\ NothingOutlivesTheSitting

-------------------------------------------------------------------------------
LEMMA Constants ==
    /\ Patches \in Nat /\ 0 \in Patch /\ MaxSittings \in Nat
    /\ Nobody = 0 /\ Theirs = MaxSittings + 1 /\ None = -1
BY CalibrationAssumption DEF Patch, Nobody, Theirs, None

LEMMA InitKeeps == Init => IInv
<1> SUFFICES ASSUME Init PROVE IInv
    OBVIOUS
<1>1. page \in [Pages -> PageState] /\ \A p \in Pages : page[p].of = 0 /\ page[p].at = "none"
    BY Constants DEF Init, Blank, PageState, Stage, Seen
<1>2. DOMAIN readings = {}
    BY DEF Init
<1>3. ShapeInv
    <2>1. file \in Owner
        BY Constants DEF Init, Owner
    <2>2. sitting \in 0 .. MaxSittings /\ current \in Patch
        BY Constants DEF Init
    <2> QED BY <1>1, <2>1, <2>2 DEF Init, ShapeInv, Seen
<1>4. WritingInv /\ QuietInv
    BY DEF Init, WritingInv, QuietInv, Active
<1>5. MeasureInv /\ NothingOutlivesTheSitting
    BY <1>2 DEF Init, MeasureInv, NothingOutlivesTheSitting
<1>6. PageInv
    BY <1>1, Constants DEF Init, PageInv, Known
<1> QED BY <1>3, <1>4, <1>5, <1>6 DEF IInv

-------------------------------------------------------------------------------
(* The session's own steps.                                                *)

LEMMA StopKeeps == ASSUME IInv, Stop PROVE IInv'
<1>1. solves' \subseteq SolverRun /\ \A s \in solves' : ~s.live
    BY DEF Stop, Disowned, IInv, ShapeInv, SolverRun
<1>2. /\ open' = FALSE /\ lit' = None /\ phase' = "idle" /\ used' = TRUE
      /\ UNCHANGED <<current, readings, sitting, unconfirmed, store, page>>
    BY DEF Stop, Shutdown
<1>3. ShapeInv' /\ WritingInv'
    BY <1>1, <1>2 DEF IInv, ShapeInv, WritingInv, store, Seen
<1>4. QuietInv' /\ MeasureInv' /\ NothingOutlivesTheSitting'
    BY <1>1, <1>2 DEF IInv, QuietInv, MeasureInv, NothingOutlivesTheSitting, Active
<1>5. PageInv'
    BY <1>2 DEF IInv, PageInv, Known
<1> QED BY <1>3, <1>4, <1>5 DEF IInv

LEMMA StartKeeps == ASSUME IInv, writing = Nothing, Start PROVE IInv'
<1>1. solves' \subseteq SolverRun /\ \A s \in solves' : ~s.live
    BY DEF Start, Disowned, IInv, ShapeInv, SolverRun
<1>2. /\ current' = 0 /\ DOMAIN readings' = {} /\ lit' = None
      /\ UNCHANGED <<unconfirmed, store, page>>
    BY DEF Start
<1>3. \/ phase' = "waitingForPhone" /\ sitting' = sitting + 1 /\ open' = TRUE /\ used' = FALSE
      \/ phase' = "failed" /\ sitting' = sitting /\ open' = FALSE /\ used' = TRUE
    BY DEF Start
<1>4. sitting' \in 0 .. MaxSittings /\ sitting \in 0 .. MaxSittings
    BY <1>3, Constants DEF Start, IInv, ShapeInv
<1>5. ShapeInv' /\ WritingInv'
    BY <1>1, <1>2, <1>3, <1>4, Constants DEF IInv, ShapeInv, WritingInv, store, Seen
<1>6. QuietInv'
    BY <1>1, <1>2, <1>3, <1>4 DEF QuietInv, store, Active
<1>7. MeasureInv' /\ NothingOutlivesTheSitting'
    BY <1>2, <1>3 DEF MeasureInv, NothingOutlivesTheSitting, Active
<1>8. PageInv'
    <2> SUFFICES ASSUME NEW p \in Pages
                 PROVE  page'[p].of <= sitting' /\ ~Known(p)'
        BY DEF PageInv
    <2>1. page'[p].of <= sitting /\ page'[p].of \in 0 .. MaxSittings
        BY <1>2 DEF IInv, PageInv, ShapeInv, PageState
    <2> QED BY <1>3, <1>4, <2>1 DEF Known
<1> QED BY <1>5, <1>6, <1>7, <1>8 DEF IInv

LEMMA DeadlineKeeps == ASSUME IInv, Deadline PROVE IInv'
<1>1. /\ open' = FALSE /\ lit' = None /\ phase' = "failed" /\ used' = TRUE
      /\ UNCHANGED <<current, readings, sitting, unconfirmed, solves, store, page>>
    BY DEF Deadline, Shutdown
<1>2. ShapeInv' /\ WritingInv'
    BY <1>1 DEF IInv, ShapeInv, WritingInv, store, Seen
<1>3. QuietInv' /\ MeasureInv' /\ NothingOutlivesTheSitting'
    BY <1>1 DEF IInv, QuietInv, MeasureInv, NothingOutlivesTheSitting, Active
<1>4. PageInv'
    BY <1>1 DEF IInv, PageInv, Known
<1> QED BY <1>2, <1>3, <1>4 DEF IInv

LEMMA LastReplyKeeps == ASSUME IInv, writing = Nothing, LastReplyReported PROVE IInv'
<1>1. unconfirmed' \in Nat /\ UNCHANGED <<sitting, store, page>>
    BY DEF LastReplyReported, IInv, ShapeInv
<1>2. CASE phase # "solving"
    <2>1. UNCHANGED <<phase, server, solves>>
        BY <1>2 DEF LastReplyReported
    <2>2. ShapeInv' /\ WritingInv'
        BY <1>1, <2>1 DEF IInv, ShapeInv, WritingInv, store, server
    <2>3. QuietInv' /\ MeasureInv' /\ NothingOutlivesTheSitting'
        BY <1>1, <2>1 DEF IInv, QuietInv, MeasureInv, NothingOutlivesTheSitting, Active, store, server
    <2>4. PageInv'
        BY <1>1, <2>1 DEF IInv, PageInv, Known, server
    <2> QED BY <2>2, <2>3, <2>4 DEF IInv
<1>3. CASE phase = "solving"
    <2>1. /\ open' = FALSE /\ lit' = None /\ used' = TRUE /\ phase' \in {"solving", "failed"}
          /\ UNCHANGED <<current, readings>>
        BY <1>3 DEF LastReplyReported, Solve, Shutdown
    <2>2. sitting \in 1 .. MaxSittings
        BY <1>3 DEF IInv, ShapeInv, QuietInv, Active
    <2>3. solves' \subseteq SolverRun /\ \A s \in solves' : s.live => s.of = sitting
        <3> DEFINE new == [of |-> sitting, live |-> TRUE]
        <3>1. new \in SolverRun /\ new.of = sitting
            BY <2>2 DEF SolverRun
        <3>2. Disowned \subseteq SolverRun /\ \A s \in Disowned : ~s.live
            BY DEF Disowned, IInv, ShapeInv, SolverRun
        <3>3. solves' = solves \/ solves' = Disowned \union {new}
            BY <1>3 DEF LastReplyReported, Solve
        <3> HIDE DEF new
        <3> QED BY <3>1, <3>2, <3>3 DEF IInv, ShapeInv, QuietInv
    <2>4. ShapeInv' /\ WritingInv'
        BY <1>1, <2>1, <2>3 DEF IInv, ShapeInv, WritingInv, store, Seen
    <2>5. QuietInv' /\ MeasureInv' /\ NothingOutlivesTheSitting'
        BY <1>1, <1>3, <2>1, <2>3 DEF IInv, QuietInv, MeasureInv, NothingOutlivesTheSitting, Active
    <2>6. PageInv'
        BY <1>1, <2>1 DEF IInv, PageInv, Known
    <2> QED BY <2>4, <2>5, <2>6 DEF IInv
<1> QED BY <1>2, <1>3

LEMMA SolverKeeps == ASSUME IInv, writing = Nothing, NEW s \in solves, SolverAnswers(s) PROVE IInv'
<1>1. solves' = solves \ {s} /\ s \in SolverRun
      /\ UNCHANGED <<sitting, server, unconfirmed, file, saved, theirs, page>>
    BY DEF SolverAnswers, IInv, ShapeInv
<1>2. \/ UNCHANGED <<phase, writing>>
      \/ Wanted(s) /\ phase' = "failed" /\ UNCHANGED writing
      \/ /\ Wanted(s) /\ UNCHANGED phase
         /\ writing' = [what |-> "save", result |-> [wrote |-> s.of, found |-> file]]
    BY Zenon DEF SolverAnswers
<1>3. Wanted(s) => ~open /\ lit = None
    BY DEF Wanted, IInv, QuietInv
<1>4. ShapeInv' /\ PageInv'
    BY <1>1 DEF IInv, ShapeInv, PageInv, Known, server
<1>5. WritingInv'
    <2>1. [wrote |-> s.of, found |-> file] \in Undoable
        BY <1>1 DEF IInv, ShapeInv, SolverRun, Undoable
    <2> QED BY <1>1, <1>2, <2>1 DEF IInv, WritingInv
<1>6. QuietInv' /\ MeasureInv' /\ NothingOutlivesTheSitting'
    BY <1>1, <1>2, <1>3 DEF IInv, QuietInv, MeasureInv, NothingOutlivesTheSitting, Active, server
<1> QED BY <1>4, <1>5, <1>6 DEF IInv

LEMMA UndoKeeps == ASSUME IInv, writing = Nothing, Undo PROVE IInv'
<1>1. UNCHANGED <<sitting, server, unconfirmed, solves, file, saved, theirs, page>>
      /\ ~Active /\ saved # NoUndo
    BY DEF Undo
<1>2. \/ Ours /\ writing' = [what |-> "undo", since |-> theirs] /\ UNCHANGED phase
      \/ phase' = "failed" /\ UNCHANGED writing
    BY DEF Undo
<1>3. ShapeInv' /\ PageInv'
    BY <1>1 DEF IInv, ShapeInv, PageInv, Known, server
<1>4. WritingInv'
    BY <1>1, <1>2 DEF IInv, ShapeInv, WritingInv, Ours
<1>5. QuietInv' /\ MeasureInv' /\ NothingOutlivesTheSitting'
    BY <1>1, <1>2 DEF IInv, QuietInv, MeasureInv, NothingOutlivesTheSitting, Active, server
<1> QED BY <1>3, <1>4, <1>5 DEF IInv

LEMMA FinishKeeps == ASSUME IInv, Finish PROVE IInv'
<1>1. /\ UNCHANGED <<sitting, server, unconfirmed, solves, theirs, page>>
      /\ writing # Nothing /\ writing' = Nothing /\ phase' \in {"done", "failed"}
    BY DEF Finish, FinishSave, FinishUndo, Nothing
<1>2. file' \in Owner /\ (saved' = NoUndo \/ saved' \in Undoable)
    <2>1. CASE FinishSave
        <3>1. writing.result \in Undoable
            BY <2>1 DEF FinishSave, Nothing, IInv, WritingInv
        <3>2. writing.result.wrote \in Owner
            BY <3>1, Constants DEF Undoable, Owner
        <3> QED BY <2>1, <3>1, <3>2 DEF FinishSave, IInv, ShapeInv
    <2>2. CASE FinishUndo
        <3>1. saved \in Undoable
            BY <2>2 DEF FinishUndo, Nothing, IInv, WritingInv
        <3>2. saved.found \in Owner
            BY <3>1 DEF Undoable
        <3> QED BY <2>2, <3>1, <3>2 DEF FinishUndo, IInv, ShapeInv
    <2> QED BY <2>1, <2>2 DEF Finish
<1>3. ShapeInv' /\ PageInv' /\ WritingInv'
    BY <1>1, <1>2 DEF IInv, ShapeInv, PageInv, Known, server, WritingInv
<1>4. QuietInv' /\ MeasureInv' /\ NothingOutlivesTheSitting'
    BY <1>1 DEF IInv, QuietInv, MeasureInv, NothingOutlivesTheSitting, Active, server
<1> QED BY <1>3, <1>4 DEF IInv

LEMMA SomebodyElseKeeps == ASSUME IInv, SomebodyElse PROVE IInv'
<1>1. /\ UNCHANGED <<phase, sitting, server, unconfirmed, solves, saved, writing, page>>
      /\ theirs' = theirs + 1 /\ file' \in {Nobody, Theirs}
    BY DEF SomebodyElse
<1>2. ShapeInv' /\ PageInv'
    BY <1>1, Constants DEF IInv, ShapeInv, PageInv, Known, server, Owner
<1>3. WritingInv'
    BY <1>1 DEF IInv, ShapeInv, WritingInv
<1>4. QuietInv' /\ MeasureInv' /\ NothingOutlivesTheSitting'
    BY <1>1 DEF IInv, QuietInv, MeasureInv, NothingOutlivesTheSitting, Active, server
<1> QED BY <1>2, <1>3, <1>4 DEF IInv

-------------------------------------------------------------------------------
(* The phone's steps.                                                      *)

\* A step of a page that leaves the session alone keeps the invariant if that page is not
\* made to claim more than its sitting has.
LEMMA PageKeeps ==
    ASSUME IInv, NEW p \in Pages, NEW next \in PageState,
           page' = [page EXCEPT ![p] = next],
           UNCHANGED <<phase, sitting, open, current, lit, readings, solves, store, unconfirmed>>,
           used' \in BOOLEAN,
           next.of <= sitting,
           open /\ next.of = sitting /\ next.at \in {"loaded", "posting", "answered"} =>
               next.patch <= current,
           open /\ next.of = sitting /\ next.at = "posting" =>
               next.seen = next.patch \/ next.patch < current
    PROVE  IInv'
<1>1. page' \in [Pages -> PageState] /\ page'[p] = next /\ \A q \in Pages \ {p} : page'[q] = page[q]
    BY DEF IInv, ShapeInv
<1>2. ShapeInv' /\ WritingInv'
    BY <1>1 DEF IInv, ShapeInv, WritingInv, store
<1>3. QuietInv' /\ MeasureInv' /\ NothingOutlivesTheSitting'
    BY DEF IInv, QuietInv, MeasureInv, NothingOutlivesTheSitting, Active, store
<1>4. PageInv'
    BY <1>1 DEF IInv, PageInv, Known
<1> QED BY <1>2, <1>3, <1>4 DEF IInv

\* A page that goes to another stage, and to measuring only where it may.
LEMMA BecomesKeeps ==
    ASSUME IInv, NEW p \in Pages, NEW at \in Stage \ {"posting"}, Becomes(p, at),
           UNCHANGED <<phase, sitting, open, current, lit, readings, solves, store, unconfirmed>>,
           used' \in BOOLEAN,
           Known(p) /\ at \in {"loaded", "answered"} => page[p].patch <= current
    PROVE  IInv'
<1> DEFINE next == [page[p] EXCEPT !.at = at]
<1>1. page[p] \in PageState /\ page[p].of <= sitting
    BY DEF IInv, ShapeInv, PageInv
<1>2. next \in PageState /\ next.at = at /\ next.of = page[p].of /\ next.patch = page[p].patch
    BY <1>1 DEF PageState
<1>3. page' = [page EXCEPT ![p] = next]
    BY DEF Becomes
<1> HIDE DEF next
<1> QED BY <1>1, <1>2, <1>3, PageKeeps DEF Known

LEMMA HandleEntryKeeps == ASSUME IInv, NEW p \in Pages, HandleEntry(p) PROVE IInv'
<1>1. \E at \in {"entered", "none"} : Becomes(p, at)
    BY DEF HandleEntry
<1>2. used' \in BOOLEAN
    BY DEF HandleEntry, IInv, ShapeInv
<1> QED BY <1>1, <1>2, BecomesKeeps DEF HandleEntry, Stage

LEMMA RefuseKeeps == ASSUME IInv, NEW p \in Pages, Refuse(p) PROVE IInv'
<1>1. \E at \in {"loaded", "none"} : Becomes(p, at)
    BY DEF Refuse
<1>2. UNCHANGED <<phase, sitting, open, current, lit, readings, solves, store, unconfirmed>>
      /\ used' \in BOOLEAN
    BY DEF Refuse, server, IInv, ShapeInv
<1>3. Known(p) => page[p].patch <= current
    BY DEF Refuse, IInv, PageInv
<1> QED BY <1>1, <1>2, <1>3, BecomesKeeps DEF Stage

LEMMA PhoneKeeps == ASSUME IInv, NEW p \in Pages, Phone(p) PROVE IInv'
<1>1. UNCHANGED <<phase, sitting, open, current, lit, readings, solves, store, unconfirmed>>
      /\ used' \in BOOLEAN
    BY DEF Phone, Scan, Reload, Measure, Answered, Cut, server, IInv, ShapeInv
<1>2. page[p] \in PageState /\ page[p].of <= sitting
    BY DEF IInv, ShapeInv, PageInv
<1>3. CASE Scan(p)
    <2> DEFINE next == [page[p] EXCEPT !.at = "entering", !.of = sitting]
    <2>1. next \in PageState /\ next.at = "entering" /\ next.of = sitting
        BY <1>2 DEF PageState, Stage, IInv, ShapeInv
    <2>2. page' = [page EXCEPT ![p] = next]
        BY <1>3 DEF Scan
    <2>3. sitting <= sitting
        BY DEF IInv, ShapeInv
    <2> HIDE DEF next
    <2> QED BY <1>1, <2>1, <2>2, <2>3, PageKeeps
<1>4. CASE Measure(p)
    <2> DEFINE next == [page[p] EXCEPT !.at = "posting", !.seen = lit]
    <2>1. /\ next \in PageState /\ next.at = "posting" /\ next.seen = lit
          /\ next.of = page[p].of /\ next.patch = page[p].patch
        BY <1>2 DEF PageState, Stage, IInv, ShapeInv
    <2>2. page' = [page EXCEPT ![p] = next]
        BY <1>4 DEF Measure
    <2>3. Known(p) => page[p].patch <= current
        BY <1>4 DEF Measure, IInv, PageInv
    <2>4. lit = current /\ page[p].patch \in Int /\ current \in Int
        BY <1>2, <1>4, Constants DEF Measure, IInv, MeasureInv, ShapeInv, PageState, Patch
    <2>5. Known(p) => lit = page[p].patch \/ page[p].patch < current
        BY <2>3, <2>4
    <2> HIDE DEF next
    <2> QED BY <1>1, <1>2, <2>1, <2>2, <2>3, <2>5, PageKeeps DEF Known
<1>5. CASE Reload(p)
    BY <1>1, <1>5, BecomesKeeps DEF Reload, Stage
<1>6. CASE Cut(p)
    BY <1>1, <1>6, BecomesKeeps DEF Cut, Stage
<1>7. CASE Answered(p)
    <2>1. \/ Becomes(p, "none")
          \/ Becomes(p, "loaded") /\ page[p].at = "answered"
        BY <1>7 DEF Answered
    <2>2. page[p].at = "answered" /\ Known(p) => page[p].patch <= current
        BY DEF IInv, PageInv
    <2> QED BY <1>1, <2>1, <2>2, BecomesKeeps DEF Stage
<1> QED BY <1>3, <1>4, <1>5, <1>6, <1>7 DEF Phone

\* The page that is served begins where the sitting is.
LEMMA HandlePageKeeps == ASSUME IInv, writing = Nothing, NEW p \in Pages, HandlePage(p) PROVE IInv'
<1>1. UNCHANGED <<sitting, open, used, readings, unconfirmed, solves, store>>
    BY DEF HandlePage
<1>2. CASE ~(Known(p) /\ phase \in {"waitingForPhone", "measuring"})
    BY <1>1, <1>2, BecomesKeeps DEF HandlePage, Stage, IInv, ShapeInv
<1>3. CASE Known(p) /\ phase \in {"waitingForPhone", "measuring"}
    <2> DEFINE next == [page[p] EXCEPT !.at = "loaded", !.patch = current']
    <2>1. page[p] \in PageState /\ page[p].of <= sitting
        BY DEF IInv, ShapeInv, PageInv
    <2>2. current' = current /\ current \in Patch /\ current \in Int
          /\ (lit' = lit \/ lit' = current) /\ phase' = "measuring"
          /\ DOMAIN readings = 0 .. current - 1
        BY <1>3, Constants DEF HandlePage, Light, IInv, MeasureInv, ShapeInv, Patch
    <2>3. next \in PageState /\ next.patch = current /\ next.at = "loaded" /\ next.of = page[p].of
        BY <2>1, <2>2 DEF PageState, Stage
    <2>4. page' = [page EXCEPT ![p] = next]
        BY <1>3 DEF HandlePage
    <2> HIDE DEF next
    <2>5. page' \in [Pages -> PageState] /\ page'[p] = next /\ \A q \in Pages \ {p} : page'[q] = page[q]
        BY <2>3, <2>4 DEF IInv, ShapeInv
    <2>6. ShapeInv' /\ WritingInv'
        BY <1>1, <2>2, <2>5 DEF IInv, ShapeInv, WritingInv, store, Seen
    <2>7. open
        BY <1>3 DEF Known
    <2>8. QuietInv' /\ MeasureInv' /\ NothingOutlivesTheSitting'
        BY <1>1, <1>3, <2>2, <2>7 DEF IInv, QuietInv, MeasureInv, NothingOutlivesTheSitting, Active, store
    <2>9. PageInv'
        BY <1>1, <2>1, <2>2, <2>3, <2>5 DEF IInv, PageInv, Known
    <2> QED BY <2>6, <2>8, <2>9 DEF IInv
<1> QED BY <1>2, <1>3

\* What is ingested is of the current patch, since a page that saw a later one is behind.
LEMMA IngestKeeps == ASSUME IInv, writing = Nothing, NEW p \in Pages, Ingest(p) PROVE IInv'
<1>1. /\ page[p] \in PageState /\ page[p].of <= sitting /\ page[p].of = sitting /\ open
      /\ page[p].at = "posting" /\ phase = "measuring" /\ page[p].patch = current
    BY DEF Ingest, Accepts, Known, IInv, ShapeInv, PageInv
<1>2. current \in Patch /\ current \in Int /\ Patches \in Nat
    BY Constants DEF IInv, ShapeInv, Patch
<1>3. page[p].seen = current
    BY <1>1, <1>2 DEF IInv, PageInv, Known
<1>4. UNCHANGED <<sitting, open, used, solves, store>>
    BY DEF Ingest
<1>5. DOMAIN readings = 0 .. current - 1 /\ \A n \in DOMAIN readings : readings[n] = n
    BY <1>1 DEF IInv, MeasureInv
<1>6. DOMAIN readings' = 0 .. current /\ \A n \in DOMAIN readings' : readings'[n] = n
    <2>1. readings' = [n \in DOMAIN readings \union {current} |-> IF n = current THEN current ELSE readings[n]]
        BY <1>1, <1>3 DEF Ingest
    <2>2. DOMAIN readings \union {current} = 0 .. current
        BY <1>2, <1>5 DEF Patch
    <2> QED BY <1>5, <2>1, <2>2
<1>7. CASE page[p].patch + 1 < Patches
    <2> DEFINE next == [page[p] EXCEPT !.at = "answered", !.patch = current + 1]
    <2>1. /\ current' = current + 1 /\ lit' = current + 1 /\ phase' = "measuring"
          /\ unconfirmed' = unconfirmed /\ page' = [page EXCEPT ![p] = next]
        BY <1>1, <1>7 DEF Ingest, Light
    <2>2. current + 1 \in Patch
        BY <1>1, <1>2, <1>7 DEF Patch
    <2>3. next \in PageState /\ next.patch = current + 1 /\ next.at = "answered" /\ next.of = page[p].of
        BY <1>1, <2>2 DEF PageState, Stage
    <2> HIDE DEF next
    <2>4. page' \in [Pages -> PageState] /\ page'[p] = next /\ \A q \in Pages \ {p} : page'[q] = page[q]
        BY <2>1, <2>3 DEF IInv, ShapeInv
    <2>5. ShapeInv' /\ WritingInv'
        BY <1>4, <2>1, <2>2, <2>4 DEF IInv, ShapeInv, WritingInv, store, Seen
    <2>6. QuietInv' /\ NothingOutlivesTheSitting'
        BY <1>1, <1>4, <2>1 DEF IInv, QuietInv, NothingOutlivesTheSitting, Active, store
    <2>7. MeasureInv'
        <3>1. current' - 1 = current
            BY <1>2, <2>1
        <3>2. DOMAIN readings' = 0 .. current' - 1
            BY <1>6, <3>1
        <3>3. open' /\ phase' = "measuring" /\ lit' = current'
            BY <1>1, <1>4, <2>1
        <3> QED BY <1>6, <3>2, <3>3 DEF MeasureInv
    <2>8. PageInv'
        <3>1. ASSUME NEW q \in Pages PROVE page[q].patch \in Int
            BY Constants DEF IInv, ShapeInv, PageState, Patch
        <3>2. ASSUME NEW q \in Pages \ {p}
              PROVE  /\ page[q].of <= sitting
                     /\ Known(q) /\ page[q].at \in {"loaded", "posting", "answered"} =>
                            page[q].patch <= current + 1
                     /\ Known(q) /\ page[q].at = "posting" =>
                            page[q].seen = page[q].patch \/ page[q].patch < current + 1
            <4>1. /\ page[q].of <= sitting
                  /\ Known(q) /\ page[q].at \in {"loaded", "posting", "answered"} =>
                         page[q].patch <= current
                  /\ Known(q) /\ page[q].at = "posting" =>
                         page[q].seen = page[q].patch \/ page[q].patch < current
                BY DEF IInv, PageInv
            <4>2. /\ page[q].patch <= current => page[q].patch <= current + 1
                  /\ page[q].patch < current => page[q].patch < current + 1
                BY <1>2, <3>1
            <4> QED BY <4>1, <4>2
        <3>3. current + 1 <= current + 1
            BY <1>2
        <3>4. ASSUME NEW q \in Pages \ {p} PROVE Known(q)' <=> Known(q)
            BY <1>4, <2>4 DEF Known
        <3>5. page'[p].of <= sitting /\ page'[p].at = "answered" /\ page'[p].patch <= current + 1
            BY <1>1, <2>3, <2>4, <3>3
        <3>6. ASSUME NEW q \in Pages \ {p}
              PROVE  /\ page'[q].of <= sitting'
                     /\ Known(q)' /\ page'[q].at \in {"loaded", "posting", "answered"} =>
                            page'[q].patch <= current'
                     /\ Known(q)' /\ page'[q].at = "posting" =>
                            page'[q].seen = page'[q].patch \/ page'[q].patch < current'
            BY <1>4, <2>1, <2>4, <3>2, <3>4
        <3> QED BY <1>4, <2>1, <3>5, <3>6 DEF PageInv
    <2> QED BY <2>5, <2>6, <2>7, <2>8 DEF IInv
<1>8. CASE ~(page[p].patch + 1 < Patches)
    <2>1. /\ phase' = "solving" /\ lit' = None /\ unconfirmed' = unconfirmed + 1
          /\ current' = current /\ Becomes(p, "last")
        BY <1>8 DEF Ingest
    <2>2. 0 .. current = Patch
        BY <1>1, <1>2, <1>8 DEF Patch
    <2> DEFINE next == [page[p] EXCEPT !.at = "last"]
    <2>3. next \in PageState /\ next.at = "last" /\ next.of = page[p].of
        BY <1>1 DEF PageState, Stage
    <2>4. page' = [page EXCEPT ![p] = next]
        BY <2>1 DEF Becomes
    <2> HIDE DEF next
    <2>5. page' \in [Pages -> PageState] /\ page'[p] = next /\ \A q \in Pages \ {p} : page'[q] = page[q]
        BY <2>3, <2>4 DEF IInv, ShapeInv
    <2>6. ShapeInv' /\ WritingInv'
        BY <1>4, <2>1, <2>5 DEF IInv, ShapeInv, WritingInv, store, Seen
    <2>7. QuietInv' /\ NothingOutlivesTheSitting'
        BY <1>1, <1>4, <2>1 DEF IInv, QuietInv, NothingOutlivesTheSitting, Active, store
    <2>8. MeasureInv'
        BY <1>4, <1>6, <2>1, <2>2 DEF MeasureInv
    <2>9. PageInv'
        BY <1>1, <1>4, <2>1, <2>3, <2>5 DEF IInv, PageInv, Known
    <2> QED BY <2>6, <2>7, <2>8, <2>9 DEF IInv
<1> QED BY <1>7, <1>8

-------------------------------------------------------------------------------
LEMMA NextKeeps == IInv /\ [Next]_vars => IInv'
<1> SUFFICES ASSUME IInv, [Next]_vars PROVE IInv'
    OBVIOUS
<1>1. CASE UNCHANGED vars
    <2>1. ShapeInv' /\ WritingInv' /\ PageInv'
        BY <1>1 DEF vars, server, store, IInv, ShapeInv, WritingInv, PageInv, Known
    <2>2. QuietInv' /\ MeasureInv' /\ NothingOutlivesTheSitting'
        BY <1>1 DEF vars, server, store, IInv, QuietInv, MeasureInv, NothingOutlivesTheSitting, Active
    <2> QED BY <2>1, <2>2 DEF IInv
<1>2. CASE writing = Nothing /\ MainThread
    BY <1>2, StartKeeps, StopKeeps, UndoKeeps, DeadlineKeeps, LastReplyKeeps, SolverKeeps,
       HandleEntryKeeps, HandlePageKeeps, IngestKeeps, RefuseKeeps
       DEF MainThread, User, Background, Request
<1> QED BY <1>1, <1>2, FinishKeeps, PhoneKeeps, SomebodyElseKeeps DEF Next

\* The invariant holds throughout.
THEOREM Inductive == Spec => []IInv
<1> QED BY InitKeeps, NextKeeps, PTL DEF Spec

\* For any number of pages and patches: what is filed under a patch was seen while that patch
\* was lit, and the solver gets one reading of each.
THEOREM ReadingsAreFiled == Spec => []ReadingsAreOfTheirPatch
<1>1. IInv => ReadingsAreOfTheirPatch
    BY DEF IInv, MeasureInv, ReadingsAreOfTheirPatch, Patch
<1> QED BY <1>1, Inductive, PTL

\* For any number of pages and sittings: without a sitting nothing listens and nothing is lit.
THEOREM ServerGoesWithTheSitting == Spec => []NothingOutlivesTheSitting
<1>1. IInv => NothingOutlivesTheSitting
    BY DEF IInv
<1> QED BY <1>1, Inductive, PTL

\* For any number of sittings and of changes by others: a result is saved by the sitting that
\* is on, and no undo takes a correction that somebody else stored or cleared.
THEOREM CorrectionIsKept == Spec => StoredByWhomItIsDue
<1> DEFINE Due == /\ writing = Nothing /\ writing'.what = "save" =>
                         writing'.result.wrote = sitting /\ DOMAIN readings = 0 .. Patches - 1
                  /\ file \in {Nobody, Theirs} /\ file' # file /\ theirs' = theirs =>
                         writing.what = "save" \/ theirs # writing.since
<1>1. ASSUME IInv, [Next]_vars PROVE Due
    <2>1. CASE UNCHANGED <<file, writing>>
        BY <2>1 DEF Nothing
    <2>2. CASE writing = Nothing /\ \E s \in solves : SolverAnswers(s)
        <3> PICK s \in solves : SolverAnswers(s)
            BY <2>2
        <3>1. CASE Wanted(s) /\ writing' # writing
            <4>1. s.of = sitting /\ DOMAIN readings = 0 .. Patches - 1
                BY <1>1, <3>1 DEF Wanted, IInv, QuietInv, MeasureInv, Patch
            <4>2. writing'.result.wrote = s.of /\ file' = file
                BY <3>1 DEF SolverAnswers
            <4> QED BY <4>1, <4>2
        <3>2. CASE ~(Wanted(s) /\ writing' # writing)
            BY <2>1, <3>2 DEF SolverAnswers
        <3> QED BY <3>1, <3>2
    <2>3. CASE Undo
        BY <2>3 DEF Undo, Nothing
    <2>4. CASE FinishSave
        BY <2>4 DEF FinishSave, Nothing
    <2>5. CASE FinishUndo
        <3>1. saved \in Undoable /\ (writing.since = theirs => file = saved.wrote)
            BY <1>1, <2>5 DEF FinishUndo, Nothing, IInv, WritingInv
        <3>2. saved.wrote \notin {Nobody, Theirs}
            BY <3>1, Constants DEF Undoable
        <3> QED BY <2>5, <3>1, <3>2 DEF FinishUndo, Nothing
    <2>6. CASE SomebodyElse
        <3>1. theirs' # theirs /\ writing' = writing
            BY <1>1, <2>6 DEF SomebodyElse, IInv, ShapeInv
        <3> QED BY <3>1 DEF Nothing
    <2>7. ASSUME Start \/ Stop \/ Deadline \/ LastReplyReported
                 \/ \E p \in Pages : Request(p) \/ Phone(p)
          PROVE  UNCHANGED <<file, writing>>
        BY <2>7 DEF Start, Stop, Deadline, LastReplyReported, Request, HandleEntry, HandlePage,
                    Ingest, Refuse, Phone, Scan, Reload, Measure, Answered, Cut, store
    <2> HIDE DEF Due
    <2>8. CASE writing = Nothing /\ MainThread
        BY <2>1, <2>2, <2>3, <2>7, <2>8 DEF MainThread, User, Background
    <2>9. CASE UNCHANGED vars
        BY <2>1, <2>9 DEF vars, store
    <2> QED BY <1>1, <2>1, <2>4, <2>5, <2>6, <2>7, <2>8, <2>9 DEF Next, Finish
<1> QED BY <1>1, Inductive, PTL DEF Spec, StoredByWhomItIsDue

-------------------------------------------------------------------------------
(* What a sitting waits for.                                               *)

Phases == {"idle", "waitingForPhone", "measuring", "solving", "done", "failed"}

\* What is measured is a patch, and a sitting that is on has something to wait for.
StepInv == phase \in Phases /\ DOMAIN readings \subseteq Patch /\ SittingIsAwaited

LEMMA StepsKeep == IInv /\ StepInv /\ [Next]_vars => StepInv'
<1> SUFFICES ASSUME IInv, StepInv, [Next]_vars PROVE StepInv'
    OBVIOUS
<1>1. ASSUME Finish \/ Stop \/ Deadline, UNCHANGED readings PROVE StepInv'
    BY <1>1 DEF Finish, FinishSave, FinishUndo, Stop, Deadline, Shutdown, StepInv, Phases,
                SittingIsAwaited, Active
<1>2. CASE Start
    BY <1>2 DEF Start, StepInv, Phases, SittingIsAwaited, Active
<1>3. CASE Undo
    BY <1>3 DEF Undo, server, StepInv, Phases, SittingIsAwaited, Active
<1>4. CASE LastReplyReported
    <2>1. DOMAIN readings' \subseteq Patch /\ phase' \in Phases
        BY <1>4 DEF LastReplyReported, Solve, Shutdown, server, StepInv, Phases
    <2>2. CASE phase # "solving"
        BY <1>4, <2>1, <2>2 DEF LastReplyReported, server, store, StepInv, SittingIsAwaited, Active
    <2>3. CASE Solve
        <3>1. [of |-> sitting, live |-> TRUE] \in solves' /\ [of |-> sitting, live |-> TRUE].live
            BY <2>3 DEF Solve
        <3> QED BY <2>1, <3>1 DEF StepInv, SittingIsAwaited
    <2>4. CASE phase' = "failed"
        BY <2>1, <2>4 DEF StepInv, SittingIsAwaited, Active
    <2> QED BY <1>4, <2>2, <2>3, <2>4 DEF LastReplyReported
<1>5. ASSUME NEW s \in solves, writing = Nothing, SolverAnswers(s) PROVE StepInv'
    <2>1. UNCHANGED server /\ solves' = solves \ {s} /\ writing.what # "save"
        BY <1>5 DEF SolverAnswers, Nothing
    <2>2. CASE Wanted(s)
        BY <1>5, <2>1, <2>2 DEF SolverAnswers, server, StepInv, Phases, SittingIsAwaited, Active
    <2>3. CASE ~Wanted(s)
        <3>1. UNCHANGED <<phase, writing>>
            BY <1>5, <2>3 DEF SolverAnswers
        <3>2. CASE phase = "solving"
            <4>1. open \/ \E t \in solves \ {s} : t.live
                BY <2>1, <2>3, <3>2 DEF Wanted, StepInv, SittingIsAwaited, Active
            <4> QED BY <2>1, <3>1, <4>1 DEF server, StepInv, SittingIsAwaited
        <3>3. CASE phase # "solving"
            BY <2>1, <3>1, <3>3 DEF IInv, MeasureInv, server, StepInv, SittingIsAwaited, Active
        <3> QED BY <3>2, <3>3
    <2> QED BY <2>2, <2>3
<1>6. ASSUME NEW p \in Pages, HandlePage(p) PROVE StepInv'
    BY <1>6 DEF HandlePage, Light, Known, store, StepInv, Phases, SittingIsAwaited, Active
<1>7. ASSUME NEW p \in Pages, Ingest(p) PROVE StepInv'
    <2>1. open' /\ phase' \in Phases
        BY <1>7 DEF Ingest, Accepts, Known, Light, Phases
    <2>2. page[p].patch \in Patch
        BY <1>7 DEF IInv, ShapeInv, Ingest, Accepts
    <2>3. DOMAIN readings' = DOMAIN readings \union {page[p].patch}
        BY <1>7 DEF Ingest
    <2> QED BY <2>1, <2>2, <2>3 DEF StepInv, SittingIsAwaited
<1>8. CASE UNCHANGED <<phase, open, readings, solves, writing>>
    BY <1>8 DEF StepInv, SittingIsAwaited, Active
<1>9. ASSUME NEW p \in Pages, HandleEntry(p) \/ Refuse(p) \/ Phone(p)
      PROVE  UNCHANGED <<phase, open, readings, solves, writing>>
    BY <1>9 DEF HandleEntry, Refuse, Phone, Scan, Reload, Measure, Answered, Cut, server, store
<1>10. SomebodyElse \/ UNCHANGED vars => UNCHANGED <<phase, open, readings, solves, writing>>
    BY DEF SomebodyElse, vars, server, store
<1>11. Finish \/ Stop \/ Deadline => UNCHANGED readings
    BY DEF Finish, FinishSave, FinishUndo, Stop, Deadline, Shutdown, server
<1> QED BY <1>1, <1>2, <1>3, <1>4, <1>5, <1>6, <1>7, <1>8, <1>9, <1>10, <1>11
        DEF Next, MainThread, User, Background, Request

LEMMA StepsHold == Spec => []StepInv
<1>1. Init => StepInv
    BY DEF Init, StepInv, Phases, SittingIsAwaited, Active
<1> QED BY <1>1, Inductive, StepsKeep, PTL DEF Spec

\* The sitting, its pages, its solvers and the stored correction keep their types.
THEOREM CalibrationTypes == Spec => []TypeOK
<1>1. IInv /\ StepInv => TypeOK
    <2> SUFFICES ASSUME IInv, StepInv PROVE TypeOK
        OBVIOUS
    <2>1. saved \in {NoUndo} \union [wrote : Owner, found : Owner]
        BY Constants DEF IInv, ShapeInv, Undoable, Owner
    <2>2. writing.what \in {"nothing", "save", "undo"}
        BY DEF IInv, WritingInv, Nothing
    <2>3. \A p \in Pages : page[p].at \in Stage
        BY DEF IInv, ShapeInv, PageState
    <2> QED BY <2>1, <2>2, <2>3 DEF TypeOK, IInv, ShapeInv, StepInv, Phases, Patch, Seen, Stage, SolverRun
<1> QED BY <1>1, Inductive, StepsHold, PTL

\* Whenever a sitting is stopped, cut off, restarted or answered: one that is on has a
\* deadline, a solver of its own or the save of its result before it, and so an end.
THEOREM SittingsAreAwaited == Spec => []SittingIsAwaited
<1>1. StepInv => SittingIsAwaited
    BY DEF StepInv
<1> QED BY <1>1, StepsHold, PTL

-------------------------------------------------------------------------------
(* SidecarAuto.                                                            *)

Call == [ours : BOOLEAN, through : BOOLEAN]
Watcher == [busy : BOOLEAN, attempt : 0 .. Ladder, retry : BOOLEAN, was : BOOLEAN,
            nearby : BOOLEAN, quiet : {"none", "hand", "standDown"}]

\* The watcher is busy only with a connect, and a connect of this generation that got
\* through is news it has not come to yet.
News(c) == \E i \in DOMAIN c : c[i].ours /\ c[i].through

FlightInv ==
    /\ auto.busy => calls # <<>>
    /\ News(calls) => told

\* After the user's disconnect the watcher has it before it (the iPad was connected when it
\* last looked) or behind it (it is quiet, and knows the iPad to be near).
Noticed(a) == a.was \/ (a.quiet # "none" /\ a.nearby)

HandInv ==
    /\ connected => listed
    /\ byHand => calls = <<>> /\ enabled /\ listed /\ ~connected /\ Noticed(auto)

SidecarInv == SidecarTypeOK /\ FlightInv /\ HandInv /\ NothingForgotten

-------------------------------------------------------------------------------
(* The helpers.                                                            *)

LEMMA LadderIsNat == Ladder \in Nat /\ 0 \in 0 .. Ladder
<1>1. Ladder \in Nat
    BY SidecarAssumption
<1> QED BY <1>1

\* Removing one call leaves calls that were there.
LEMMA RemovedCalls ==
    ASSUME NEW c \in Seq(Call), NEW i \in DOMAIN c
    PROVE  RemoveAt(c, i) \in Seq(Call) /\ (News(RemoveAt(c, i)) => News(c))
<1> DEFINE left == SubSeq(c, 1, i - 1)
           right == SubSeq(c, i + 1, Len(c))
<1>0. DOMAIN c = 1 .. Len(c) /\ i \in 1 .. Len(c) /\ Len(c) \in Nat /\ \A k \in 1 .. Len(c) : c[k] \in Call
    OBVIOUS
<1>1. /\ left \in Seq(Call) /\ Len(left) = i - 1
      /\ \A j \in 1 .. i - 1 : left[j] = c[j]
    <2>1. \A k \in 1 .. i - 1 : c[k] \in Call
        BY <1>0
    <2>2. /\ left \in Seq(Call) /\ Len(left) = IF 1 <= i - 1 THEN i - 1 - 1 + 1 ELSE 0
          /\ \A k \in 1 .. i - 1 - 1 + 1 : left[k] = c[1 + k - 1]
        BY <1>0, <2>1, SubSeqProperties
    <2> QED BY <1>0, <2>2
<1>2. /\ right \in Seq(Call) /\ Len(right) = Len(c) - i
      /\ \A j \in 1 .. Len(c) - i : right[j] = c[j + i]
    <2>1. \A k \in i + 1 .. Len(c) : c[k] \in Call
        BY <1>0
    <2>2. /\ right \in Seq(Call)
          /\ Len(right) = IF i + 1 <= Len(c) THEN Len(c) - (i + 1) + 1 ELSE 0
          /\ \A k \in 1 .. Len(c) - (i + 1) + 1 : right[k] = c[i + 1 + k - 1]
        BY <1>0, <2>1, SubSeqProperties
    <2>3. /\ Len(right) = Len(c) - i /\ Len(c) - (i + 1) + 1 = Len(c) - i
          /\ \A k \in 1 .. Len(c) - i : i + 1 + k - 1 = k + i
        BY <1>0, <2>2
    <2> QED BY <2>2, <2>3
<1>3. RemoveAt(c, i) = left \o right
    BY DEF RemoveAt
<1> HIDE DEF left, right
<1>4. /\ left \o right \in Seq(Call) /\ Len(left \o right) = Len(left) + Len(right)
      /\ \A j \in 1 .. Len(left) + Len(right) :
             (left \o right)[j] = IF j <= Len(left) THEN left[j] ELSE right[j - Len(left)]
    BY <1>1, <1>2, ConcatProperties
<1>5. ASSUME NEW j \in DOMAIN (left \o right)
      PROVE  \E k \in DOMAIN c : (left \o right)[j] = c[k]
    <2>1. j \in 1 .. Len(left) + Len(right) /\ j \in 1 .. Len(c) - 1
        BY <1>0, <1>1, <1>2, <1>4
    <2>2. CASE j <= i - 1
        <3>1. (left \o right)[j] = c[j] /\ j \in 1 .. Len(c)
            BY <2>1, <2>2, <1>0, <1>1, <1>2, <1>4
        <3> QED BY <3>1, <1>0
    <2>3. CASE ~(j <= i - 1)
        <3>1. j - (i - 1) \in 1 .. Len(c) - i
            BY <2>1, <2>3, <1>0
        <3>2. (left \o right)[j] = c[j - (i - 1) + i] /\ j - (i - 1) + i \in 1 .. Len(c)
            BY <2>1, <2>3, <3>1, <1>0, <1>1, <1>2, <1>4, SMTT(20)
        <3> QED BY <3>2, <1>0
    <2> QED BY <2>2, <2>3
<1>6. News(left \o right) => News(c)
    BY <1>5, Zenon DEF News
<1> QED BY <1>3, <1>4, <1>6

\* Making calls stale keeps them, and leaves none of this generation.
LEMMA StaleCalls ==
    ASSUME NEW c \in Seq(Call)
    PROVE  /\ Stale(c) \in Seq(Call) /\ Len(Stale(c)) = Len(c)
           /\ ~News(Stale(c))
<1>1. ASSUME NEW i \in DOMAIN c
      PROVE  [c[i] EXCEPT !.ours = FALSE] \in Call /\ [c[i] EXCEPT !.ours = FALSE].ours = FALSE
    <2>1. c[i] \in Call
        OBVIOUS
    <2> QED BY <2>1 DEF Call
<1>2. Stale(c) \in [1 .. Len(c) -> Call] /\ \A i \in 1 .. Len(c) : Stale(c)[i].ours = FALSE
    BY <1>1 DEF Stale
<1>3. Stale(c) \in Seq(Call) /\ Len(Stale(c)) = Len(c) /\ DOMAIN Stale(c) = 1 .. Len(c)
    BY <1>2
<1>4. ~News(Stale(c))
    BY <1>2, <1>3, Zenon DEF News
<1> QED BY <1>3, <1>4

\* A new call is no news.
NewCall == [ours |-> TRUE, through |-> FALSE]

LEMMA AppendedCall ==
    ASSUME NEW c \in Seq(Call)
    PROVE  /\ Append(c, NewCall) \in Seq(Call) /\ Append(c, NewCall) # <<>>
           /\ News(Append(c, NewCall)) => News(c)
<1>1. NewCall \in Call /\ NewCall.through = FALSE
    BY DEF NewCall, Call
<1>2. /\ Append(c, NewCall) \in Seq(Call) /\ Append(c, NewCall) # <<>>
      /\ \A i \in DOMAIN Append(c, NewCall) :
             Append(c, NewCall)[i] = NewCall \/ (i \in DOMAIN c /\ Append(c, NewCall)[i] = c[i])
    BY <1>1, AppendProperties
<1>3. News(Append(c, NewCall)) => News(c)
    BY <1>1, <1>2, Zenon DEF News
<1> QED BY <1>2, <1>3

\* What a decision leaves, whatever it was about: a watcher busy only with a connect, no
\* news in flight that was not there, the iPad not forgotten, and of a disconnect that was
\* noticed, or is now, no connect.
LEMMA Decides ==
    ASSUME SidecarTypeOK, NEW on \in BOOLEAN, NEW a \in Watcher, NEW c \in Seq(Call),
           a.busy => c # <<>>, Evaluate(on, a, c)
    PROVE  /\ auto' \in Watcher /\ calls' \in Seq(Call) /\ lapsed' = FALSE
           /\ auto'.busy => calls' # <<>>
           /\ News(calls') => News(c)
           /\ on /\ listed /\ allowed /\ ~connected =>
                  calls' # <<>> \/ auto'.retry \/ auto'.quiet # "none"
           /\ c = <<>> /\ on /\ listed /\ ~connected /\ Noticed(a) =>
                  calls' = <<>> /\ Noticed(auto')
<1>0. lapsed' = FALSE
    BY Zenon DEF Evaluate
<1>1. CASE ~on /\ Off(a, c)
    <2> DEFINE off == [CancelRetry(a) EXCEPT !.busy = FALSE, !.nearby = FALSE, !.was = FALSE,
                                             !.quiet = "none"]
    <2>1. off \in Watcher /\ off.busy = FALSE
        BY LadderIsNat DEF CancelRetry, Watcher
    <2>2. auto' = off /\ calls' = Stale(c)
        BY <1>1, Zenon DEF Off, Decided
    <2> HIDE DEF off
    <2> QED BY <1>0, <1>1, <2>1, <2>2, StaleCalls, Zenon
<1>2. CASE on /\ ~listed
           /\ Decided([(IF a.nearby THEN CancelRetry(a) ELSE a) EXCEPT !.nearby = FALSE], c)
    <2> DEFINE away == [(IF a.nearby THEN CancelRetry(a) ELSE a) EXCEPT !.nearby = FALSE]
    <2>1. away \in Watcher /\ away.busy = a.busy
        BY LadderIsNat DEF CancelRetry, Watcher
    <2>2. auto' = away /\ calls' = c
        BY <1>2, Zenon DEF Decided
    <2> HIDE DEF away
    <2> QED BY <1>0, <1>2, <2>1, <2>2, Zenon
<1>3. CASE on /\ listed /\ Present(Fresh(a), c)
    <2> DEFINE f == Fresh(a)
               gone == [f EXCEPT !.was = FALSE]
    <2>1. f \in Watcher /\ f.nearby = TRUE /\ f.busy = a.busy /\ f.was = a.was
        BY LadderIsNat DEF Fresh, CancelRetry, Watcher
    <2>2. Noticed(a) => f.was \/ f.quiet # "none"
        BY DEF Fresh, CancelRetry, Watcher, Noticed
    <2>3. Present(f, c)
        BY <1>3
    <2> HIDE DEF f
    <2>4. gone \in Watcher /\ gone.nearby = TRUE /\ gone.busy = f.busy
          /\ gone.quiet = f.quiet /\ gone.retry = f.retry
        BY <2>1 DEF Watcher
    <2> HIDE DEF gone
    <2>5. CASE connected /\ Decided([CancelRetry(f) EXCEPT !.was = TRUE], c)
        <3> DEFINE on1 == [CancelRetry(f) EXCEPT !.was = TRUE]
        <3>1. on1 \in Watcher /\ on1.busy = f.busy
            BY <2>1, LadderIsNat DEF CancelRetry, Watcher
        <3>2. auto' = on1 /\ calls' = c
            BY <2>5, Zenon DEF Decided
        <3> HIDE DEF on1
        <3> QED BY <1>0, <2>1, <2>5, <3>1, <3>2, Zenon
    <2>6. CASE ~connected /\ ByHand(f) /\ Decided([CancelRetry(gone) EXCEPT !.quiet = "hand"], c)
        <3> DEFINE hushed == [CancelRetry(gone) EXCEPT !.quiet = "hand"]
        <3>1. hushed \in Watcher /\ hushed.busy = gone.busy /\ hushed.nearby = TRUE
              /\ hushed.quiet # "none"
            BY <2>4, LadderIsNat DEF CancelRetry, Watcher
        <3>2. auto' = hushed /\ calls' = c
            BY <2>6, Zenon DEF Decided
        <3> HIDE DEF hushed
        <3> QED BY <1>0, <2>1, <2>4, <3>1, <3>2, Zenon DEF Noticed
    <2>7. CASE /\ ~connected /\ ~ByHand(f)
               /\ f.busy \/ f.retry \/ ~allowed \/ f.quiet # "none"
               /\ Decided(gone, c)
        <3>1. auto' = gone /\ calls' = c
            BY <2>7, Zenon DEF Decided
        <3>2. f.was => f.busy
            BY <2>7, Zenon DEF ByHand
        <3> QED BY <1>0, <2>1, <2>2, <2>4, <2>7, <3>1, <3>2, Zenon DEF Noticed
    <2>8. CASE /\ ~connected /\ ~ByHand(f)
               /\ ~(f.busy \/ f.retry \/ ~allowed \/ f.quiet # "none")
               /\ Connects(gone, c)
        <3> DEFINE busy == [gone EXCEPT !.busy = TRUE]
        <3>1. auto' = busy /\ calls' = Append(c, NewCall)
            BY <2>8, Zenon DEF Connects, Decided, NewCall
        <3>2. busy \in Watcher
            BY <2>4 DEF Watcher
        <3>3. ~f.was /\ f.quiet = "none"
            BY <2>8, Zenon DEF ByHand
        <3> HIDE DEF busy
        <3> QED BY <1>0, <2>1, <2>2, <3>1, <3>2, <3>3, AppendedCall, Zenon
    <2> QED BY <2>3, <2>5, <2>6, <2>7, <2>8, Zenon DEF Present, gone
<1> QED BY <1>1, <1>2, <1>3, Zenon DEF Evaluate

-------------------------------------------------------------------------------
(* The invariant.                                                          *)

LEMMA SidecarBegins == SidecarInit => SidecarInv
<1> SUFFICES ASSUME SidecarInit PROVE SidecarInv
    OBVIOUS
<1>1. calls = <<>> /\ ~News(calls) /\ calls \in Seq(Call)
    BY DEF SidecarInit, News
<1>2. auto \in Watcher /\ auto.busy = FALSE
    BY LadderIsNat DEF SidecarInit, Watcher
<1>3. events \in 0 .. MaxEvents
    BY SidecarAssumption DEF SidecarInit
<1> QED BY <1>1, <1>2, <1>3 DEF SidecarInit, SidecarInv, SidecarTypeOK, FlightInv, HandInv, NothingForgotten, Watcher, Call

\* The parts of a state, for the steps that follow.
LEMMA Parts ==
    ASSUME SidecarInv
    PROVE  /\ auto \in Watcher /\ calls \in Seq(Call)
           /\ {enabled, listed, connected, allowed, told, lapsed, byHand} \subseteq BOOLEAN
           /\ events \in 0 .. MaxEvents /\ SidecarTypeOK
           /\ auto.busy => calls # <<>>
           /\ News(calls) => told
           /\ connected => listed
           /\ byHand => calls = <<>> /\ enabled /\ listed /\ ~connected /\ Noticed(auto)
BY Zenon DEF SidecarInv, SidecarTypeOK, FlightInv, HandInv, Watcher, Call

\* A decision about the world as it is keeps the invariant, when it was handed the watcher
\* and its calls and what was not told is in neither.
LEMMA DecisionKeeps ==
    ASSUME SidecarInv, NEW a \in Watcher, NEW c \in Seq(Call),
           a.busy => c # <<>>, News(c) => told', Evaluate(enabled', a, c),
           UNCHANGED <<listed, connected, allowed>>,
           enabled' \in BOOLEAN, told' \in BOOLEAN, byHand' \in BOOLEAN,
           events' \in 0 .. MaxEvents,
           byHand' => byHand /\ UNCHANGED enabled /\ c = <<>> /\ Noticed(a)
    PROVE  SidecarInv'
<1>1. /\ auto' \in Watcher /\ calls' \in Seq(Call) /\ lapsed' = FALSE
      /\ auto'.busy => calls' # <<>>
      /\ News(calls') => News(c)
      /\ enabled' /\ listed /\ allowed /\ ~connected =>
             calls' # <<>> \/ auto'.retry \/ auto'.quiet # "none"
      /\ c = <<>> /\ enabled' /\ listed /\ ~connected /\ Noticed(a) =>
             calls' = <<>> /\ Noticed(auto')
    BY Parts, Decides
<1>2. listed' = listed /\ connected' = connected /\ allowed' = allowed
    OBVIOUS
<1>3. SidecarTypeOK'
    BY <1>1, <1>2, Parts DEF SidecarTypeOK, Watcher, Call
<1>4. FlightInv'
    BY <1>1 DEF FlightInv
<1>5. HandInv'
    <2>1. ASSUME byHand'
          PROVE  calls' = <<>> /\ enabled' /\ listed /\ ~connected /\ Noticed(auto')
        <3>1. byHand /\ enabled' = enabled /\ c = <<>> /\ Noticed(a)
            BY <2>1
        <3>2. enabled /\ listed /\ ~connected
            BY <3>1, Parts
        <3> QED BY <1>1, <3>1, <3>2
    <2>2. connected => listed
        BY Zenon DEF SidecarInv, HandInv
    <2>3. connected' => listed'
        BY <1>2, <2>2
    <2>4. byHand' => calls' = <<>> /\ enabled' /\ listed' /\ ~connected' /\ Noticed(auto')
        BY <1>2, <2>1
    <2> QED BY <2>3, <2>4, Zenon DEF HandInv, Noticed
<1>6. NothingForgotten'
    <2>1. ASSUME enabled', listed', allowed', ~connected'
          PROVE  calls' # <<>> \/ auto'.retry \/ auto'.quiet # "none"
        BY <1>1, <1>2, <2>1
    <2> QED BY <2>1, Zenon DEF NothingForgotten
<1> QED BY <1>3, <1>4, <1>5, <1>6 DEF SidecarInv

\* What an event leaves to decide.
LEMMA Cancelled ==
    ASSUME SidecarInv
    PROVE  /\ CancelRetry(auto) \in Watcher /\ CancelRetry(auto).busy = auto.busy
           /\ Noticed(auto) => Noticed(CancelRetry(auto))
           /\ Stale(calls) \in Seq(Call) /\ ~News(Stale(calls))
           /\ (calls = <<>>) <=> (Stale(calls) = <<>>)
<1>1. /\ CancelRetry(auto) \in Watcher /\ CancelRetry(auto).busy = auto.busy
      /\ CancelRetry(auto).was = auto.was /\ CancelRetry(auto).quiet = auto.quiet
      /\ CancelRetry(auto).nearby = auto.nearby
    BY Parts, LadderIsNat DEF CancelRetry, Watcher
<1>2. /\ Stale(calls) \in Seq(Call) /\ Len(Stale(calls)) = Len(calls) /\ ~News(Stale(calls))
    BY Parts, StaleCalls
<1>3. (calls = <<>>) <=> (Stale(calls) = <<>>)
    BY <1>2, Parts
<1> QED BY <1>1, <1>2, <1>3, Zenon DEF Noticed

-------------------------------------------------------------------------------
(* The steps.                                                              *)

LEMMA NotifiedKeeps == ASSUME SidecarInv, Notified PROVE SidecarInv'
BY Cancelled, Parts, DecisionKeeps DEF Notified, world

LEMMA SwitchKeeps == ASSUME SidecarInv, Switch PROVE SidecarInv'
<1>1. enabled' \in BOOLEAN /\ events' \in 0 .. MaxEvents /\ byHand' = FALSE
    <2>1. enabled \in BOOLEAN /\ events \in 0 .. MaxEvents /\ MaxEvents \in Nat
        BY Parts, SidecarAssumption
    <2>2. enabled' = ~enabled /\ events < MaxEvents /\ events' = events + 1 /\ byHand' = FALSE
        BY DEF Switch
    <2> QED BY <2>1, <2>2
<1> QED BY <1>1, Cancelled, Parts, DecisionKeeps DEF Switch

LEMMA RetryDueKeeps == ASSUME SidecarInv, RetryDue PROVE SidecarInv'
<1> DEFINE a == [auto EXCEPT !.retry = FALSE]
<1>1. a \in Watcher /\ a.busy = auto.busy /\ a.was = auto.was /\ a.quiet = auto.quiet
      /\ a.nearby = auto.nearby
    BY Parts DEF Watcher
<1>2. Evaluate(enabled, a, calls) /\ UNCHANGED <<world, told, events, byHand>>
    BY DEF RetryDue
<1> HIDE DEF a
<1>3. Noticed(auto) => Noticed(a)
    BY <1>1, Zenon DEF Noticed
<1> QED BY <1>1, <1>2, <1>3, Parts, DecisionKeeps DEF world

LEMMA AnswerKeeps == ASSUME SidecarInv, NEW i \in DOMAIN calls, Answer(i) PROVE SidecarInv'
<1> DEFINE idle == [auto EXCEPT !.busy = FALSE]
           c == RemoveAt(calls, i)
<1>1. idle \in Watcher /\ idle.busy = FALSE
    BY Parts DEF Watcher
<1>2. c \in Seq(Call) /\ (News(c) => News(calls))
    BY Parts, RemovedCalls
<1>3. calls # <<>> /\ ~byHand
    BY Parts
<1>4. UNCHANGED <<world, told, events, byHand>>
    BY DEF Answer
<1>5. CASE AnswerStale(i)
    <2>1. Evaluate(enabled, idle, c)
        BY <1>5 DEF AnswerStale
    <2> HIDE DEF idle, c
    <2> QED BY <1>1, <1>2, <1>3, <1>4, <2>1, Parts, DecisionKeeps DEF world
<1>6. CASE calls[i].ours /\ AnswerOurs(i)
    <2>1. calls' = c /\ UNCHANGED lapsed
        BY <1>6 DEF AnswerOurs
    <2>2. CASE calls[i].through
        <3> DEFINE done == [idle EXCEPT !.attempt = 0, !.was = TRUE]
        <3>1. auto' = done
            BY <1>6, <2>2, Zenon DEF AnswerOurs
        <3>2. done \in Watcher /\ done.busy = FALSE
            BY <1>1, LadderIsNat DEF Watcher
        <3>3. told
            BY <1>6, <2>2, Parts, Zenon DEF News
        <3> HIDE DEF done, c, idle
        <3> QED BY <1>2, <1>3, <1>4, <2>1, <3>1, <3>2, <3>3, Parts
                DEF SidecarInv, SidecarTypeOK, FlightInv, HandInv, NothingForgotten, world, Watcher, Call
    <2>3. CASE ~calls[i].through
        <3>1. auto' = ArmedRetry(idle)
            BY <1>6, <2>3, Zenon DEF AnswerOurs
        <3>2. /\ ArmedRetry(idle) \in Watcher /\ ArmedRetry(idle).busy = FALSE
              /\ ArmedRetry(idle).retry = TRUE \/ ArmedRetry(idle).quiet = "standDown"
            <4>1. ASSUME idle.attempt < Ladder PROVE idle.attempt + 1 \in 0 .. Ladder
                BY <1>1, <4>1, LadderIsNat DEF Watcher
            <4> HIDE DEF idle
            <4>2. CASE idle.attempt < Ladder
                BY <1>1, <4>1, <4>2 DEF ArmedRetry, Watcher
            <4>3. CASE ~(idle.attempt < Ladder)
                BY <1>1, <4>3, LadderIsNat DEF ArmedRetry, Watcher
            <4> QED BY <4>2, <4>3
        <3> HIDE DEF c, idle
        <3> QED BY <1>2, <1>3, <1>4, <2>1, <3>1, <3>2, Parts
                DEF SidecarInv, SidecarTypeOK, FlightInv, HandInv, NothingForgotten, world, Watcher, Call
    <2> QED BY <2>2, <2>3
<1> QED BY <1>5, <1>6 DEF Answer

LEMMA GetsThroughKeeps == ASSUME SidecarInv, NEW i \in DOMAIN calls, GetsThrough(i) PROVE SidecarInv'
<1>1. calls' \in Seq(Call) /\ calls' # <<>>
    <2>1. calls[i] \in Call
        BY Parts
    <2>2. [calls[i] EXCEPT !.through = TRUE] \in Call
        BY <2>1 DEF Call
    <2> QED BY <2>2, Parts DEF GetsThrough
<1> QED BY <1>1, Parts DEF GetsThrough, SidecarInv, SidecarTypeOK, FlightInv, HandInv, NothingForgotten, Watcher, Call

\* What happens by itself is told, or makes nothing connectable.
LEMMA WorldKeeps ==
    ASSUME SidecarInv, Carry \/ Disconnect \/ ConnectByHand \/ Gate \/ QuietEnds
    PROVE  SidecarInv'
<1>0. ASSUME Event \/ Gate PROVE events' \in 0 .. MaxEvents
    <2>1. events \in 0 .. MaxEvents /\ MaxEvents \in Nat
        BY Parts, SidecarAssumption
    <2>2. events < MaxEvents /\ events' = events + 1
        BY <1>0 DEF Event, Gate
    <2> QED BY <2>1, <2>2
<1>1. CASE Carry
    <2>1. events' \in 0 .. MaxEvents
        BY <1>0, <1>1 DEF Carry
    <2> QED BY <1>1, <2>1, Parts
            DEF Carry, Event, SidecarInv, SidecarTypeOK, FlightInv, HandInv, NothingForgotten, Watcher, Call
<1>2. CASE Disconnect
    <2>1. events' \in 0 .. MaxEvents
        BY <1>0, <1>2 DEF Disconnect
    <2> QED BY <1>2, <2>1, Parts
            DEF Disconnect, Event, SidecarInv, SidecarTypeOK, FlightInv, HandInv, NothingForgotten, Noticed, Watcher, Call
<1>3. CASE ConnectByHand
    <2>1. events' \in 0 .. MaxEvents
        BY <1>0, <1>3 DEF ConnectByHand
    <2> QED BY <1>3, <2>1, Parts
            DEF ConnectByHand, Event, SidecarInv, SidecarTypeOK, FlightInv, HandInv, NothingForgotten, Watcher, Call
<1>4. CASE Gate
    <2>1. events' \in 0 .. MaxEvents
        BY <1>0, <1>4
    <2>2. allowed' \in BOOLEAN /\ told' \in BOOLEAN /\ (told => told') /\ (allowed' => told')
        BY <1>4, Parts DEF Gate
    <2> QED BY <1>4, <2>1, <2>2, Parts
            DEF Gate, SidecarInv, SidecarTypeOK, FlightInv, HandInv, NothingForgotten, Watcher, Call
<1>5. CASE QuietEnds
    <2> DEFINE after == [auto EXCEPT !.quiet = "none"]
    <2>1. after \in Watcher /\ after.busy = auto.busy /\ after.was = auto.was
        BY Parts DEF Watcher
    <2>2. auto' = after /\ lapsed' = TRUE /\ byHand' = (byHand /\ auto.was)
          /\ UNCHANGED <<world, told, calls, events>>
        BY <1>5 DEF QuietEnds
    <2> HIDE DEF after
    <2> QED BY <2>1, <2>2, Parts
            DEF world, SidecarInv, SidecarTypeOK, FlightInv, HandInv, NothingForgotten, Noticed, Watcher, Call
<1> QED BY <1>1, <1>2, <1>3, <1>4, <1>5

LEMMA SidecarKeeps == SidecarInv /\ [SidecarNext]_sidecarVars => SidecarInv'
<1> SUFFICES ASSUME SidecarInv, [SidecarNext]_sidecarVars PROVE SidecarInv'
    OBVIOUS
<1>1. CASE UNCHANGED sidecarVars
    BY <1>1 DEF sidecarVars, world, SidecarInv, SidecarTypeOK, FlightInv, HandInv, NothingForgotten, News, Noticed
<1> QED BY <1>1, NotifiedKeeps, SwitchKeeps, RetryDueKeeps, AnswerKeeps, GetsThroughKeeps, WorldKeeps
        DEF SidecarNext, Outside

\* The invariant holds throughout.
THEOREM SidecarInductive == SidecarSpec => []SidecarInv
<1> QED BY SidecarBegins, SidecarKeeps, PTL DEF SidecarSpec

\* The watcher, the connects in flight and what macOS says of the iPad keep their types.
THEOREM SidecarTypes == SidecarSpec => []SidecarTypeOK
<1>1. SidecarInv => SidecarTypeOK
    BY DEF SidecarInv
<1> QED BY <1>1, SidecarInductive, PTL

\* For every ladder and every number of connects in flight, an iPad that may be connected is
\* not forgotten: a connect is under way, a retry is due, or a quiet time runs.
THEOREM IPadIsNotForgotten == SidecarSpec => []NothingForgotten
<1>1. SidecarInv => NothingForgotten
    BY DEF SidecarInv
<1> QED BY <1>1, SidecarInductive, PTL

\* For every ladder and every number of connects in flight, an iPad the user disconnected is
\* left alone until something undoes it.
THEOREM UserDisconnectHolds == SidecarSpec => []DisconnectIsRespected
<1>1. SidecarInv => DisconnectIsRespected
    BY DEF SidecarInv, HandInv, DisconnectIsRespected
<1> QED BY <1>1, SidecarInductive, PTL
===============================================================================
