------------------------------- MODULE Scanout -------------------------------
(***************************************************************************)
(* One head of the scanout driver (OizysCore/driver.c): captured frames go *)
(* through the damage ledger and the cache of encoded strips to the dock's *)
(* ring of buffers; the refresh clock pays outstanding debt, keeps the     *)
(* panel awake, blanks it, and re-encodes after a settings change.  All of *)
(* it runs on the capture worker, one call at a time; what interleaves is  *)
(* captured content, edits of the settings, and the other head's calls.    *)
(*                                                                         *)
(* Time is abstracted: standby, keepalive and the once-a-second reload of  *)
(* the corrections are due whenever a step chooses.                        *)
(***************************************************************************)
EXTENDS DamageLedger

CONSTANTS
    Content,        \* what a strip's pixels can be
    Tones,          \* gain/contrast/warmth triples of the settings file
    NeutralTone,    \* the triple a new driver starts with
    Cals,           \* calibrations of the calibration file
    NoCal,          \* no calibration: a new driver has none installed
    DockBuffers,    \* dock.buffers: depth of the dock's ring
    SeqModulus,     \* 2^32: frame_seq is a uint32_t
    Black,          \* a strip of a solid black frame
    None            \* no fingerprint, no body, no surface, nothing shown yet

\* An encoded strip: the fingerprint it is filed under, the pixels and the
\* settings it was made from.
Tag(t, c) == <<t, c>>
Tags == Tones \X Cals
Body == [hash : Content, px : Content, tag : Tags]

ASSUME ScanoutAssumption ==
    /\ DockBuffers \in 2 .. 3
    /\ DockBuffers <= Repeats
    /\ SeqModulus \in Nat \ {0}
    /\ None \notin Content \cup Body
    /\ NeutralTone \in Tones
    /\ NoCal \in Cals

VARIABLES
    surface,        \* pixels of the last frame captured (held as `last`)
    hashes, pending, debt, sweep, keyframe_owed,    \* OizysDamageMap
    body,           \* strip_body/strip_body_hash: the encoded strips cached
    tone,           \* gain_q8/contrast_q8/warmth installed for this head
    cal,            \* cal_active/cal_table of this head
    recode,         \* cached bodies are at an older setting
    toneStore,      \* the settings file
    calStore,       \* the calibration file
    blanked,        \* standby has painted the head black
    frame_seq,      \* sequence of the next presentation
    failed,         \* the head's output failed: nothing runs until a restart
    bufs, shown,    \* external: the dock's buffers and the one on the glass
    age             \* history: frames for which the ledger missed a change

ledger == <<hashes, pending, debt, sweep, keyframe_owed>>
settings == <<tone, cal, recode, toneStore, calStore>>
dock == <<frame_seq, bufs, shown>>
vars == <<surface, ledger, body, settings, blanked, failed, dock, age>>

Buffers == 0 .. DockBuffers - 1
Cell == Body \cup {Black, None}        \* what a strip of a dock buffer holds

\* The trailer phase: the dock buffer the presentation numbered q lands in.
Slot(q) == q % DockBuffers
Advance(q, n) == (q + n) % SeqModulus

Init ==
    /\ surface = [s \in Strips |-> None]
    /\ hashes = [s \in Strips |-> None]
    /\ pending = [s \in Strips |-> None]
    /\ debt = [s \in Strips |-> 0]
    /\ sweep = 0
    /\ keyframe_owed = TRUE
    /\ body = [s \in Strips |-> None]
    /\ tone = NeutralTone
    /\ toneStore \in Tones
    /\ cal = NoCal
    /\ calStore \in Cals
    /\ recode = FALSE
    /\ blanked = FALSE
    /\ frame_seq = 0
    /\ failed = FALSE
    /\ bufs = [b \in Buffers |-> [s \in Strips |-> None]]
    /\ shown = 0
    /\ age = [s \in Strips |-> 0]

-----------------------------------------------------------------------------
(* apply_head_correction: install this head's settings; `reload` says the  *)
(* once-a-second reread of the calibration file is due.                    *)

Recal(reload) == reload /\ cal # calStore
\* Mutant: a calibration is reloaded without invalidating the cache.
NeedsRecodeToneOnly(reload) == recode \/ tone # toneStore
NeedsRecode(reload) == recode \/ tone # toneStore \/ Recal(reload)

InstallCorrection(reload) ==
    /\ tone' = toneStore
    /\ cal' = IF reload THEN calStore ELSE cal
    /\ UNCHANGED <<toneStore, calStore>>

(* submit_strip_frame: n presentations of the strips' cached bodies, each  *)
(* stepping the dock to its next buffer.                                   *)

Landed(n) == {Slot(Advance(frame_seq, k)) : k \in 0 .. n - 1}

Painted(slots, strips, image) ==
    [b \in Buffers |->
        IF b \in slots
        THEN [s \in Strips |-> IF s \in strips THEN image[s] ELSE bufs[b][s]]
        ELSE bufs[b]]

Submit(strips, image, n) ==
    /\ bufs' = Painted(Landed(n), strips, image)
    /\ shown' = Slot(Advance(frame_seq, n - 1))
    /\ frame_seq' = Advance(frame_seq, n)

\* The bulk write of one of the n copies failed after `done` of them landed;
\* its sequence number is spent all the same.
SubmitFails(strips, image, n) ==
    \E done \in 0 .. n - 1 :
        /\ bufs' = Painted(Landed(done), strips, image)
        /\ shown' = IF done = 0 THEN shown ELSE Slot(Advance(frame_seq, done - 1))
        /\ frame_seq' = Advance(frame_seq, done + 1)

(* encode_strip_body: reuse a body whose fingerprint matches, else encode  *)
(* the pixels at the settings now installed.                               *)

Encoded(s, px, hash, stale, tag) ==
    IF ~stale /\ body[s] # None /\ body[s].hash = hash
    THEN body[s]
    ELSE [hash |-> hash, px |-> px, tag |-> tag]

-----------------------------------------------------------------------------
(* present_bgra_mosaic on a frame `px` whose dirty rects cover `marked`    *)
(* (usable = FALSE: no rects, or one that leaves the surface).             *)

\* Mutant: a settings change re-encodes without owing a keyframe.
KeyframeNoRecode(reload) == keyframe_owed \/ blanked
Keyframe(reload) == keyframe_owed \/ blanked \/ NeedsRecode(reload)

Marked(usable, marked, keyframe) ==
    IF FullPass(keyframe, usable) THEN Strips ELSE marked \cup SweptBy(sweep)

\* Frames since the ledger's fingerprint of each strip was last right.
Ageing(px, known) ==
    [s \in Strips |-> IF known[s] = px[s] THEN 0 ELSE age[s] + 1]

Present(px, usable, marked, reload) ==
    LET keyframe == Keyframe(reload)
        hash == Fingerprint(px, hashes, Marked(usable, marked, keyframe))
        charged == Charge(hash, hashes, debt)
        owed == Owed(keyframe, charged)
        stale == NeedsRecode(reload)
        tag == Tag(toneStore, IF reload THEN calStore ELSE cal)
        fresh == [s \in Strips |-> IF s \in owed
                                   THEN Encoded(s, px[s], hash[s], stale, tag)
                                   ELSE body[s]]
        n == Presentations(keyframe)
    IN  /\ surface' = px
        /\ blanked' = FALSE
        /\ InstallCorrection(reload)
        /\ sweep' = NextPhase(sweep)
        /\ pending' = hash
        /\ \/ \* Nothing owed: the dock holds the image itself.
              /\ owed = {}
              /\ keyframe_owed' = keyframe
              /\ recode' = stale
              /\ age' = Ageing(px, hashes)
              /\ UNCHANGED <<hashes, debt, body, failed, dock>>
           \/ \* The frame reached the dock.
              /\ owed # {}
              /\ body' = fresh
              /\ Submit(owed, fresh, n)
              /\ debt' = Settled(keyframe, charged)
              /\ hashes' = hash
              /\ keyframe_owed' = FALSE
              /\ recode' = FALSE
              /\ age' = Ageing(px, hash)
              /\ UNCHANGED failed
           \/ \* A strip failed to encode, or a write failed: the head fails
              \* with nothing published.  The cache is left as it was: what
              \* was re-encoded is freed by the restart, unread.
              /\ owed # {}
              /\ debt' = charged
              /\ keyframe_owed' = keyframe
              /\ recode' = stale
              /\ failed' = TRUE
              /\ \/ UNCHANGED dock              \* no strip's encoding is sent
                 \/ SubmitFails(owed, fresh, n)
              /\ UNCHANGED <<hashes, body, age>>

\* A captured frame: any content, any rects -- they are a hint.
Frame ==
    /\ ~failed
    /\ \E px \in [Strips -> Content], marked \in SUBSET Strips,
          usable, reload \in BOOLEAN :
        /\ usable \/ marked = {}
        /\ Present(px, usable, marked, reload)

\* The clock's answer to a settings change: oizys_output_repaint presents
\* the last captured frame again, with no rects.
Repaint ==
    /\ ~failed
    /\ recode
    /\ \E s \in Strips : surface[s] # None
    /\ \E reload \in BOOLEAN : Present(surface, FALSE, {}, reload)

-----------------------------------------------------------------------------
(* oizys_driver_refresh_head, reached on a clock tick with no recode due.  *)

CanRefresh == ~failed /\ ~recode /\ (~keyframe_owed \/ blanked)
Presented == hashes # [s \in Strips |-> None]        \* last_change_ns is set

\* Standby is due: two black frames and a status poll, once.
Blank ==
    /\ CanRefresh /\ Presented /\ ~blanked
    /\ \/ /\ Submit(Strips, [s \in Strips |-> Black], 2)
          /\ blanked' = TRUE
          /\ UNCHANGED failed
       \/ \E sent \in 0 .. 2 :      \* a write fails, or the poll after both
          /\ IF sent = 0 THEN UNCHANGED dock
             ELSE Submit(Strips, [s \in Strips |-> Black], sent)
          /\ failed' = TRUE
          /\ UNCHANGED blanked
    /\ UNCHANGED <<surface, ledger, body, settings, age>>

\* Standby is not due: wake if blank, then repay what is owed from the cache.
Refresh(reload, keepalive) ==
    LET keyframe == keyframe_owed \/ blanked \/ (keepalive /\ Presented)
        owed == Owed(keyframe, debt)
        n == Presentations(keyframe)
    IN  /\ CanRefresh
        /\ blanked' = FALSE
        /\ InstallCorrection(reload)
        /\ \/ \* Settings moved: the cache is not worth sending.
              /\ NeedsRecode(reload)
              /\ recode' = TRUE
              /\ keyframe_owed' = TRUE
              /\ UNCHANGED <<hashes, pending, debt, failed, dock>>
           \/ /\ ~NeedsRecode(reload)
              /\ owed = {}
              /\ keyframe_owed' = keyframe
              /\ UNCHANGED <<hashes, pending, debt, recode, failed, dock>>
           \/ /\ ~NeedsRecode(reload)
              /\ owed # {}
              /\ Submit(owed, body, n)
              /\ hashes' = pending
              /\ debt' = Settled(keyframe, debt)
              /\ keyframe_owed' = FALSE
              /\ UNCHANGED <<pending, recode, failed>>
           \/ /\ ~NeedsRecode(reload)
              /\ owed # {}
              /\ SubmitFails(owed, body, n)
              /\ keyframe_owed' = keyframe
              /\ failed' = TRUE
              /\ UNCHANGED <<hashes, pending, debt, recode>>
        /\ UNCHANGED <<surface, sweep, body, age>>

\* The first frame has not landed or the head is blanked with standby still
\* due: the tick does nothing.
RefreshTick == \E reload, keepalive \in BOOLEAN : Refresh(reload, keepalive)

-----------------------------------------------------------------------------
(* The environment.                                                        *)

\* Settings edited from the menu, or a calibration saved.
EditTone == /\ toneStore' \in Tones \ {toneStore}
            /\ UNCHANGED <<surface, ledger, body, tone, cal, recode, calStore,
                           blanked, failed, dock, age>>

EditCal == /\ calStore' \in Cals \ {calStore}
           /\ UNCHANGED <<surface, ledger, body, tone, cal, recode, toneStore,
                          blanked, failed, dock, age>>

\* reload_corrections, run on behalf of the other head, rereads every head's
\* file and raises recode here.
OtherHeadReload ==
    /\ ~failed
    /\ cal # calStore
    /\ cal' = calStore
    /\ recode' = TRUE
    /\ UNCHANGED <<surface, ledger, body, tone, toneStore, calStore, blanked,
                   failed, dock, age>>

\* The worker is restarted: a new driver, and a dock that still holds
\* whatever its buffers held.
Restart ==
    /\ failed
    /\ failed' = FALSE
    /\ surface' = [s \in Strips |-> None]
    /\ hashes' = [s \in Strips |-> None]
    /\ pending' = [s \in Strips |-> None]
    /\ debt' = [s \in Strips |-> 0]
    /\ sweep' = 0
    /\ keyframe_owed' = TRUE
    /\ body' = [s \in Strips |-> None]
    /\ tone' = NeutralTone
    /\ cal' = NoCal
    /\ recode' = FALSE
    /\ blanked' = FALSE
    /\ frame_seq' = 0
    /\ age' = [s \in Strips |-> 0]
    /\ UNCHANGED <<toneStore, calStore, bufs, shown>>

Next ==
    \/ Frame \/ Repaint \/ Blank \/ RefreshTick
    \/ EditTone \/ EditCal \/ OtherHeadReload \/ Restart

Spec == Init /\ [][Next]_vars

(* Fairness.  The capture worker's timer keeps ticking (Capture.swift): a   *)
(* head that is not blanked keeps being refreshed, a head owed a re-encode  *)
(* is repainted, and the calibration file is reread once a second by        *)
(* whichever call comes next.  Nothing is assumed of captured frames, of    *)
(* standby ending, or of edits.                                             *)
Tick == ~blanked /\ RefreshTick
Reread == \/ ~blanked /\ \E keepalive \in BOOLEAN : Refresh(TRUE, keepalive)
          \/ /\ ~failed /\ Presented
             /\ \E px \in [Strips -> Content] : Present(px, FALSE, {}, TRUE)

FairSpec == Spec /\ WF_vars(Tick) /\ WF_vars(Repaint) /\ WF_vars(Reread)

-----------------------------------------------------------------------------
(* Properties.                                                             *)

\* Type invariant of the head, its ledger and the dock.
TypeOK ==
    /\ surface \in [Strips -> Content \cup {None}]
    /\ hashes \in [Strips -> Content \cup {None}]
    /\ pending \in [Strips -> Content \cup {None}]
    /\ debt \in [Strips -> 0 .. Repeats]
    /\ sweep \in 0 .. SweepPeriod - 1
    /\ keyframe_owed \in BOOLEAN
    /\ body \in [Strips -> Body \cup {None}]
    /\ tone \in Tones /\ toneStore \in Tones
    /\ cal \in Cals /\ calStore \in Cals
    /\ recode \in BOOLEAN
    /\ blanked \in BOOLEAN
    /\ frame_seq \in 0 .. SeqModulus - 1
    /\ failed \in BOOLEAN
    /\ bufs \in [Buffers -> [Strips -> Cell]]
    /\ shown \in Buffers
    /\ age \in [Strips -> Nat]

\* The last good frame is what the head is standing on.
Streaming == ~failed /\ ~blanked /\ Presented

\* A strip whose debt the ledger has cleared is held, as last published, by
\* every buffer of the dock: nothing that may come on the glass later is
\* stale (encode.c: debt may only reach zero once every buffer has it).
PaidStripIsOnEveryBuffer ==
    Streaming /\ ~keyframe_owed =>
        \A s \in Strips : debt[s] = 0 =>
            \A b \in Buffers : bufs[b][s] = body[s]

\* A head woken from standby by a settings change stays black until the
\* repaint that re-encodes its last frame.
WakingDark == keyframe_owed /\ \A s \in Strips : bufs[shown][s] = Black

\* What the glass shows is exactly what the ledger believes was presented,
\* strip by strip, even while debt is outstanding or a settings change is
\* waiting to be applied.
PanelShowsLedger ==
    Streaming => \/ WakingDark
                 \/ \A s \in Strips : /\ bufs[shown][s] \in Body
                                      /\ bufs[shown][s].px = hashes[s]

\* Tiles encoded at two settings never share the glass (the patchwork
\* apply_head_correction's comment describes).
NoPatchwork ==
    Streaming => \A s, t \in Strips :
        bufs[shown][s] \in Body /\ bufs[shown][t] \in Body =>
            bufs[shown][s].tag = bufs[shown][t].tag

\* A change the compositor's rects omitted is noticed within SweepPeriod
\* frames (OIZYS_DAMAGE_SWEEP's promise), whatever else those frames carry.
MissedRectBounded == ~failed => \A s \in Strips : age[s] < SweepPeriod

\* A keyframe clears the ledger on its own strength, so it lands on every
\* dock buffer at once: one that came up short would leave stale pixels that
\* nothing repairs (settle_plan).
KeyframeReachesEveryBuffer ==
    [][(keyframe_owed \/ blanked) /\ ~keyframe_owed' /\ ~blanked'
        => \A b \in Buffers : bufs'[b] = body']_vars

\* The abstract panel: what is lit is read off the glass itself, so the
\* refinement also says the image is the one the ledger recorded.
Lit == Streaming /\ ~WakingDark

AbstractPanel == INSTANCE Panel WITH
    desktop <- surface,
    image <- hashes,
    lag <- age,
    glass <- IF Lit THEN [s \in Strips |-> bufs[shown][s].px] ELSE None,
    MaxLag <- SweepPeriod

\* Every step of the head is a step the panel's user was promised: no
\* interleaving of frames, clock ticks, edits, blanking and failures shows a
\* torn image or one staler than the sweep allows.
ImplementsPanel == AbstractPanel!Spec

\* Liveness: once the desktop is still, with or without frames that repeat it,
\* the clock finishes paying what is owed -- no strip stays in debt because no
\* frame came to carry it.
DebtDrains ==
    (<>[](~failed) /\ <>[][surface' = surface]_vars)
        => <>[](Streaming => \A s \in Strips : debt[s] = 0)

\* What DebtDrains rests on, while the desktop is still and the head well: a strip gets into
\* debt only where the sweep finds a change that the rects had missed, which is then known for
\* good; and each tick of the clock pays from every strip's debt, unless it finds the cache out
\* of date.
DebtIsPaidOff ==
    [][~failed /\ ~failed' /\ surface' = surface =>
        /\ \A s \in Strips : debt'[s] > debt[s] =>
               \E t \in MacroTile(s) : hashes[t] # surface[t] /\ hashes'[t] = surface[t]
        /\ \A t \in Strips : hashes[t] = surface[t] => hashes'[t] = surface[t]
        /\ Tick /\ ~recode' => \A s \in Strips : debt[s] > 0 => debt'[s] < debt[s]]_vars

\* What SettingsReachPanel rests on: as long as a lit panel shows a strip at any but the
\* settings saved last, or none at all, something is left that the clock will find: a
\* re-encode that is due, or a file that differs from what is installed (apply_head_correction,
\* oizys_driver_refresh_head).
NoSettingIsForgotten ==
    Streaming => \/ recode \/ tone # toneStore \/ cal # calStore
                 \/ \A s \in Strips : /\ bufs[shown][s] \in Body
                                      /\ bufs[shown][s].tag = Tag(toneStore, calStore)

\* Liveness: the last settings saved reach every tile of a lit panel, with
\* or without new frames, on either path that can discover them.
SettingsReachPanel ==
    (<>[](~failed) /\ <>[][~(EditTone \/ EditCal)]_vars)
        => <>[](Streaming => \A s \in Strips :
                    /\ bufs[shown][s] \in Body
                    /\ bufs[shown][s].tag = Tag(toneStore, calStore))
=============================================================================
