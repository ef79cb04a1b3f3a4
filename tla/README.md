# Oizys in TLA+

Oizys is a user-space driver for a DisplayLink "Ridge" dock on macOS: it
captures two virtual displays, encodes what changed and sends it over USB,
under a supervisor that restarts it when it hangs. This directory models the
parts of it whose correctness depends on the order in which things happen,
checks them with TLC on small instances, and proves the most important
results with TLAPS for every instance. All paths are below `src/Sources`.

## 1. The system

One process captures and drives (`oizys run`, *the worker*), one supervises it
(`oizys serve`, *the supervisor*), and a menu-bar app starts and stops the
supervisor. In the worker three serial queues and one plain thread meet: *main*
(signals, watchdog, display arrangement), *ingest* (ScreenCaptureKit's
callbacks), *worker* (everything that calls the driver), and the reader thread
of the USB session.

| Component | State | Operations | What makes it correct |
|---|---|---|---|
| Damage ledger (`encode.c`) | fingerprints, debt per strip, sweep phase, keyframe owed | plan, settle, presented, owed | a change reaches every dock buffer before its debt is cleared |
| Scanout (`driver.c`, video half) | strip cache, settings in force, frame sequence, blanked | present, repaint, refresh, blank, reload | the glass shows what the ledger believes, at one setting |
| Control session (`driver.c`, control half; `dl3.c`, `crypto.c`) | wire sequence, inner counter, keys, per-head mode | handshake, configure, EDID, activate, poll | replies are matched with requests; nothing is sent before it is legal |
| USB session (`usb_session.c`) | reply ring, flags, reader thread | open, send, recv, set_lossy, close | no reply lost silently, no lost wake-up, freed alone |
| Capture queue (`capture_frame.c`, `Capture.swift`) | pending and last frame per head, scheduled, enabled, failed | enqueue, consume, repaint, disable, fail, stop | the newest frame is always presented; nothing is freed under use |
| Worker (`main.c`) | watchdog flags, shutdown | start, watchdog, signals, shutdown | a stalled worker stops its heartbeat; shutdown always ends |
| Supervisor (`supervisor.c`) | child, deadlines, back-off, failures, status record, DisplayLink to restore | spawn, monitor, stop, decide, restore | hangs are bounded; DisplayLink is never put beside a worker; a dock it drove is served or handed back |
| Display arrangement (`display.c`) | seats, mode snapshot, settle deadline | snapshot, settle, watch | one settle per burst; user's choice adopted, fallout undone |
| Settings (`config.c`, `ConfigStore.swift`) | cached values, file identity | read, set, reset, refresh | a reader sees one whole version, and sees the last one |
| Calibration (`calibrate.c`, `CalibrationSession.swift`) | measurements, chosen curve | measure, fit, save, cancel | a cancelled session leaves the settings as found |
| DDC (`ddc_native.c`, `ddc_tunnel.c`) | none | get, set over I2C | request and reply are paired, retries bounded |
| Lifecycle (`OizysLifecycle.swift`, debug session of `Main.swift`) | lease, lock and status files | stop, resume, debug take-over | one owner; the login service comes back after a debug session |
| Production app (`Production.swift`) | worker process, failures, retry timer, sleeping/session flags | reconcile, stop, quit | at most one worker; it runs whenever it may |
| Sidecar (`SidecarAuto.swift`) | busy, retry ladder, quiet period, generation | evaluate, connect, retry | one connect at a time; the user's disconnect is respected |
| Codec (`wht.c`, the solid strip and the decoder tables of `driver.c`) | none but the tone | encode a strip, pack strips into records, describe the codebooks | the dock reads what was written; every strip fits its buffers |
| App model and UI, CLI, TUI, log, profile | views, text, pure functions | | |

Interactions: ScreenCaptureKit calls ingest, which leaves a frame in the
capture queue and dispatches to worker; worker calls the driver, which plans
with the ledger, encodes and writes to USB; a timer on worker polls the
control session, repaints after a settings change and refreshes a still head;
main's watchdog looks once a second and writes a heartbeat byte into the
supervisor's pipe; the supervisor signals, kills and reaps the worker; the
lifecycle command and the app signal, and if need be kill, the supervisor.

What is hard: four threads and no lock around the driver but the queue it runs
on; a dock that rotates through buffers nobody can read back; deadlines in
three processes that have to end in the right order; a peer that may vanish at
any step. `PROJECT.json` lists these hazards at their lines.

## 2. The modules

| Module | Models |
|---|---|
| `DamageLedger` | `encode.c`: constants and pure operations of one head's ledger |
| `Scanout` | one head of the video path, with the ledger as state, and the dock's ring of buffers |
| `Panel` | abstract: what a head promises the person in front of it |
| `StripCode` | what one strip is on the wire: transform, quantiser, codes, records, and the tables the dock reads it with |
| `MCScanout` | model values and symmetry for `Scanout`, with `StripCode` beside it |
| `CaptureQueue` | the handoff from ingest to worker and its teardown |
| `SessionInbox` | the reader thread, ring and close of the USB session |
| `ReplyChannel` | abstract: the bounded FIFO `SessionInbox` implements |
| `ControlSession` | the dock's start-up in the driver, from authentication to polling, and the replies on their way |
| `Supervisor` | the supervisor loop, its workers, their watchdog, DisplayLink, the dock |
| `Takeover` | production, debug apps and lifecycle commands: the lease, its lock, the login job, the driver lock |
| `Desktop` | the arrangement of the desk: snapshot, seating, transactions, the watcher, and what macOS and the user do to it |
| `DeskRun`, `MCDesk` | composes with `Desktop`: one run of the worker from claiming the dock to giving everything back |
| `Settings`, `MCSettings` | the settings file between the app's panel, its `oizys config` processes, an editor and the worker's cache |
| `Calibration` | a sitting with the phone, its pages, the solvers and the stored correction |
| `SidecarAuto` | automatic connection of an iPad |
| `ScanoutProofs`, `CaptureProofs`, `SupervisorProofs`, `TakeoverProofs`, `DeskProofs`, `SettingsProofs` | the inductive invariant of the component and its theorems |
| `ControlProofs` | the same for the two halves of the session: `ControlSession` and `SessionInbox` |
| `AppProofs` | the same for the app's `Calibration` and `SidecarAuto` |

Where one proof module extends two components, the second one's definitions carry
its name (`InboxInit`, `SidecarNext`), so that both can be in scope.

**Scanout.** `surface` is the last captured frame, `hashes/pending/debt/sweep/
keyframe_owed` are `OizysDamageMap`, `body` the strip cache (`strip_body`,
`strip_body_hash`), `tone`, `cal`, `recode` the correction installed and its
invalidation, `bufs` and `shown` the dock's buffers and the lit one, which the
code never sees. `Frame` is `present_bgra_mosaic` on a captured frame whose
rectangles may be anything, `Repaint` the same on the held frame, `RefreshTick`
and `Blank` are `oizys_driver_refresh_head`, `OtherHeadReload` is
`reload_corrections` run for the other head, `Restart` a new driver. A
presentation that fails part-way (`SubmitFails`) has changed some buffers and
published nothing. Time is abstracted: standby, keepalive and the reload are
due whenever a step chooses. A fingerprint is the content it identifies:
collisions (2^-64) are left out. `age` is history.

**StripCode.** No state: `Coefficients` is the way of a block from pixels to
quantised coefficients (`Sample`, `HaarPyramid`, `QuantizeBlock`), `Regions` and
`Symbol` the way from there to bits (`oizys_video_colour_strip_planes`,
`ridge_symbol`), `SolidStrip` the strip of one colour that `driver.c` writes by
itself, `Appended` a strip's way into its record, `Tables` what
`build_decoder_config` sends of the codebooks. `ReadOn` is the dock's reader, which
is not in the code: the reading for which those thresholds and bases are made.
The vector forms of the same arithmetic are the same functions. The dock's inverse
transform is not modelled. `CodeReadsBack` and `StripsFit` are statements about all
strips; `MCScanout` states them of the strips a head has sent and cached, whose
contents stand for any pixels.

**CaptureQueue.** One action per atomic section: `StartStream`, `StartReturns` and
`StartTimesOut` on main while the streams start one after the other, which
ScreenCaptureKit may answer in time, late or with a refusal (`StreamAnswers`);
`Enqueue` under the lock, `Dispatch` after it; `Dequeue`, `Take`, `Check`,
`PresentReturns`, `Keep` on the worker; the clock's guard, service and per-head
visits; the three-step stop on main and its completion on ingest. A call into the
driver is a stage of `run` that lasts until it returns, so that everything else
can happen during it. The wait for the first frames is part of `running`: all it
can do is stop. A disabled output or a freed delegate hears of no frame, which is
what is assumed of a stream that starts after its cancellation.

**SessionInbox.** The atomics are written without the lock, as in the code, so
`ReadsReply`, `FindsFull` and `Overflow` are separate steps and `SetLossy` or
`Close` fit between them. `ReplyChannel` is told of a reply when it is stored: one that
the reader has taken and a failure keeps from the ring is a stutter of the channel,
which breaks with it.

**ControlSession.** `stage`, `head`, `step` and `attempt` are the driver's place
in what `cmd_run` goes through: the shared authentication, the control set-up,
each head's nine messages and its gate, finalizing, and then, one driven head
after the other, presence and EDID (`fetch_one_edid`) and activation. `rrx` is
`have_rrx` with the bytes it guards; `key`, `edid` and `present` hold, per head,
not the data but the *connector whose data it is*, which the code does not
record and the properties are about. `transit` is every reply on its way that
some code will look at. A drain reads as many as it likes, except that a
reply which has missed `Late` drains is read by the next, which stands for the
drains' timeouts; a reply is never lost or overtaken, because until the first
stream the inbox is strict and FIFO (`SessionInbox`). External: what the dock
answers, when a receiver pushes its Rrx (`Push`, once its No_Stored_km is out),
and monitors that come and go (`Replug`). Any call may fail, and `cmd_run` then
ends the session (`Fail`).

**Supervisor.** `pc` is the supervisor's place in `oizys_supervise`, one value
per wait or decision; `stage`, `hang`, `term`, `due` describe each worker
process, which may hang on its worker queue or altogether at any moment and
may resume. `UserTogglesVendor` opens and quits DisplayLink at any moment, also under a worker:
nothing in the code prevents it, the service stops DisplayLink once, at its first
claim (`claimed`), and reads once, when it starts, whether it will restore it
(`restore_vendor`). `opened` is history: DisplayLink runs because somebody else
opened it since. A worker opens the dock exclusively; one that finds it taken fails
to start (`StartFails`) and is a failure that counts. `Tick` is a second; it waits
until whatever is due within the second has happened. The supervisor polls once per second instead of ten times,
so its deadlines are met at the resolution of a second. `since` counts the seconds
a hang has lasted, or a worker has been well, for the supervisor's child only.

**Takeover.** One step per call that another process can see between: taking
the lock, writing the lease, unloading the job, asking the apps, waiting for
them, asking and killing the driver, removing the lease, resuming. `app`,
`asked`, `closing`, `worker`, `stopping` are a process and its main queue;
`driver` is who holds the driver lock and who started it (`Orphan` when that
app has died). Whatever `reconcile` reads beside the lease is three variables:
`usable` (dock, sleep, console), of which events tell; `granted`, of which nothing
does, which is why the code polls it; and `loggedIn` (`kCGSessionLoginDoneKey`), of
which nothing does either, and which nobody polls. That the console key has changed by
the time the session's notification is handled is assumed of macOS. `duty`, `wanted`,
`dropped` are history; `heldOff` records that production last looked while a session
had the dock or before login was done (`KeptOff`). Every process may die at any step; its children survive it.

**Desktop and DeskRun.** A display has an origin, a mode and the display it
mirrors; a head is one step wide and coordinates are only ordered and compared.
`snap` is `g_snapshot`, `seat` is `g_seat_x`, `age` the time since
`g_topology_at`, `deadline` and `timer` the settle that is armed and the block
already dispatched for it. `Restored` is what `plan_restore` stages, `Arranged`
what `plan_arrange` stages over it, `Commit` the transaction that ends both and
`CommitFails` one that macOS refuses. `SettleNow` is the whole of `settle_now`:
adopt or not, plan, arrange, commit. macOS (`Relaid`, `FoldLate`, `ShrinkLate`)
may move, shrink and fold displays whenever one comes or goes, the user
(`PickMode`, `PickLayout`) whenever there is a desk. `DeskRun` adds the main
thread of `cmd_run` in front and `run_shutdown` behind: `held` is what `g_run`
owns, and every step may fail and then leaves by the path the code has for it.
Callbacks wait until `serving`, because the main queue does not run before
`dispatch_main`. Whatever macOS does to the desk when the heads go has happened by the
time the last restore stages its modes: that is assumed of it.

**Settings.** `cliQueue` runs one process at a time; `Spawn`, `ReadFile`,
`Replace`, `Exit` are its steps, `Fail` its death at any of them, before or after
it has written, and `done` the completions that have not reached the main
thread. `shown`, `confirmed`, `draft`, `held` are what the panel shows,
`confirmedSettings`, `draftSettings` and the slider under the user's finger.
`BeginLoad`, `LoadValues`, `EndLoad` are the three steps of `oizys_config` that
an outside change can fall between; `stat` compares the identity it took with
that of the file. A reset of everything removes the file. `current` is history:
it excepts a panel nobody has refreshed from what the panel has to show.

**Calibration.** `page` is each page open on the phone and the request it is in
the middle of; `Known` is the pair of tokens, `used` the one-time token.
Requests may be cut at any moment, a reply may be lost (`Cut` of a page that
waits for it) and a page loaded twice. `solves` are solvers still running, each
with whether `sessionID` is still the one it captured; `writing` is the stretch
between reading the stored correction and renaming the new one over it, in which
`SomebodyElse` may change it. `unconfirmed` are last replies whose completion
has not run, which no sitting is recorded with.

**SidecarAuto.** `Evaluate` is `evaluate` in full, with the state its callers
have just changed as an argument; `Notified`, `Switch`, `RetryDue` and `Answer`
are its callers. `calls` are connects in flight, `ours` when their generation is
the present one. `listed`, `connected`, `allowed` are what macOS says, and
`told` an event it has raised that the main thread has not run. `byHand` and
`lapsed` are history.

## 3. Runs

The cfg of each run says which of its properties are invariants.

| Run | Bounds | Properties |
|---|---|---|
| `scanout` | 3 strips in a column, two of them in one macro tile, 2 contents, 2 buffers, repeats 3, sweep 3 | `PaidStripIsOnEveryBuffer`, `ImplementsPanel` (the glass shows the ledger, a missed rectangle is found within a sweep), `StripsReadBack`, `EveryStripFits` |
| `scanout_settings` | 2 strips, 2 contents, 2 tones, 2 calibrations, sweep 1 | `NoPatchwork`, `DebtDrains`, `SettingsReachPanel` |
| `capture` | 2 heads started in turn, rect lists of 2 on one of them | `RectsCoverChanges`, `NothingFreedInUse`, `FramesAreTaken`, `FailureReleases` |
| `supervisor` | 1 worker, deadlines 5/3/2/1 s, back-off to 4, 3 failures | `HangsAreBounded`, `StopBeatsTheKill`, `NeverBoth`, `OnlySilenceTimesOut`, `DarkDocksAreHandedBack`, `LostWorkerIsReplaced` |
| `supervisor_crash` | 2 workers, 1 killed supervisor | `OrphansLeave` |
| `inbox` | ring of 3, 7 replies | `ImplementsChannel`, `NoLostWakeup`, `CloseEnds` |
| `takeover` | production, 2 debug apps, `recover-debug`, 1 app that quits or dies | `SessionHasTheDock`, `SomeoneOwesProduction`, `NeverStranded`, `NothingIsHeldOpen` |
| `control` | 2 heads, any of them driven, replies up to 7 drains late, an Rrx twice, 2 waits, 2 probes | `KeyIsTheHeads`, `ArmedIsMeasured` |
| `desk` | 2 heads, the built-in panel and an iPad, modes small/full/scaled, 3 layouts, settle delay 1, topology 4, 2 events of macOS or the user, 1 refused transaction, 1 more attempt at a mirrored head | `NothingLeftBehind`, `QuietSettleKeepsChoices`, `HeadsComeApart`, `SettlesDown`, `KnownFalloutIsPutBack` |
| `settings` | 1 slider and 1 toggle, 2 values, 3 changes in the panel, 1 rewrite by an editor (a value, or one that will not parse), 1 completion under way, 1 thread that loads | `PanelShowsTheFile`, `HeldSliderStays`, `WorkerCatchesUp` |
| `calibration` | 2 pages, 2 patches, 2 sittings, 2 changes by others | `ReadingsAreOfTheirPatch`, `StoredByWhomItIsDue`, `SittingEnds` (which says `NothingOutlivesTheSitting` beside it) |
| `sidecar` | the ladder of 5, 16 events, 3 connects in flight | `NothingForgotten`, `DisconnectIsRespected` |

`PROJECT.json` has for each property a mutant, a definition changed as a
plausible mistake would change it, with which that run finds the property
violated.

Why these bounds are enough. *Scanout*: strips interact only through their macro
tile and the row the sweep reads: three rows, two of which share a tile, have a
strip charged by its neighbour, one charged alone, and three phases of the
sweep. Two contents tell changed from unchanged; two tones and two calibrations
tell the two ways of invalidating the cache apart. The ring depths the
configuration admits are 2 and 3; the runs use the default 2 and the proofs
cover both. The sequence is only ever used modulo the ring, so a modulus the
depth divides behaves like 2^32 with two buffers. `CONSTRAINT AgeBound` cuts
only states in which the sweep's promise (`MissedRectBounded`) is already
broken. *StripCode*: every value of every codebook is written and read, so no
code is left out; whole strips are read back for nine sample pictures, whose
blocks have something in each band and follow one another in different orders.
The length of the longest strip is bounded and not sampled: the transform is
linear, so what a coefficient reaches follows from what a sample reaches and the
signs of its weights (`CoefficientRange`), and each is counted at its longest:
5796 bytes, of 8192. *Inbox*: seven replies wrap a ring of three twice.
*Capture*: two heads are what the dock has; lists of two overflow on the third
frame that waits. *Supervisor*: the deadlines are kept in their order (stall <
stop < heartbeat < startup, stop before the lifecycle's kill), which is all its
properties depend on; `MaxAge` lies beyond every bound stated, so a violation is
seen before the count is capped. *Control*: a reply of one head has to survive
into the other head's drains to matter. The last that one head asks for is the
presence of its last probe (`Settle`), and between it and what the other head's first
probe reads lie seven drains: that of the probe itself, five of the polls after its
mode, and that of its training. So `Late = 7` is the least bound with which a
late reply is credited to the next head; the run's mutant of `ArmedIsMeasured`, a presence that is kept
once it was seen, is found with seven and not with six. `MCControlEnds.cfg` has
three: how late a reply is does not matter to whether a start ends, and with seven it
holds too, in three minutes. Two waits and two probes let an EDID or a presence bit
come at once, late or never (the code's 200 and 20 only add more of the same);
an Rrx sent twice is the only repetition, and one more changes nothing, which
`KeysAreTheHeads` proves for every bound. *Takeover*: two debug apps are enough
for one session to follow on another's dead lease while a third party recovers,
and one unexpected end is what each property has to survive. `takeover` gives
`recover-debug`; `start`, `stop` and `restart` are in the module and given in no
run but the one of section 5. `Alone` restricts the commands: they run one at a
time, not while a session starts, and `recover-debug` is for production that has
not resumed (what `Documentation/Xcode.md:102` says of it). *Desk*: two events
are what it takes for fallout to follow an attach and to be followed by a
choice, or for an attach to interrupt a settle that is due; three layouts have
the heads side by side, side by side elsewhere, and apart; the topology window
is longer than two settles, as 5 s is to 0.4 s. `Windows = FALSE` leaves out
what macOS does in the instants the code cannot see (section 5). *Settings*:
three changes let a slider be dragged, let go and dragged again while the first
save is still on its way; a file that an editor rewrites once can be overtaken
by a command and can overtake one, and rewritten between any two steps of a
load. *Calibration*: the last patch, one that is not the last, and the next
sitting's; two pages can both measure the same patch. *Sidecar*: the ladder is
the code's; sixteen events climb it and come back, and three connects in flight
are one present and two stale ones.

`CHECK_DEADLOCK FALSE` is said where the system really stops or its bound ends
it: a closed session (`inbox`), a worker that has exited (`desk`), a panel, a
phone or a user that has done all the bound allows (`settings`, `calibration`,
`sidecar`). Each module of a state machine has one type invariant, and each is
proved; none needs a run beside that (added to the cfg of its run, it holds there).

Defined and not in a run, because something stronger is: `PanelShowsLedger` and
`MissedRectBounded` (implied by `ImplementsPanel`, and proved),
`KeyframeReachesEveryBuffer` (proved for rings that divide the wrap; see section
5), `OneConsumePerFrame`, `ForwardingIsVouchedFor` and `ReadyMeansTrained`
(proved), `AdoptedSeatsComeBack`, which holds too. The safety kernels of the
liveness properties (section 4) are in no run of their own either: they are proved, and the
run has the liveness property they carry. `StartEnds`, that a start ends, has a cfg of
its own (`MCControlEnds.cfg`) and holds: each step towards the end is bounded by a
count that the model shows. `StoppedIsRestored`, `NeverDormant`, `WorkerAlwaysCatchesUp`,
`FalloutIsPutBack`, `BacklogNeverEndsStreaming`, `StopStops`,
`ComingBackIsAFreshStart`, `OneConnectAtATime` are what comments say and the
code does not do: section 5.

**Fairness.** *Scanout*: the refresh timer keeps firing on a head that is not
blanked and has not failed, and once a second some call rereads the calibration;
nothing is assumed of frames or edits. *CaptureQueue*: the queues run what is
dispatched to them, calls into the driver return (USB writes time out after 2
s), main's wait for a start ends after 10 s, the watchdog acts on a failed head,
ScreenCaptureKit completes stops (and need not answer a start). *Supervisor*:
its loop runs (weak), a worker whose calls return makes progress (weak), and
time passes (strong: only finitely many signals, replugs and hangs fit in a
second). *SessionInbox*: the threads run; the deadline of a receiver is not
counted on, since the point is that it is not needed. *ControlSession*: the
driver's one thread runs and every call it makes returns (each has a timeout);
nothing is assumed of the dock or of the monitors. *Takeover*: code that has
begun goes on and its timers fire; nothing is assumed of an app asked to quit,
of a driver asked to stop, or of a stop that may be given up, so that deadlines
alone have to end a takeover and a quit. *DeskRun*: the main thread goes on
while it has something to do, and time passes; nothing is assumed of macOS or
the user. *Settings*: a process that runs ends (it is killed after 8 s), the
main thread runs its completions, the control clock looks at the file once a
second and a load that has begun ends; nothing of the user or the editor.
*Calibration*: the deadline fires, replies report, solvers are killed after 11
s, a write returns; nothing of the phone, nothing of the user. *SidecarAuto*:
none, its properties are safety.

## 4. Proofs

`ScanoutProofs` proves, for every grid, ring depth of 2 or 3, sweep period and
set of contents, tones and calibrations:

- `TypeCorrect`: `Spec => []TypeOK`;
- `PaidStripsPaid`, `PanelTracksLedger`, `SweepBoundsStaleness`: the three
  safety invariants;
- `KeyframesFillTheRing`: the action property;
- `HeadImplementsPanel`: `Scanout` implements `Panel`;
- `SettingsNeverMix`: `Spec => []NoPatchwork`.

The argument is one inductive invariant, `IInv`, of five parts. `TypeOK`;
`LedgerInv` (what is published, pending and cached agree while the head
streams); `RingInv`, the heart of it: a strip that owes *d* presentations is
stale in at most the *d* buffers the ring will reach next, so that at *d* = 0
it is stale in none; `GlassInv` (the buffer on the glass is the one written
last, and holds the ledger's image); and `AgeInv` (a missed change is as old
as the sweep is past its row, never older). `PaidStripIsOnEveryBuffer` alone is
not inductive: a frame that pays the last presentation makes it true of one
buffer, and only `RingInv` remembers the others. Each action preserves `IInv`
(`PresentKeeps`, `BlankKeeps`, `RefreshKeeps`, `EnvironmentKeeps`). `NoPatchwork`
stands on it with `TagInv`: the cache is of one setting, and of the one installed
unless a re-encode is due; a presentation that is not told to re-encode only adds
strips of the installed setting, one that is replaces the cache whole.

Two more are what `DebtDrains` and `SettingsReachPanel` are safe by.
`StillDesktopsPayOff` (`DebtIsPaidOff`): on a still desktop a strip gets into debt
only where the sweep finds a change that the rects had missed, which the ledger
then knows for good, and each tick pays from every debt unless it finds the cache
out of date. `EditsAreNotForgotten` (`NoSettingIsForgotten`): while a lit panel
shows a strip at other settings than those saved last, a re-encode is noted or the
file differs from what is installed; `OweInv` is that a lit panel which owes a
keyframe owes it to such a note.

The theorems about the ring assume `RingDividesWrap`: the depth divides the
sequence modulus. That holds of the default depth 2 and 2^32, and fails of depth
3; `MCScanoutWrap.cfg` shows what then happens, so the assumption is needed.

`ControlProofs` proves, for any number of heads, any lateness and any number of
repeated Rrx, with no assumption but the types of the constants:

- `TypeCorrect`: `Spec => []TypeOK`. Its heart is that a drain leaves replies
  no later than the bound (`UnreadAreReplies`), and that what it finds is one of
  the replies it asked for (`LatestIsAsked`, by the well-foundedness of the
  naturals);
- `KeysAreTheHeads`: `Spec => []KeyIsTheHeads`. The property speaks of heads
  that are done; what carries it from the gate, where an Rrx is taken, to the
  end of the head is `KeyInv`: the Rrx in hand is the present head's or none,
  it is dropped before the next head begins, and from the key's wrapping on
  the key is the head's. The mutant that takes any receiver's Rrx breaks its
  first conjunct;
- `HeadsAreMeasured`: `Spec => []ArmedIsMeasured`. `MeasureInv` is about the order
  of the replies on their way: no EDID is there but for the head that awaits
  it, and one at most; once the head's EDID has been read, or a status of its
  own is ahead of it, what is left of presence is the head's own; so what a head
  is armed with is its own. The lemmas say what dropping a read prefix of the
  queue keeps of that (`ReadingTakesTheEdid` and its like);
- `ReadyIsTrained` (`ReadyMeansTrained`): `TrainedInv` is that of the driven heads
  those before the present one are trained and no other is;
- `WaitsEnd`, `StartsGoForward`, `StartsRunOut`: what `StartEnds` is safe by. Each
  step of the driver lowers `Left`, a tuple of what is still to do, in the
  lexicographic order `Sooner`, which is well-founded; nobody else raises it. So
  a start ends if only the driver's thread runs, whatever the dock does.

and of the USB session, for any ring and any number of replies:

- `InboxTypes`: `InboxSpec => []InboxTypeOK`;
- `SessionIsAChannel`: `InboxSpec => ImplementsChannel`. `Held` reads the ring
  from `inbox_r` on, `inbox_n` replies modulo the ring. `RingInv` is that the write
  index is where that sequence ends, that a reply in the reader's hands is one and
  the session has not failed, and that a failed session is left by its reader;
  `SessionInbox` keeps both indices and the count, and nothing but the order of
  its updates holds them together. Each action is then an action of `ReplyChannel`
  or a stutter;
- `WaitersAreLetGo` (`WaiterIsLetGo`): a recv that sleeps on a reply or a failure has
  been woken or is about to be by a reader on its way out;
- `ReadersRunDown` (`ClosingRunsDown`) and `ClosesAlone` (`ClosedAlone`): once a session
  closes nobody is in recv, each step of its reader is one of three towards its end,
  and what close frees is used by neither. They stand on `AloneInv`: who is in recv is the owner of an open session, and only the owner
  closes it.

`CaptureProofs`, for any number of heads and rects and any order of callbacks:

- `TypeCorrect`, `NothingIsFreedInUse`: `Spec => []NothingFreedInUse`. `DisabledInv`
  (an output stays disabled once the stop has been over it) and `DrainInv`, the
  heart: the block that `worker.sync` leaves is the last that is ever queued,
  so that when it has run the worker is idle for good but for the completion's own;
- `ReplacedRectsSurvive`: `Spec => []RectsCoverChanges`. `CoverInv` says it of the
  frame that waits, unless rects have been given up, and that an empty list is
  not how that is said;
- `FramesAreWoken`: `Spec => []OneConsumePerFrame`. `WakeInv`: `scheduled` is true of a
  head while one consume block is about to be dispatched, queued or begun, in
  one of these places and there once. That is the safety half of
  `FramesAreTaken`: a frame that waits has somebody coming for it;
- `BlocksRunOut` (`BlocksEnd`) is the other half: every step of the worker's block,
  a failed one too, brings its end nearer, and nothing but the worker moves it;
- `StopsRunDown` (`StopRunsDown`): a stop's three steps follow one another, and
  while it waits for the worker its block is queued, last, with nothing put in
  behind it (`DueInv`).

`SupervisorProofs`, for all deadlines, any number of workers, supervisors killed
and seconds counted:

- `TypeCorrect`, `HangsEnd` (`HangsAreBounded`) and `DockHasOneOwner` (`NeverBoth`), from
  the types of the constants. The last holds with DisplayLink opened and quit at any
  moment: beside a worker there is none but one that somebody else has opened since
  the claim, because `Restore` comes after the last worker was reaped, on every way out;
- `LossesAreCounted` (`LossesAddUp`), of a service that is to hand the dock back:
  `LossInv` is that between two runs the failures are short of `MaxFailures`, and
  that the loop leaves for a next worker only so;
- `StopsAreInTime` (`StopBeatsTheKill`) where the supervisor's stop and the
  second it may take to notice end before the kill: `StopSeconds + 1 <
  KillGrace`; in the code 8 (10 with diagnostics) and 12;
- `OnlyTheSilentAreStopped` (`OnlySilenceTimesOut`) where `HeartbeatSeconds > 1`:
  a worker beats once a second, and its beat may be read one look later; 15 in
  the code;
- `ForwardingIsTrue` (`ForwardingIsVouchedFor`): `VouchInv`, the word is kept
  in the monitor loop alone, of a child that was heard, and the loop looks at its
  child before the second is over;
- `OrphansGoOneWay` (`OrphansOnlyLeave`) and `LossesAreMadeGood`
  (`NextWorkerComesCloser`): an orphan is nobody's child again and each step of it
  is one towards its end; between two workers each step of the loop and each
  second brings the next one closer. The second needs `SleepInv`: the loop does
  not sleep past its own deadline. These three need no more than the types of the
  constants.

`HangInv` is the heart: every second of a worker that has not been heard is taken
off the deadline; one that was heard beats for `StallSeconds` at most after it
hangs, and the beat of the last of them is read in the next second. It stands on
`AgeInv` (the watchdog's count never lags the hang) and `PlaceInv` (where the
supervisor is when it has a worker). `StopInv` is the same account for a stop,
`BeatInv` for a worker that is well. The bounds of the properties are sums of the
configured deadlines, and these invariants are where each second of them is spent.

`TakeoverProofs`, for any number of debug apps, any commands and any number of deaths:

- `TypeCorrect` and `ProductionIsNotStranded`: `Spec => []NeverStranded`, from
  `StrandInv` (production that may run and does not has its timer set, or last
  looked while a session was on or before login was done). The exception is not of
  the model's making: nothing tells an app of the end of either (section 5);
- `TheDockIsTheSessions`: under `Alone`, `Spec => []SessionHasTheDock`. `SessionInv`
  (a session is a live process that has the lock and is named by the lease) and
  `RecoverInv` (no recovery beside it) carry `DockInv`: from the moment that what
  drove the dock has gone, nobody but the session starts a driver;
- `ProductionIsOwed`: under `Alone`, and where `start` is not given, `Spec =>
  []SomeoneOwesProduction`. `DutyInv` follows what is owed from the lease to the
  process that resumes; `OneCommand` and `RestartInv` say that a restart does not
  get past a session that was on when it began;
- `QuitsAreAwaited` (`QuitIsAwaited`) and `TakeoversGoOneWay` (`TakeoverGoesOneWay`),
  without `Alone`: a quit that was put off has a driver to wait for, and a takeover
  ends a stage or one of its waits with each step, which nobody undoes.

Both hypotheses, `Alone` and that of `start`, are needed. `Alone` is what the
documentation says of `recover-debug`; section 5 tells what happens without it. With `start` given, TLC
finds the invariant false: a debug app that does not find the login job loaded
writes a lease that owes nothing, another `start` then loads the job, having
looked for a session before there was one, and the first app unloads it.

`DeskProofs`:

- `TypeCorrect`: `Spec => []TypeOK`, whose heart is that restore and arrange keep a
  display's mode, seat and mirror what they are, whatever is absent;
- `RunsLeaveNothing`: under `KeepModes` (the default of `display.keep_modes`),
  `Spec => []NothingLeftBehind`, for any displays, layouts, numbers of attempts
  and delays. The assumption is needed: without it the driver puts no mode back.
  The property speaks of the end of a run; `PhaseInv` follows it from the claim:
  until the heads are made there is no snapshot to answer for, before the driver
  is opened at most a session is held, and on the way out the heads are gone;
  `ModesInv` gives every display a mode. The rest is that `Release` stages the
  snapshot's modes whole;
- `QuietSettlesKeepChoices`: `Spec => QuietSettleKeepsChoices`. When the age is
  past the topology window the snapshot is taken from the desk itself, and a
  plan that restores the desk to itself moves nothing but heads
  (`Restored(Snapshot)` is `AsItIs`);
- `FalloutIsRemembered` (`NoFalloutIsForgotten`), for `KeepModes` and without
  `Windows`, as the property says itself: a display that macOS shrank has a settle
  or a callback coming until it is put back. `FalloutInv` gives each such display
  its callback or its timer; `WatchInv` says when there is one to wait for: the
  watcher is registered only after the heads have settled;
- `HeadsAreSeenApart` (`LastSettleSeesThemApart`): no settle that leaves the heads
  folded is the last, unless macOS refused it; one that staged nothing found them
  apart, one that staged anything has raised a callback.

`SettingsProofs`, for any settings, values, editors, threads and any number of
commands and completions under way:

- `TypeCorrect`: `Spec => []TypeOK`;
- `LoadsMissNothing` (`NothingMissed`), where one thread loads (`OneThread`; the
  worker's control clock): a cache read from an earlier file does not pass for one
  of this file. `LoadInv` is the order that ensures it: the identity is taken
  before the read, so whoever renews the file after it is seen by the next look.
  With two threads the two write `g_config` together (section 5), and the property
  is not claimed;
- `HeldSlidersStay`: `Spec => HeldSliderStays`. `DraftInv` (what is edited is
  what is shown) is what makes a listing harmless. `CommandInv` says that the
  completion of a save is that of a `Set` command, so that a save of the very
  value, which the property excepts, is the only one that lets go of a draft, and
  that a listing reported as read has been read;
- `PanelShowsWhatIsThere`: `Spec => []PanelShowsTheFile`. `SaveInv`: a draft that is
  not held has its save on the way. `ListInv`: unless an editor or a failed listing
  came after it, the last command to have run was a listing and is of the file as
  it is, or its completion asks for one; so that once all is quiet the panel is
  the file's.

`AppProofs`, of calibration, for any number of pages, patches, sittings and changes by
others:

- `CalibrationTypes`: the type invariant;
- `ReadingsAreFiled` and `ServerGoesWithTheSitting`: the two invariants;
- `CorrectionIsKept`: `Spec => StoredByWhomItIsDue`;
- `SittingsAreAwaited` (`SittingIsAwaited`): a sitting that is on has its deadline, a
  solver that answers to it or its save ahead of it. That is inductive as it
  stands, once the readings are known to be of patches (`StepInv`): a deadline
  that fires or a last reading that starts a solver hands over to the next.

The invariant of the three in the middle has five parts beside the property:
`ShapeInv` (types); `MeasureInv` (the patches before the current one have a reading, and a lit patch
is the current one); `PageInv`, the heart of it: a page of this sitting is never
ahead of it, and one that posts either saw the patch it names or names one the
sitting has passed, so that `Accepts` turns it away; `QuietInv` (a live solver is
that of the sitting that is on, and the server has gone by then); `WritingInv`
(the look of an undo found the app's own correction, and it is still there unless
somebody else has been).

and of Sidecar, for every ladder, every bound on events and connects:

- `SidecarTypes`: the type invariant;
- `IPadIsNotForgotten`: `Spec => []NothingForgotten`;
- `UserDisconnectHolds`: `Spec => []DisconnectIsRespected`.

`NothingForgotten` needs `FlightInv`: the watcher is busy only while a connect
is in flight, and one that got through and is not overtaken has an event on its
way. `DisconnectIsRespected` needs `HandInv`: after the user's disconnect the
watcher has it before it (it still remembers the connection) or behind it (it is
quiet and knows that the iPad is near).

Every property of a state machine that a run checks and that is not liveness is
proved. The liveness properties need fairness and so `ENABLED`, out of the
prover's reach: they are only model-checked. What can be proved of them is their
safety kernel: that what is awaited is on its way, and that each step towards it
counts and is not undone. What is then left to TLC is that steps which may be
taken are taken.

| Liveness (model-checked) | Kernel (proved) | Theorem |
|---|---|---|
| `DebtDrains` | `DebtIsPaidOff` | `StillDesktopsPayOff` |
| `SettingsReachPanel` | `NoSettingIsForgotten` | `EditsAreNotForgotten` |
| `FramesAreTaken` | `OneConsumePerFrame`, `BlocksEnd` | `FramesAreWoken`, `BlocksRunOut` |
| `FailureReleases` | `StopRunsDown`, `BlocksEnd` | `StopsRunDown`, `BlocksRunOut` |
| `LostWorkerIsReplaced` | `NextWorkerComesCloser` | `LossesAreMadeGood` |
| `DarkDocksAreHandedBack` | `LossesAddUp` | `LossesAreCounted` |
| `OrphansLeave` | `OrphansOnlyLeave` | `OrphansGoOneWay` |
| `NoLostWakeup` | `WaiterIsLetGo` | `WaitersAreLetGo` |
| `CloseEnds` | `ClosedAlone`, `ClosingRunsDown` | `ClosesAlone`, `ReadersRunDown` |
| `NothingIsHeldOpen` | `QuitIsAwaited`, `TakeoverGoesOneWay` | `QuitsAreAwaited`, `TakeoversGoOneWay` |
| `StartEnds` | `StartGoesForward`, `WaitsAreBounded` | `StartsRunOut`, `WaitsEnd` |
| `HeadsComeApart` | `LastSettleSeesThemApart` | `HeadsAreSeenApart` |
| `KnownFalloutIsPutBack` | `NoFalloutIsForgotten` | `FalloutIsRemembered` |
| `WorkerCatchesUp` | `NothingMissed` | `LoadsMissNothing` |
| `SittingEnds` | `NothingOutlivesTheSitting`, `SittingIsAwaited` | `ServerGoesWithTheSitting`, `SittingsAreAwaited` |

`SettlesDown` has none: a snapshot that holds folded heads makes restore and arrange
undo each other, so that nothing decreases until the topology window is over
(section 5), and only the window's end is a measure. Only evaluated are
`StripsReadBack` and `EveryStripFits`, what folds and recursive definitions
compute (`ReadOn`, `HaarPyramid`), which would take induction over data. Nothing
here is proved by that: no definition of the proved modules is recursive.

## 5. Disagreements with the code's own statements

Each of these is a property that a comment states and the model violates. They are
in no run, which all pass; the cfg named beside each finds its counterexample
(`tlc -config MCScanoutWrap.cfg MCScanout`, and so on).

- `supervisor.c:267` (`MCSupervisorWaiting.cfg`, `Supervisor`): a service that does not
  restore DisplayLink ends with "DisplayLink was not running and was not launched".
  Whether it runs is read when the service starts (191), and it is stopped at the first
  claim (207): one opened while the service waits for a dock is stopped and not
  restored (`StoppedIsRestored`).
- `Production.swift:43` (`MCTakeoverLogin.cfg`, `Takeover`): `reconcile` is called from
  whatever may make the app eligible (77-86 and the retry timer), but `eligible` also
  asks whether login is done, of which no observer tells. An agent launched before
  that arms no timer (118) and leaves the dock dark until some other event
  (`NeverDormant`; `NeverStranded` excepts it).
- `driver.c:1102` (`MCScanoutWrap.cfg`, module `MCScanout`): with `dock.buffers
  = 3` the phase of the trailer repeats when the 32-bit sequence wraps, and a
  keyframe across the wrap misses a buffer (`KeyframeReachesEveryBuffer`).
- `usb_session.c:133` (`MCInboxSwitch.cfg`, `SessionInbox`): a reader that found
  the ring full just before `oizys_session_set_lossy` fails the session just
  after it, although the caller says a backlog must not end the session from
  there (`BacklogNeverEndsStreaming`).
- `Main.swift:499` (`MCTakeoverStop.cfg`, `Takeover`): a debug app that `oizys
  service stop` asks to quit loads the login job again on its way out, and
  `stop` returns 0 (`StopStops`).
- `display.c:419` (`MCDeskFallout.cfg`, `MCDesk`): the comment on the topology
  window says of the resolutions macOS picks when a display arrives or leaves:
  "That is fallout, and it is put back." A display that has arrived is in the
  snapshot only after a reconfiguration at least 5 s later; a second arrival
  before that shrinks the first, nothing restores it, and a later settle adopts
  the shrunken mode (`FalloutIsPutBack`).
- `config.c:400` (`MCSettingsAbsent.cfg`, `MCSettings`): "a replacement during
  the read must trigger another load". A file that comes between the stat and
  the read and goes again before the next look leaves the worker on settings
  that no file has (`WorkerAlwaysCatchesUp`; `WorkerCatchesUp` excepts the
  absent file).
- `SidecarAuto.swift:165`: "one connect at a time". Switched off and on during a
  connect, a second one starts (`OneConnectAtATime`; name it in
  `MCSidecar.cfg`).
- `SidecarAuto.swift`: "Carried away and brought back is a fresh start, whatever
  happened last time". An iPad that leaves while connected is taken for the
  user's disconnect when it comes back, and is left alone for five minutes
  (`ComingBackIsAFreshStart`).

Noted while modelling, without a run. `resume` leaves a dead session's lease
behind: a session begun without the login service, a crash, `oizys service
start` and then `recover-debug` end with the service unloaded (dropping the
condition `Alone` puts on `Begin` shows it). `recover-debug` reads the lease up
to 35 s before it removes it without the lock, so it can stop the driver and
delete the lease of a session that began meanwhile. `start` checks for a session
before it bootstraps, so a session that takes over in between unloads a job it
does not owe. A production app opened by hand during a session is told nothing
of the session's end and stays dormant until the next event of the desk.
A DisplayLink opened while a worker runs is not stopped, then or later (`claimed` is
never reset). While a worker has the dock its exclusive open keeps DisplayLink off, as
`Architecture.md:17` says; between two workers nothing does, and the next one fails to
start. A dock unplugged under
a worker is a failure that counts towards the hand-back like any other.
Further: `supervisor.c:192` prints that failures restart Oizys, not DisplayLink,
while a build with `OIZYS_ALLOW_DISPLAYLINK` hands the dock back after the third
failure; `capture_frame.c:24` calls `last` the frame last presented, while
`consume` keeps a frame whose presentation failed too; `Architecture.md` bounds
a stop to three seconds, the code to 8 (10 with diagnostics). Of the control
session: the comment above `service_control` says the dock expects a poll every
13 ms and a heartbeat every 3 s, but nothing polls between the training of the
last head and the first tick of the capture clock, which the displays' and the
stream's start-up can put seconds later. `drain_edid` credits whatever it reads
to the head it asks for; only the order of the replies keeps the heads apart, so
a transport that reordered them would break `ArmedIsMeasured`. `diagnose` asks
the next head after one failed, which `cmd_run` does not; only the latter is
modelled.

Of the desk: the callback is registered after the heads have settled, so what
happens between the two is not noticed. A head that *is copied* is not what
`oizys_display_is_mirrored` looks for, so the start does not arrange it again. A
settle whose block is due just before a topology callback adopts the relayout as
if the user had chosen it, and so does the first callback after a capture that
took longer than 5 s to start. A failed settle is "retried on next
reconfiguration", but if that comes more than 5 s later it adopts the fallout
instead. `MCDesk` excludes these with `Windows = FALSE`, with `refused` and with
`StartTicks`. A snapshot that holds unpaired or folded heads and a topology change
within 5 s make restore and arrange undo each other every 0.4 s until the 5 s are
over. SIGTERM before the handlers are installed ends the worker without
restoring.

Of the settings: two threads of the worker may load at once (the worker queue's
tick, and `oizys_displays_keep_modes` on main) and write `g_config` together;
`settings` has one. Processes that write at once lose updates (read, then rename,
with no lock); a `set` over a file that is not JSON empties it; values saved in
the order A, B, A show B for a moment; `cmd_config` reports a write that failed
as an unknown key. A held slider is moved by a reset that is under way and by the
completion of a save of the value it is held at, which `HeldSliderStays` excepts,
and by a DDC read-back of the brightness, which is not modelled.

Of calibration: the limits of 10 and 120 s are keyed by the connection's
`ObjectIdentifier` and may cut a newer connection (`Cut`). The one-time token is
consumed before its 303 is sent: when that is lost the code on the screen is dead
until the deadline. When a reply to a reading is lost, its page repeats the
reading and gets 400 until it is loaded again. The callback of a last reply is not
tied to its sitting. A display unplugged during a sitting is not noticed: `present` (405)
skips a display whose screen has gone and lights nothing, and what the phone then
sees is filed under the patch all the same. `ReadingsAreOfTheirPatch` is of displays
that stay.
`oizys calibrate run` writes its twelve keys one by one, where `calibrate.c` says
"All six or none. A half-written correction would tint the panel." An undo
looks before it writes, and what comes between is lost; `StoredByWhomItIsDue`
excepts exactly that.

Of Sidecar: a disconnect by the user while a connect is unanswered is taken
straight back, since nothing tells it from a refused one (`byHand` needs no
connect in flight). No timer runs at the end of a quiet time (`lapsed` excepts
that), any event resets the ladder, a refused connect that was overtaken is tried
again at once, and a completion that never comes leaves the watcher busy for good.

## 6. What is left out

- In `StripCode`: the vector forms of the transform, the bytes of a strip's
  header, the 8-byte quantiser words of the decoder's configuration, and what the
  dock makes of the coefficients. Scanout has contents where the code has pixels.
- The calibration curves (`calibrate.c`) are pure functions of one set of readings
  in floating point, tested in the repository against recorded vectors.
- The capture-rate policy and its updates of the streams; a repaint before the
  first frame (`Capture.swift:233`), which leaves `recode` set and skips the
  refresh until a frame comes.
- In `Supervisor`: how long `oizys_stop_displaylink` takes, processes that
  survive SIGKILL, failures beyond `MaxFailures`. While stopping, the status
  record says "forwarding" until the worker is gone. A stalled orphan never
  writes its heartbeat (`main.c:1065`) and so never learns that its supervisor
  died: `OrphansLeave` excepts it.
- In `Takeover`: `launchctl` calls that fail, process ids reused, processes that
  survive SIGKILL, the instant between `Process.run` and the driver's lock.
- In `ControlSession`: what the messages say, the two counters and the seals. A
  write that timed out after it reached the dock leaves the counters behind
  (`driver.c:486`); what the dock makes of that is not in the code.
- In `DeskRun`: the profile's writes, a resolution forced by a setting
  (`oizys_displays_keep_modes`), decoys of a shared unit.
- In `Calibration`: `serverOnly` sittings and what the page draws.
- DDC (`ddc_native.c`, `ddc_tunnel.c`), virtual displays (thin wrappers over a
  private framework), USB probe and ports (enumeration and printing), wire format
  and cryptography (pure functions and calls to system libraries).
- Views, CLI, TUI, logging, profiling, benchmarks, build and test tooling: no
  protocol of their own.

## 7. Plan

Done: the video path, its strips, the handoff to it, the USB session, the supervisor, the
take-over of the dock, the control session, the desk and the worker's run around
it, the settings file, calibration with a phone, Sidecar. What is left:

| Next | Models | Composes with | Properties worth a run |
|---|---|---|---|
| `DdcTunnel` | native and tunnelled DDC: request, reply, checksum, retries | `ControlSession`'s transport | a reply is never taken for another request's |
| `SettingsThreads` | two threads of the worker in `oizys_config` | `Settings` with two `Threads` | what a thread reads of the cache is the settings of some file |

Theorems: the safety of every module of a state machine is proved, and a safety
kernel of each liveness property but `SettlesDown` (section 4 says why). What is
left to prove is that the strips read back, which needs a prover with induction.
