----------------------------- MODULE CaptureQueue -----------------------------
(***************************************************************************)
(* How captured frames reach the driver (OizysCore/capture_frame.c and     *)
(* OizysPlatform/Capture.swift).  Four threads of control meet here: the   *)
(* ingest queue that ScreenCaptureKit calls with frames, the serial worker *)
(* queue that owns the driver (frames and the refresh clock both run on    *)
(* it), ScreenCaptureKit's own thread reporting a stopped stream, and the  *)
(* main thread that tears everything down.  What the driver does with a    *)
(* frame is Scanout.tla; here a call into it only begins and returns.      *)
(* Streams start one after the other, and frames of the first arrive while *)
(* the start of the second is waited for.                                  *)
(***************************************************************************)
EXTENDS Integers, Sequences, FiniteSets

CONSTANTS
    HeadCount,      \* heads captured: OIZYS_HEADS at most
    Regions,        \* parts of a surface a dirty rectangle can name
    MaxRects,       \* OIZYS_CAPTURE_MAX_RECTS
    RectHeads       \* heads whose frames come with rects (a bound: {} to leave them out)

ASSUME CaptureAssumption ==
    /\ HeadCount \in Nat \ {0}
    /\ MaxRects \in Nat \ {0}
    /\ IsFiniteSet(Regions)
    /\ RectHeads \subseteq 0 .. HeadCount - 1

VARIABLES
    \* One OizysCaptureOutput per head.
    enabled, failed,
    pending,        \* a frame waits to be presented
    rect_count,     \* pending_rect_count: -1 once the rects are given up
    rect_area,      \* what pending_rects covers
    scheduled,      \* a consume block is on its way to the worker
    last,           \* a frame is held for repainting
    \* The threads.
    dispatching,    \* ingest, between enqueue's unlock and its dispatch_async
    sck,            \* each stream, as ScreenCaptureKit has it
    timer,          \* the refresh clock is running
    queue,          \* blocks waiting on the worker queue
    run,            \* what the worker is doing
    main,           \* the main thread's progress through captureStart and run_shutdown
    turn,           \* the output it starts or disables
    final,          \* progress of stop's completion block
    \* History.
    unread          \* per head: regions changed since a frame was last taken

outputs == <<enabled, failed, pending, rect_count, rect_area, scheduled, last>>
vars == <<outputs, dispatching, sck, timer, queue, run, main, turn, final, unread>>

Heads == 0 .. HeadCount - 1
Nobody == HeadCount                     \* no head

Consume(h) == <<"consume", h>>
Tick == <<"tick", Nobody>>
Drain == <<"drain", Nobody>>            \* the block of stop's worker.sync
FinalDrain == <<"finalDrain", Nobody>>  \* the block of its completion's
Blocks == {Consume(h) : h \in Heads} \cup {Tick, Drain, FinalDrain}

Jobs == {"none", "consume", "tick", "abort"}
Stages == {"idle", "take", "check", "present", "mark", "disable", "keep",
           "guard", "service", "visit", "repaint", "refresh"}
Idle == [job |-> "none", at |-> "idle", head |-> Nobody,
         cover |-> {}, changed |-> {}]

Init ==
    /\ enabled = [h \in Heads |-> FALSE]
    /\ failed = [h \in Heads |-> FALSE]
    /\ pending = [h \in Heads |-> FALSE]
    /\ rect_count = [h \in Heads |-> 0]
    /\ rect_area = [h \in Heads |-> {}]
    /\ scheduled = [h \in Heads |-> FALSE]
    /\ last = [h \in Heads |-> FALSE]
    /\ dispatching = Nobody
    /\ sck = [h \in Heads |-> "absent"]
    /\ timer = FALSE
    /\ queue = <<>>
    /\ run = Idle
    /\ main = "starting"
    /\ turn = 0
    /\ final = "none"
    /\ unread = [h \in Heads |-> {}]

-----------------------------------------------------------------------------
(* Shared pieces.                                                          *)

\* oizys_output_disable, under the output's lock.  The code leaves the rect
\* list of an output it disables for good; the model empties it, as nobody
\* reads it without a pending frame.
Disabled(h) ==
    /\ enabled' = [enabled EXCEPT ![h] = FALSE]
    /\ pending' = [pending EXCEPT ![h] = FALSE]
    /\ last' = [last EXCEPT ![h] = FALSE]
    /\ rect_count' = [rect_count EXCEPT ![h] = 0]
    /\ rect_area' = [rect_area EXCEPT ![h] = {}]
    /\ unread' = [unread EXCEPT ![h] = {}]
    /\ UNCHANGED <<failed, scheduled>>

\* The first half of oizys_output_fail: the first failure is the one kept.
Marked(h) ==
    /\ failed' = [failed EXCEPT ![h] = TRUE]
    /\ UNCHANGED <<enabled, pending, rect_count, rect_area, scheduled, last>>

\* The rect list after a frame with n rects, which cover `area`, is folded in.
\* A frame with no rects, or a list that outgrows the array, gives up on rects
\* until the pending frame is taken.
\* Mutant: a replaced frame's rects are forgotten with the frame.
FoldedForgetful(h, n, area) ==
    IF n = 0 THEN [count |-> -1, area |-> {}] ELSE [count |-> n, area |-> area]
Folded(h, n, area) ==
    LET count == IF pending[h] THEN rect_count[h] ELSE 0
    IN  IF n = 0 \/ count < 0 \/ count + n > MaxRects THEN [count |-> -1, area |-> {}]
        ELSE [count |-> count + n, area |-> area \cup rect_area[h]]

-----------------------------------------------------------------------------
(* The main thread: captureStart, head by head.                            *)

\* Whatever fails, Capture.stop takes down what there is.
StartFails == main' = "disabling" /\ turn' = 0

\* The display is missing or something cannot be allocated; or the stream is asked to start.
StartStream ==
    /\ main = "starting"
    /\ \/ /\ enabled' = [enabled EXCEPT ![turn] = TRUE]
          /\ sck' = [sck EXCEPT ![turn] = "asked"]
          /\ main' = "awaiting" /\ UNCHANGED turn
       \/ StartFails /\ UNCHANGED <<enabled, sck>>
    /\ UNCHANGED <<failed, pending, rect_count, rect_area, scheduled, last,
                   dispatching, timer, queue, run, final, unread>>

\* The semaphore is signalled in time.
StartReturns ==
    /\ main = "awaiting" /\ sck[turn] # "asked"
    /\ IF sck[turn] = "refused" THEN StartFails
       ELSE IF turn + 1 \in Heads THEN main' = "starting" /\ turn' = turn + 1
       ELSE main' = "running" /\ turn' = 0
    /\ UNCHANGED <<outputs, dispatching, sck, timer, queue, run, final, unread>>

\* Or after 10 s it is not, though the stream may start before, while or after it is
\* cancelled and asked to stop.
StartTimesOut ==
    /\ main = "awaiting"
    /\ StartFails
    /\ sck' = [sck EXCEPT ![turn] = CASE @ = "asked" -> "cancelled"
                                      [] @ = "streaming" -> "stopping"
                                      [] OTHER -> @]
    /\ UNCHANGED <<outputs, dispatching, timer, queue, run, final, unread>>

\* startCapture's completion; one that was cancelled is stopped by it.
StreamAnswers(h) ==
    /\ \/ sck[h] = "asked" /\ \E how \in {"streaming", "refused"} : sck' = [sck EXCEPT ![h] = how]
       \/ sck[h] = "cancelled" /\ \E how \in {"stopping", "refused"} : sck' = [sck EXCEPT ![h] = how]
    /\ UNCHANGED <<outputs, dispatching, timer, queue, run, main, turn, final, unread>>

-----------------------------------------------------------------------------
(* The ingest queue.                                                       *)

Delivering(h) == sck[h] \in {"streaming", "stopping"} /\ final # "destroyed"

\* oizys_output_enqueue under its lock.  The compositor's rects, when there
\* are any, cover what changed; a disabled output ignores the frame.
Enqueue(h) ==
    /\ dispatching = Nobody
    /\ Delivering(h)
    /\ enabled[h]
    /\ \E n \in 0 .. MaxRects, area \in SUBSET Regions, changed \in SUBSET Regions :
        LET folded == Folded(h, n, area)
        IN  /\ h \notin RectHeads => n = 0 /\ changed = {}
            /\ IF n = 0 THEN area = {} ELSE changed \subseteq area
            /\ rect_count' = [rect_count EXCEPT ![h] = folded.count]
            /\ rect_area' = [rect_area EXCEPT ![h] = folded.area]
            /\ unread' = [unread EXCEPT ![h] = @ \cup changed]
    /\ pending' = [pending EXCEPT ![h] = TRUE]
    /\ dispatching' = IF scheduled[h] THEN Nobody ELSE h
    /\ scheduled' = [scheduled EXCEPT ![h] = TRUE]
    /\ UNCHANGED <<enabled, failed, last, sck, timer, queue, run, main, turn, final>>

\* Its dispatch_async, after the unlock.
Dispatch ==
    /\ dispatching # Nobody
    /\ queue' = Append(queue, Consume(dispatching))
    /\ dispatching' = Nobody
    /\ UNCHANGED <<outputs, sck, timer, run, main, turn, final, unread>>

-----------------------------------------------------------------------------
(* ScreenCaptureKit's own thread: didStopWithError.                        *)

StreamFails(h) ==
    /\ Delivering(h)
    /\ IF failed[h]
       THEN sck' = [sck EXCEPT ![h] = "stopped"] /\ UNCHANGED outputs
       ELSE sck' = [sck EXCEPT ![h] = "failing"] /\ Marked(h)
    /\ UNCHANGED <<dispatching, timer, queue, run, main, turn, final, unread>>

StreamDisables(h) ==
    /\ sck[h] = "failing"
    /\ sck' = [sck EXCEPT ![h] = "stopped"]
    /\ Disabled(h)
    /\ UNCHANGED <<dispatching, timer, queue, run, main, turn, final>>

-----------------------------------------------------------------------------
(* The worker queue: a frame.                                              *)

\* The next block is dequeued.  A sync block only lets its waiter go on.
Dequeue ==
    /\ run.at = "idle" /\ queue # <<>>
    /\ queue' = Tail(queue)
    /\ LET block == Head(queue)
       IN  \/ /\ block[1] = "consume"
              /\ run' = [Idle EXCEPT !.job = "consume", !.at = "take", !.head = block[2]]
              /\ UNCHANGED <<main, final>>
           \/ /\ block = Tick
              /\ run' = [Idle EXCEPT !.job = "tick", !.at = "guard"]
              /\ UNCHANGED <<main, final>>
           \/ /\ block = Drain
              /\ main' = "released"         \* the driver is destroyed next
              /\ UNCHANGED <<run, final>>
           \/ /\ block = FinalDrain
              /\ final' = "drained"
              /\ UNCHANGED <<run, main>>
    /\ UNCHANGED <<outputs, dispatching, sck, timer, turn, unread>>

\* What taking the pending frame leaves scheduled.
\* Mutant: scheduled is left for the end of the presentation to clear.
StillScheduledLate(h) == [scheduled EXCEPT ![h] = pending[h]]
StillScheduled(h) == [scheduled EXCEPT ![h] = FALSE]

\* consume, under the lock: the pending frame becomes the worker's.
Take ==
    /\ run.at = "take"
    /\ LET h == run.head
       IN  /\ run' = IF ~pending[h] THEN Idle
                     ELSE [run EXCEPT !.at = "check",
                                      !.cover = IF rect_count[h] <= 0 THEN Regions
                                                ELSE rect_area[h],
                                      !.changed = unread[h]]
           /\ unread' = [unread EXCEPT ![h] = IF pending[h] THEN {} ELSE @]
           /\ pending' = [pending EXCEPT ![h] = FALSE]
           /\ scheduled' = StillScheduled(h)
           /\ rect_count' = [rect_count EXCEPT ![h] = 0]
           /\ rect_area' = [rect_area EXCEPT ![h] = {}]
    /\ UNCHANGED <<enabled, failed, last, dispatching, sck, timer,
                   queue, main, turn, final>>

\* The enabled check of consume is read outside the lock.
Check ==
    /\ run.at = "check"
    /\ run' = IF enabled[run.head] THEN [run EXCEPT !.at = "present"] ELSE Idle
    /\ UNCHANGED <<outputs, dispatching, sck, timer, queue, main, turn, final, unread>>

\* present returns: shown, or no readable pixels (nothing was sent and nothing
\* is reported), or failed.
PresentReturns ==
    /\ run.at = "present"
    /\ \E next \in {"keep", "mark"} :
        run' = [run EXCEPT !.at = next, !.cover = {}, !.changed = {}]
    /\ UNCHANGED <<outputs, dispatching, sck, timer, queue, main, turn, final, unread>>

\* consume keeps the frame for repainting, however present fared.
Keep ==
    /\ run.at = "keep"
    /\ last' = [last EXCEPT ![run.head] = TRUE]
    /\ run' = Idle
    /\ UNCHANGED <<enabled, failed, pending, rect_count, rect_area, scheduled,
                   dispatching, sck, timer, queue, main, turn, final, unread>>

-----------------------------------------------------------------------------
(* The worker queue: the refresh clock.                                    *)

TimerStarts ==
    /\ main = "running" /\ ~timer
    /\ timer' = TRUE
    /\ UNCHANGED <<outputs, dispatching, sck, queue, run, main, turn, final, unread>>

\* A tick that finds one still waiting coalesces with it.
TimerFires ==
    /\ timer
    /\ Tick \notin {queue[i] : i \in DOMAIN queue}
    /\ queue' = Append(queue, Tick)
    /\ UNCHANGED <<outputs, dispatching, sck, timer, run, main, turn, final, unread>>

\* Mutant: the loop over the heads starts again at its end.
VisitWraps(h) == [run EXCEPT !.at = "visit", !.head = h % HeadCount]
Visit(h) == IF h \in Heads THEN [run EXCEPT !.at = "visit", !.head = h] ELSE Idle

\* Nothing is serviced once any head has failed.
Guard ==
    /\ run.at = "guard"
    /\ run' = IF \E h \in Heads : failed[h] THEN Idle ELSE [run EXCEPT !.at = "service"]
    /\ UNCHANGED <<outputs, dispatching, sck, timer, queue, main, turn, final, unread>>

\* oizys_driver_service_control returns; a failure fails every head.
ServiceReturns ==
    /\ run.at = "service"
    /\ \/ run' = Visit(0)
       \/ run' = [run EXCEPT !.job = "abort", !.at = "mark", !.head = 0]
    /\ UNCHANGED <<outputs, dispatching, sck, timer, queue, main, turn, final, unread>>

\* One head's turn: repaint the held frame after a settings change, refresh
\* if no frame is waiting, or nothing due.
VisitHead ==
    /\ run.at = "visit"
    /\ \/ run' = IF enabled[run.head] /\ last[run.head]
                 THEN [run EXCEPT !.at = "repaint"] ELSE Visit(run.head + 1)
       \/ run' = IF enabled[run.head] /\ ~pending[run.head]
                 THEN [run EXCEPT !.at = "refresh"] ELSE Visit(run.head + 1)
       \/ run' = Visit(run.head + 1)
    /\ UNCHANGED <<outputs, dispatching, sck, timer, queue, main, turn, final, unread>>

\* The repaint or the refresh returns.
VisitReturns ==
    /\ run.at \in {"repaint", "refresh"}
    /\ \/ run' = Visit(run.head + 1)
       \/ run' = [run EXCEPT !.at = "mark"]
    /\ UNCHANGED <<outputs, dispatching, sck, timer, queue, main, turn, final, unread>>

\* Where the worker goes once a head it failed has been dealt with.
AfterFail ==
    CASE run.job = "consume" -> [run EXCEPT !.at = "keep"]
      [] run.job = "tick" -> Visit(run.head + 1)
      [] OTHER -> IF run.head + 1 \in Heads
                  THEN [run EXCEPT !.at = "mark", !.head = @ + 1] ELSE Idle

\* oizys_output_fail called by the worker: mark, then disable.
WorkerMarks ==
    /\ run.at = "mark"
    /\ IF failed[run.head]
       THEN run' = AfterFail /\ UNCHANGED outputs
       ELSE run' = [run EXCEPT !.at = "disable"] /\ Marked(run.head)
    /\ UNCHANGED <<dispatching, sck, timer, queue, main, turn, final, unread>>

WorkerDisables ==
    /\ run.at = "disable"
    /\ run' = AfterFail
    /\ Disabled(run.head)
    /\ UNCHANGED <<dispatching, sck, timer, queue, main, turn, final>>

-----------------------------------------------------------------------------
(* The main thread: run_shutdown, through Capture.stop.                    *)

\* A signal, or the watchdog seeing a failed head.
StopBegins ==
    /\ main = "running"
    /\ main' = "disabling"
    /\ timer' = FALSE
    /\ UNCHANGED <<outputs, dispatching, sck, queue, run, turn, final, unread>>

StopDisables ==
    /\ main = "disabling"
    /\ Disabled(turn)
    /\ turn' = turn + 1
    /\ main' = IF turn + 1 \in Heads THEN "disabling" ELSE "ingestSync"
    /\ UNCHANGED <<dispatching, sck, timer, queue, run, final>>

\* ingest.sync {} returns once the callback under way has finished.
\* Mutant: stop does not wait for the worker's blocks.
AfterIngestNoDrain == main' = "released" /\ UNCHANGED queue
AfterIngest == main' = "draining" /\ queue' = Append(queue, Drain)

\* ... and worker.sync {} queues a block behind everything already there.
StopSyncs ==
    /\ main = "ingestSync"
    /\ dispatching = Nobody
    /\ AfterIngest
    /\ UNCHANGED <<outputs, dispatching, sck, timer, run, turn, final, unread>>

\* stop asks every stream to stop and returns; the driver is destroyed
\* without waiting for them.  ScreenCaptureKit answers stream by stream.
StreamStops(h) ==
    /\ sck[h] = "stopping" \/ (main = "released" /\ sck[h] = "streaming")
    /\ sck' = [sck EXCEPT ![h] = "stopped"]
    /\ UNCHANGED <<outputs, dispatching, timer, queue, run, main, turn, final, unread>>

\* The completion block, on ingest, once every stream has answered that it has stopped or
\* that it was not running.
Completion ==
    /\ main = "released" /\ final = "none"
    /\ \A h \in Heads : sck[h] \in {"absent", "cancelled", "refused", "stopped"}
    /\ dispatching = Nobody
    /\ final' = "draining"
    /\ queue' = Append(queue, FinalDrain)
    /\ UNCHANGED <<outputs, dispatching, sck, timer, run, main, turn, unread>>

\* The delegates go, and oizys_output_destroy frees what they held.
Destroy ==
    /\ final = "drained"
    /\ final' = "destroyed"
    /\ pending' = [h \in Heads |-> FALSE]
    /\ last' = [h \in Heads |-> FALSE]
    /\ enabled' = [h \in Heads |-> FALSE]
    /\ UNCHANGED <<failed, rect_count, rect_area, scheduled, dispatching, sck,
                   timer, queue, run, main, turn, unread>>

\* Everything is released; the process exits.
Done == final = "destroyed" /\ run.at = "idle" /\ queue = <<>> /\ UNCHANGED vars

-----------------------------------------------------------------------------
Ingest == (\E h \in Heads : Enqueue(h)) \/ Dispatch
Start == StartStream \/ StartReturns \/ StartTimesOut
Stream == \E h \in Heads : StreamAnswers(h) \/ StreamFails(h) \/ StreamDisables(h) \/ StreamStops(h)
Frame == Take \/ Check \/ PresentReturns \/ Keep
Clock == Guard \/ ServiceReturns \/ VisitHead \/ VisitReturns
Worker == Dequeue \/ Frame \/ Clock \/ WorkerMarks \/ WorkerDisables
Stop == StopDisables \/ StopSyncs \/ Completion \/ Destroy

Next ==
    \/ Start \/ Ingest \/ Stream \/ Worker
    \/ TimerStarts \/ TimerFires
    \/ StopBegins \/ Stop \/ Done

Spec == Init /\ [][Next]_vars

(* Fairness: the queues run what is dispatched to them and driver calls     *)
(* return (a USB write times out after 2 s); main does not wait for a start  *)
(* for ever; the watchdog, which looks once a second, stops a capture with  *)
(* a failed head; ScreenCaptureKit completes what it is asked to stop.      *)
(* Nothing is assumed of frames, of streams that start or of the timer.     *)
FairSpec ==
    /\ Spec
    /\ WF_vars(Start) /\ WF_vars(Dispatch) /\ WF_vars(Worker) /\ WF_vars(Stop)
    /\ WF_vars(\E h \in Heads : StreamDisables(h) \/ StreamStops(h))
    /\ WF_vars((\E h \in Heads : failed[h]) /\ StopBegins)

-----------------------------------------------------------------------------
(* Properties.                                                             *)

\* Type invariant of the outputs and of the four threads' positions.
TypeOK ==
    /\ enabled \in [Heads -> BOOLEAN] /\ failed \in [Heads -> BOOLEAN]
    /\ pending \in [Heads -> BOOLEAN] /\ scheduled \in [Heads -> BOOLEAN]
    /\ rect_count \in [Heads -> -1 .. MaxRects]
    /\ rect_area \in [Heads -> SUBSET Regions]
    /\ last \in [Heads -> BOOLEAN]
    /\ dispatching \in Heads \cup {Nobody}
    /\ sck \in [Heads -> {"absent", "asked", "cancelled", "refused",
                          "streaming", "stopping", "failing", "stopped"}]
    /\ timer \in BOOLEAN
    /\ queue \in Seq(Blocks)
    /\ run \in [job : Jobs, at : Stages, head : Heads \cup {Nobody},
                cover : SUBSET Regions, changed : SUBSET Regions]
    /\ main \in {"starting", "awaiting", "running", "disabling", "ingestSync", "draining", "released"}
    /\ turn \in 0 .. HeadCount
    /\ final \in {"none", "draining", "drained", "destroyed"}
    /\ unread \in [Heads -> SUBSET Regions]

InDriver == run.at \in {"present", "service", "repaint", "refresh"}

\* Blocks that will run consume for head h.
Coming(h) ==
    Cardinality({i \in DOMAIN queue : queue[i] = Consume(h)})
        + (IF dispatching = h THEN 1 ELSE 0)
        + (IF run.at = "take" /\ run.head = h THEN 1 ELSE 0)

\* No lost wake-up: a frame that waits has exactly one consume block on its
\* way, wherever the callback, the worker and a disable have got to, and no
\* second block is ever queued (oizys_output_enqueue's `schedule`).
OneConsumePerFrame ==
    \A h \in Heads : /\ Coming(h) = IF scheduled[h] THEN 1 ELSE 0
                     /\ pending[h] => scheduled[h]

\* A replaced frame's rects survive into the frame that replaces it: what the
\* worker hands the ledger covers every change since it last took a frame.
RectsCoverChanges ==
    run.at \in {"check", "present"} => run.changed \subseteq run.cover

\* Nothing is freed while it is in use, whatever was running, queued or being
\* dispatched when stop began: the driver is destroyed only after the last
\* call into it (Capture.stop's two syncs), and an output only when no consume
\* block, dispatch or worker step refers to it (its completion's).
NothingFreedInUse ==
    /\ main = "released" => ~InDriver
    /\ final = "destroyed" =>
        /\ dispatching = Nobody
        /\ run.at = "idle"
        /\ \A i \in DOMAIN queue : queue[i] = Tick

\* Liveness: a waiting frame is taken by the worker, or its output is
\* disabled; it is never left behind.
FramesAreTaken == \A h \in Heads : pending[h] ~> ~pending[h]

\* Liveness: once a head has failed, or a stream did not start, the capture is torn down
\* and the driver released: main, ingest and worker never wait on each other for ever.
FailureReleases ==
    ((\E h \in Heads : failed[h]) \/ main = "disabling") ~> (main = "released" /\ ~InDriver)

\* How much is left of the block the worker runs: what comes before the loop over the heads,
\* the heads, and the steps at one of them.
Opening(at) == CASE at = "guard" -> 2 [] at = "service" -> 1 [] OTHER -> 0
StepsAt(at) == CASE at = "take" -> 6 [] at = "check" -> 5 [] at \in {"present", "visit"} -> 4
                 [] at \in {"repaint", "refresh"} -> 3 [] at = "mark" -> 2 [] at = "disable" -> 1
                 [] OTHER -> 0
Nearer ==
    \/ run'.at = "idle"
    \/ Opening(run'.at) < Opening(run.at)
    \/ /\ Opening(run'.at) = Opening(run.at)
       /\ \/ run'.head > run.head
          \/ run'.head = run.head /\ StepsAt(run'.at) < StepsAt(run.at)

\* What FramesAreTaken and FailureReleases rest on: a block of the worker ends, since each step
\* of it, a failed one too, brings its end nearer (consume, serviceControl, oizys_output_fail).
BlocksEnd == [][run.at # "idle" => IF Worker THEN Nearer ELSE run' = run]_vars

\* And a stop runs down: its three steps on main follow one another; while it waits for ingest
\* no frame is enqueued, and while it waits for the worker its block is there, behind what was
\* there before, with nothing put in behind it or in front.
Stopping(m) == CASE m = "disabling" -> 3 [] m = "ingestSync" -> 2 [] m = "draining" -> 1 [] OTHER -> 0
StopRunsDown ==
    [][Stopping(main) > 0 =>
        /\ Stopping(main') <= Stopping(main)
        /\ Stop => Stopping(main') < Stopping(main) \/ turn' > turn
        /\ main # "disabling" => dispatching' \in {dispatching, Nobody}
        /\ main = "draining" =>
            /\ queue # <<>> /\ queue[Len(queue)] = Drain
            /\ queue' = IF Dequeue THEN Tail(queue) ELSE queue]_vars
=============================================================================
