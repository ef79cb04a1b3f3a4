---------------------------- MODULE CaptureProofs ----------------------------
(***************************************************************************)
(* Theorems about CaptureQueue, for any number of heads, any regions, any  *)
(* length of a rect list and any number of blocks waiting on the worker.   *)
(***************************************************************************)
EXTENDS CaptureQueue, FiniteSetTheorems, TLAPS

-----------------------------------------------------------------------------
(* The worker's blocks and its queue.                                      *)

LEMMA BlocksApart ==
  /\ \A h \in Heads : /\ Consume(h) \in Blocks
                      /\ Consume(h) \notin {Tick, Drain, FinalDrain}
                      /\ \A other \in Heads : Consume(h) = Consume(other) => h = other
  /\ {Tick, Drain, FinalDrain} \subseteq Blocks
  /\ Tick # Drain /\ Tick # FinalDrain /\ Drain # FinalDrain
  BY DEF Blocks, Consume, Tick, Drain, FinalDrain

LEMMA ConsumeBlocks ==
  ASSUME NEW block \in Blocks, block[1] = "consume"
  PROVE  block[2] \in Heads /\ block = Consume(block[2])
  BY DEF Blocks, Consume, Tick, Drain, FinalDrain

\* A block dispatched goes behind those that wait.
LEMMA Appended ==
  ASSUME NEW q \in Seq(Blocks), NEW block \in Blocks
  PROVE  LET longer == Append(q, block)
         IN  /\ longer \in Seq(Blocks)
             /\ Len(longer) = Len(q) + 1
             /\ DOMAIN longer = DOMAIN q \cup {Len(q) + 1}
             /\ Len(q) + 1 \notin DOMAIN q
             /\ \A i \in DOMAIN q : longer[i] = q[i]
             /\ longer[Len(q) + 1] = block
  OBVIOUS

\* The block run next is the oldest.
LEMMA Taken ==
  ASSUME NEW q \in Seq(Blocks), q # <<>>
  PROVE  /\ Head(q) \in Blocks /\ Head(q) = q[1] /\ 1 \in DOMAIN q
         /\ Tail(q) \in Seq(Blocks)
         /\ Len(Tail(q)) = Len(q) - 1 /\ Len(q) \in Nat \ {0}
         /\ DOMAIN q = 1 .. Len(q)
         /\ DOMAIN Tail(q) = 1 .. Len(q) - 1
         /\ \A i \in DOMAIN Tail(q) : Tail(q)[i] = q[i + 1] /\ i + 1 \in DOMAIN q
  OBVIOUS

-----------------------------------------------------------------------------
(* Types.                                                                  *)

RunType == [job : Jobs, at : Stages, head : Heads \cup {Nobody},
            cover : SUBSET Regions, changed : SUBSET Regions]

\* A job about one head has one, and so has the main thread in its loops.
Placed ==
  /\ run.at \notin {"idle", "guard", "service"} => run.head \in Heads
  /\ main \in {"starting", "awaiting", "running", "disabling"} => turn \in Heads

LEMMA VisitTypes ==
  ASSUME run \in RunType, NEW h \in Nat
  PROVE  /\ Visit(h) \in RunType
         /\ Visit(h).at # "idle" => Visit(h).head \in Heads /\ Visit(h).at = "visit"
         /\ Visit(h).at \in {"idle", "visit"}
  BY CaptureAssumption DEF Visit, Idle, RunType, Jobs, Stages, Heads, Nobody

LEMMA AfterFailTypes ==
  ASSUME run \in RunType, run.head \in Heads
  PROVE  /\ AfterFail \in RunType
         /\ AfterFail.at \in {"idle", "keep", "visit", "mark"}
         /\ AfterFail.at # "idle" => AfterFail.head \in Heads
  <1>1. run.head + 1 \in Nat
    BY CaptureAssumption DEF Heads
  <1>2. CASE run.job = "consume"
    BY <1>2 DEF AfterFail, RunType, Stages
  <1>3. CASE run.job = "tick"
    BY <1>1, <1>3, VisitTypes DEF AfterFail
  <1>4. CASE run.job \notin {"consume", "tick"}
    BY <1>4, CaptureAssumption DEF AfterFail, Idle, RunType, Jobs, Stages, Heads, Nobody
  <1> QED BY <1>2, <1>3, <1>4

LEMMA InitTyped == Init => TypeOK /\ Placed
  <1> SUFFICES ASSUME Init PROVE TypeOK /\ Placed
    OBVIOUS
  <1>1. run \in RunType /\ queue \in Seq(Blocks) /\ run.at = "idle"
    BY DEF Init, RunType, Idle, Jobs, Stages, Heads, Nobody
  <1>2. 0 \in Heads /\ 0 \in 0 .. HeadCount /\ 0 \in -1 .. MaxRects
    BY CaptureAssumption DEF Heads
  <1> QED BY <1>1, <1>2 DEF Init, TypeOK, Placed, RunType, Nobody

LEMMA DisabledTypes ==
  ASSUME TypeOK, NEW h \in Heads, Disabled(h)
  PROVE  /\ enabled' \in [Heads -> BOOLEAN] /\ failed' \in [Heads -> BOOLEAN]
         /\ pending' \in [Heads -> BOOLEAN] /\ scheduled' \in [Heads -> BOOLEAN]
         /\ rect_count' \in [Heads -> -1 .. MaxRects]
         /\ rect_area' \in [Heads -> SUBSET Regions]
         /\ last' \in [Heads -> BOOLEAN]
         /\ unread' \in [Heads -> SUBSET Regions]
  BY CaptureAssumption DEF TypeOK, Disabled

LEMMA FoldedTypes ==
  ASSUME TypeOK, NEW h \in Heads, NEW n \in 0 .. MaxRects, NEW area \in SUBSET Regions
  PROVE  Folded(h, n, area).count \in -1 .. MaxRects /\ Folded(h, n, area).area \in SUBSET Regions
  BY CaptureAssumption DEF TypeOK, Folded

\* Main, ingest and ScreenCaptureKit.
LEMMA OthersKeepTypes ==
  ASSUME TypeOK, Placed,
         Start \/ Ingest \/ Stream \/ TimerStarts \/ TimerFires \/ StopBegins \/ Stop \/ Done
  PROVE  TypeOK' /\ Placed'
  <1> USE CaptureAssumption
  <1>1. CASE StartStream
    <2>1. enabled' \in [Heads -> BOOLEAN]
      BY <1>1 DEF StartStream, TypeOK
    <2>2. sck' \in [Heads -> {"absent", "asked", "cancelled", "refused",
                              "streaming", "stopping", "failing", "stopped"}]
      BY <1>1 DEF StartStream, TypeOK
    <2>3. turn' \in Heads /\ turn' \in 0 .. HeadCount
      BY <1>1 DEF StartStream, StartFails, Placed, Heads
    <2> QED BY <1>1, <2>1, <2>2, <2>3 DEF StartStream, StartFails, TypeOK, Placed
  <1>2. CASE StartReturns
    BY <1>2, SMTT(20) DEF StartReturns, StartFails, TypeOK, Placed, outputs, Heads
  <1>3. CASE StartTimesOut
    BY <1>3 DEF StartTimesOut, StartFails, TypeOK, Placed, outputs, Heads
  <1>4. ASSUME NEW h \in Heads, Enqueue(h) PROVE TypeOK' /\ Placed'
    <2>1. PICK n \in 0 .. MaxRects, area \in SUBSET Regions, changed \in SUBSET Regions :
            /\ rect_count' = [rect_count EXCEPT ![h] = Folded(h, n, area).count]
            /\ rect_area' = [rect_area EXCEPT ![h] = Folded(h, n, area).area]
            /\ unread' = [unread EXCEPT ![h] = @ \cup changed]
      BY <1>4 DEF Enqueue
    <2>2. Folded(h, n, area).count \in -1 .. MaxRects /\ Folded(h, n, area).area \in SUBSET Regions
      BY FoldedTypes
    <2> QED BY <1>4, <2>1, <2>2 DEF Enqueue, TypeOK, Placed
  <1>5. CASE Dispatch
    <2>1. dispatching \in Heads
      BY <1>5 DEF Dispatch, TypeOK
    <2>2. queue' \in Seq(Blocks)
      BY <1>5, <2>1, Appended, BlocksApart DEF Dispatch, TypeOK
    <2> QED BY <1>5, <2>2 DEF Dispatch, TypeOK, Placed, outputs
  <1>6. ASSUME NEW h \in Heads, StreamAnswers(h) \/ StreamFails(h) \/ StreamStops(h)
        PROVE  TypeOK' /\ Placed'
    <2>1. sck' \in [Heads -> {"absent", "asked", "cancelled", "refused",
                              "streaming", "stopping", "failing", "stopped"}]
      BY <1>6 DEF StreamAnswers, StreamFails, StreamStops, TypeOK
    <2>2. /\ failed' \in [Heads -> BOOLEAN]
          /\ UNCHANGED <<enabled, pending, rect_count, rect_area, scheduled, last>>
      BY <1>6 DEF StreamAnswers, StreamFails, StreamStops, Marked, outputs, TypeOK
    <2>3. UNCHANGED <<dispatching, timer, queue, run, main, turn, final, unread>>
      BY <1>6 DEF StreamAnswers, StreamFails, StreamStops
    <2> QED BY <2>1, <2>2, <2>3 DEF TypeOK, Placed
  <1>7. ASSUME NEW h \in Heads, StreamDisables(h) PROVE TypeOK' /\ Placed'
    BY <1>7, DisabledTypes DEF StreamDisables, TypeOK, Placed
  <1>8. CASE TimerStarts \/ StopBegins
    BY <1>8, ZenonT(40) DEF TimerStarts, StopBegins, TypeOK, Placed, outputs
  <1>9. CASE TimerFires
    <2>1. queue' \in Seq(Blocks)
      BY <1>9, Appended, BlocksApart DEF TimerFires, TypeOK
    <2> QED BY <1>9, <2>1 DEF TimerFires, TypeOK, Placed, outputs
  <1>10. CASE StopDisables
    <2>1. turn \in Heads
      BY <1>10 DEF StopDisables, Placed
    <2>2. turn' \in 0 .. HeadCount /\ (main' = "disabling" => turn' \in Heads)
      BY <1>10, <2>1 DEF StopDisables, Heads
    <2> QED BY <1>10, <2>1, <2>2, DisabledTypes DEF StopDisables, TypeOK, Placed
  <1>11. CASE StopSyncs
    <2>1. queue' \in Seq(Blocks)
      BY <1>11, Appended, BlocksApart DEF StopSyncs, AfterIngest, TypeOK
    <2> QED BY <1>11, <2>1 DEF StopSyncs, AfterIngest, TypeOK, Placed, outputs
  <1>12. CASE Completion
    <2>1. queue' \in Seq(Blocks)
      BY <1>12, Appended, BlocksApart DEF Completion, TypeOK
    <2> QED BY <1>12, <2>1 DEF Completion, TypeOK, Placed, outputs
  <1>13. CASE Destroy
    BY <1>13 DEF Destroy, TypeOK, Placed
  <1>14. CASE Done
    BY <1>14 DEF Done, vars, outputs, TypeOK, Placed
  <1> QED BY <1>1, <1>2, <1>3, <1>4, <1>5, <1>6, <1>7, <1>8, <1>9, <1>10, <1>11, <1>12, <1>13,
             <1>14 DEF Start, Ingest, Stream, Stop

\* The worker.
LEMMA WorkerKeepsTypes ==
  ASSUME TypeOK, Placed, Worker
  PROVE  TypeOK' /\ Placed'
  <1> USE CaptureAssumption
  <1>1. run \in RunType
    BY DEF TypeOK, RunType
  <1>2. CASE Dequeue
    <2>1. Head(queue) \in Blocks /\ queue' \in Seq(Blocks)
      BY <1>2, Taken DEF Dequeue, TypeOK
    <2>2. run' \in RunType /\ (run'.at \notin {"idle", "guard", "service"} => run'.head \in Heads)
      <3>1. CASE run' = run
        BY <1>1, <3>1 DEF Placed
      <3>2. CASE /\ Head(queue)[1] = "consume"
                 /\ run' = [Idle EXCEPT !.job = "consume", !.at = "take", !.head = Head(queue)[2]]
        BY <2>1, <3>2, ConsumeBlocks DEF Idle, RunType, Jobs, Stages
      <3>3. CASE run' = [Idle EXCEPT !.job = "tick", !.at = "guard"]
        BY <3>3 DEF Idle, RunType, Jobs, Stages
      <3> QED BY <1>2, <3>1, <3>2, <3>3 DEF Dequeue
    <2> QED BY <1>2, <2>1, <2>2 DEF Dequeue, TypeOK, Placed, outputs, RunType
  <1>3. CASE Take
    <2>1. run.head \in Heads
      BY <1>3 DEF Take, Placed
    <2>2. run' \in RunType /\ (run'.at \notin {"idle", "guard", "service"} => run'.head \in Heads)
      BY <1>1, <1>3, <2>1 DEF Take, TypeOK, RunType, Idle, Jobs, Stages
    <2> QED BY <1>3, <2>1, <2>2 DEF Take, StillScheduled, TypeOK, Placed, RunType
  <1>4. CASE Check \/ PresentReturns \/ Guard
    <2>1. run' \in RunType /\ (run'.at \notin {"idle", "guard", "service"} => run'.head \in Heads)
      <3>1. CASE run' = Idle
        BY <3>1 DEF RunType, Idle, Jobs, Stages
      <3>2. CASE run' = [run EXCEPT !.at = "service"]
        BY <1>1, <3>2 DEF RunType, Stages
      <3>3. CASE run' = [run EXCEPT !.at = "present"] /\ run.at = "check"
        BY <1>1, <3>3 DEF RunType, Stages, Placed
      <3>4. CASE PresentReturns
        BY <1>1, <3>4 DEF PresentReturns, RunType, Stages, Placed
      <3> QED BY <1>4, <3>1, <3>2, <3>3, <3>4 DEF Check, Guard
    <2> QED BY <1>4, <2>1 DEF Check, PresentReturns, Guard, TypeOK, Placed, RunType, outputs
  <1>5. CASE Keep
    BY <1>5 DEF Keep, Idle, Jobs, Stages, TypeOK, Placed
  <1>6. CASE ServiceReturns \/ VisitHead \/ VisitReturns
    <2>1. run.at # "service" => run.head \in Heads /\ run.head + 1 \in Nat
      BY <1>6 DEF ServiceReturns, VisitHead, VisitReturns, Placed, Heads
    <2>2. run' \in RunType /\ (run'.at \notin {"idle", "guard", "service"} => run'.head \in Heads)
      <3>1. CASE \E h \in Nat : run' = Visit(h)
        BY <1>1, <3>1, VisitTypes
      <3>2. CASE run' = [run EXCEPT !.job = "abort", !.at = "mark", !.head = 0]
        <4>1. 0 \in Heads
          BY DEF Heads
        <4> QED BY <1>1, <3>2, <4>1 DEF RunType, Jobs, Stages
      <3>3. CASE run.at # "service" /\ \E at \in {"repaint", "refresh", "mark"} : run' = [run EXCEPT !.at = at]
        BY <1>1, <2>1, <3>3 DEF RunType, Stages
      <3>4. 0 \in Nat
        OBVIOUS
      <3> QED BY <1>6, <2>1, <3>1, <3>2, <3>3, <3>4 DEF ServiceReturns, VisitHead, VisitReturns
    <2> QED BY <1>6, <2>2 DEF ServiceReturns, VisitHead, VisitReturns, TypeOK, Placed, RunType, outputs
  <1>7. CASE WorkerMarks \/ WorkerDisables
    <2>1. run.head \in Heads
      BY <1>7 DEF WorkerMarks, WorkerDisables, Placed
    <2>2. run' \in RunType /\ (run'.at \notin {"idle", "guard", "service"} => run'.head \in Heads)
      <3>1. CASE run' = AfterFail
        BY <1>1, <2>1, <3>1, AfterFailTypes
      <3>2. CASE run' = [run EXCEPT !.at = "disable"]
        BY <1>1, <2>1, <3>2 DEF RunType, Stages
      <3> QED BY <1>7, <3>1, <3>2 DEF WorkerMarks, WorkerDisables
    <2>3. CASE WorkerMarks
      BY <2>1, <2>2, <2>3, ZenonT(40) DEF WorkerMarks, Marked, TypeOK, Placed, RunType, outputs
    <2>4. CASE WorkerDisables
      BY <2>1, <2>2, <2>4, DisabledTypes DEF WorkerDisables, TypeOK, Placed, RunType
    <2> QED BY <1>7, <2>3, <2>4
  <1> QED BY <1>2, <1>3, <1>4, <1>5, <1>6, <1>7 DEF Worker, Frame, Clock

LEMMA TypesKept ==
  ASSUME TypeOK, Placed, [Next]_vars
  PROVE  TypeOK' /\ Placed'
  <1>1. CASE UNCHANGED vars
    BY <1>1 DEF vars, outputs, TypeOK, Placed
  <1> QED BY <1>1, OthersKeepTypes, WorkerKeepsTypes DEF Next

-----------------------------------------------------------------------------
(* Capture.stop.                                                           *)

\* The outputs stay disabled once stop has been over them, and a frame waits
\* only at an enabled one.
DisabledInv ==
  /\ timer => main = "running"
  /\ main = "running" => turn = 0
  /\ \A h \in Heads : pending[h] => enabled[h]
  /\ main = "disabling" => \A h \in Heads : h < turn => ~enabled[h]
  /\ main \in {"ingestSync", "draining", "released"} => \A h \in Heads : ~enabled[h]

\* The block of worker.sync is the last that is ever queued for the driver:
\* once it has run the worker is idle for good, but for the completion's own.
DrainInv ==
  /\ main \in {"draining", "released"} => dispatching = Nobody
  /\ main # "released" =>
        /\ final = "none"
        /\ \A i \in DOMAIN queue : /\ queue[i] # FinalDrain
                                   /\ queue[i] = Drain => main = "draining" /\ i = Len(queue)
  /\ main = "released" =>
        /\ run.at = "idle"
        /\ queue = IF final = "draining" THEN <<FinalDrain>> ELSE <<>>

LEMMA DisabledKept ==
  ASSUME TypeOK, Placed, DisabledInv, DrainInv, [Next]_vars
  PROVE  DisabledInv'
  <1> USE DEF DisabledInv
  <1>1. CASE Start
    <2>1. main' \in {"starting", "awaiting", "running", "disabling"} /\ ~timer'
      BY <1>1 DEF Start, StartStream, StartReturns, StartTimesOut, StartFails
    <2>2. \A h \in Heads : pending'[h] => enabled'[h]
      BY <1>1 DEF Start, StartStream, StartReturns, StartTimesOut, outputs, TypeOK
    <2>3. main' \in {"running", "disabling"} => turn' = 0
      BY <1>1 DEF Start, StartStream, StartReturns, StartTimesOut, StartFails
    <2>4. \A h \in Heads : ~(h < 0)
      BY DEF Heads
    <2> QED BY <2>1, <2>2, <2>3, <2>4
  <1>2. ASSUME NEW h \in Heads, Enqueue(h) PROVE DisabledInv'
    <2>1. pending' = [pending EXCEPT ![h] = TRUE] /\ enabled[h] /\ enabled' = enabled
      BY <1>2 DEF Enqueue
    <2>2. UNCHANGED <<timer, main, turn>>
      BY <1>2 DEF Enqueue
    <2> QED BY <2>1, <2>2 DEF TypeOK
  <1>3. ASSUME NEW h \in Heads, Disabled(h), UNCHANGED <<timer, main, turn>>
        PROVE  DisabledInv'
    BY <1>3 DEF Disabled, TypeOK
  <1>4. ASSUME NEW h \in Heads, StreamDisables(h) PROVE DisabledInv'
    BY <1>3, <1>4 DEF StreamDisables
  <1>5. CASE WorkerDisables
    BY <1>3, <1>5 DEF WorkerDisables, Placed
  <1>6. CASE StopDisables
    <2>1. turn \in Heads /\ ~timer /\ turn' = turn + 1 /\ timer' = timer
      BY <1>6 DEF StopDisables, Placed
    <2>2. /\ enabled' = [enabled EXCEPT ![turn] = FALSE]
          /\ pending' = [pending EXCEPT ![turn] = FALSE]
      BY <1>6 DEF StopDisables, Disabled
    <2>3. ASSUME NEW h \in Heads, h < turn + 1 PROVE ~enabled'[h]
      BY <1>6, <2>1, <2>2, <2>3 DEF StopDisables, TypeOK, Heads
    <2>4. turn + 1 \notin Heads => \A h \in Heads : h < turn + 1
      BY <2>1, CaptureAssumption DEF Heads
    <2>5. \A h \in Heads : pending'[h] => enabled'[h]
      BY <2>2 DEF TypeOK
    <2>6. main' = IF turn + 1 \in Heads THEN "disabling" ELSE "ingestSync"
      BY <1>6 DEF StopDisables
    <2> QED BY <2>1, <2>3, <2>4, <2>5, <2>6
  <1>7. CASE Dequeue
    <2>1. UNCHANGED <<enabled, pending, timer, turn>>
      BY <1>7 DEF Dequeue, outputs
    <2>2. main' = main \/ (main' = "released" /\ Head(queue) = Drain)
      BY <1>7 DEF Dequeue
    <2>3. Head(queue) = Drain => main \in {"draining", "released"}
      BY <1>7, Taken, CaptureAssumption DEF Dequeue, DrainInv, TypeOK
    <2> QED BY <2>1, <2>2, <2>3
  <1>8. CASE Take
    BY <1>8 DEF Take, TypeOK, Placed
  <1>9. CASE Destroy
    BY <1>9 DEF Destroy
  <1>10. CASE TimerStarts \/ StopBegins \/ StopSyncs
    <2>1. \A h \in Heads : ~(h < 0)
      BY DEF Heads
    <2> QED BY <1>10, <2>1 DEF TimerStarts, StopBegins, StopSyncs, AfterIngest, outputs
  <1>11. CASE UNCHANGED <<enabled, pending, timer, main, turn>>
    BY <1>11
  <1>12. ASSUME NEW h \in Heads, StreamAnswers(h) \/ StreamFails(h) \/ StreamStops(h)
         PROVE  UNCHANGED <<enabled, pending, timer, main, turn>>
    BY <1>12 DEF StreamAnswers, StreamFails, StreamStops, Marked, outputs
  <1>13. Dispatch \/ Check \/ PresentReturns \/ Keep \/ Clock \/ WorkerMarks \/ TimerFires
         \/ Completion \/ Done \/ UNCHANGED vars
         => UNCHANGED <<enabled, pending, timer, main, turn>>
    BY DEF Dispatch, Check, PresentReturns, Keep, Clock, Guard, ServiceReturns, VisitHead,
           VisitReturns, WorkerMarks, Marked, TimerFires, Completion, Done, vars, outputs
  <1> QED
    BY <1>1, <1>2, <1>4, <1>5, <1>6, <1>7, <1>8, <1>9, <1>10, <1>11, <1>12, <1>13
       DEF Next, Ingest, Stream, Worker, Frame, Stop

LEMMA DrainKept ==
  ASSUME TypeOK, Placed, DisabledInv, DrainInv, [Next]_vars
  PROVE  DrainInv'
  <1>1. queue \in Seq(Blocks) /\ Len(queue) \in Nat
    BY DEF TypeOK
  \* Who waits behind the drain: nobody.
  <1>2. ASSUME NEW block \in Blocks \ {Drain, FinalDrain}, queue' = Append(queue, block),
               main \notin {"draining", "released"}, UNCHANGED <<main, final>>
        PROVE  DrainInv'
    BY <1>1, <1>2, Appended DEF DrainInv
  <1>3. CASE Start
    BY <1>3 DEF Start, StartStream, StartReturns, StartTimesOut, StartFails, DrainInv, outputs
  <1>4. ASSUME NEW h \in Heads, Enqueue(h) PROVE DrainInv'
    <2>1. main \notin {"draining", "released"} /\ UNCHANGED <<main, final, queue>>
      BY <1>4 DEF Enqueue, DisabledInv
    <2> QED BY <2>1 DEF DrainInv
  <1>5. CASE Dispatch
    <2>1. dispatching \in Heads
      BY <1>5 DEF Dispatch, TypeOK
    <2>2. main \notin {"draining", "released"}
      BY <1>5 DEF Dispatch, DrainInv
    <2> QED BY <1>2, <1>5, <2>1, <2>2, BlocksApart DEF Dispatch
  <1>6. CASE TimerFires
    <2>1. main = "running"
      BY <1>6 DEF TimerFires, DisabledInv
    <2> QED BY <1>2, <1>6, <2>1, BlocksApart DEF TimerFires
  <1>7. CASE StopSyncs
    <2>1. queue' = Append(queue, Drain) /\ main' = "draining" /\ main = "ingestSync"
          /\ UNCHANGED <<dispatching, final>> /\ dispatching = Nobody
      BY <1>7 DEF StopSyncs, AfterIngest
    <2> QED BY <1>1, <2>1, Appended, BlocksApart DEF DrainInv
  <1>8. CASE Completion
    <2>1. queue = <<>> /\ queue' = Append(queue, FinalDrain)
      BY <1>8 DEF Completion, DrainInv
    <2>2. queue' = <<FinalDrain>>
      BY <2>1
    <2> QED BY <1>8, <2>2 DEF Completion, DrainInv
  <1>9. CASE Dequeue
    <2>1. /\ Head(queue) = queue[1] /\ 1 \in DOMAIN queue /\ Head(queue) \in Blocks
          /\ queue' = Tail(queue) /\ Len(queue') = Len(queue) - 1
          /\ \A i \in DOMAIN queue' : queue'[i] = queue[i + 1] /\ i + 1 \in DOMAIN queue
          /\ DOMAIN queue' = 1 .. Len(queue) - 1
          /\ run.at = "idle" /\ dispatching' = dispatching
      BY <1>1, <1>9, Taken DEF Dequeue
    <2>2. CASE main = "released"
      <3>1. queue = <<FinalDrain>> /\ queue' = <<>>
        BY <2>1, <2>2 DEF DrainInv
      <3>2. Head(queue) = FinalDrain /\ FinalDrain[1] # "consume"
        BY <3>1 DEF FinalDrain
      <3>3. final' = "drained" /\ run' = run /\ main' = main
        BY <1>9, <3>2, BlocksApart DEF Dequeue
      <3> QED BY <2>1, <2>2, <3>1, <3>3 DEF DrainInv
    <2>3. CASE main # "released" /\ Head(queue) = Drain
      <3>1. main = "draining" /\ Len(queue) = 1
        BY <2>1, <2>3 DEF DrainInv
      <3>2. queue' = <<>>
        BY <1>1, <2>1, <3>1
      <3>3. main' = "released" /\ run' = run /\ final' = final
        BY <1>9, <2>3, BlocksApart DEF Dequeue, Drain
      <3> QED BY <2>1, <2>3, <3>1, <3>2, <3>3 DEF DrainInv
    <2>4. CASE main # "released" /\ Head(queue) # Drain
      <3>1. Head(queue) # FinalDrain
        BY <2>1, <2>4 DEF DrainInv
      <3>2. main' = main /\ final' = final
        BY <1>9, <2>4, <3>1 DEF Dequeue
      <3>3. \A i \in DOMAIN queue' : i + 1 = Len(queue) => i = Len(queue')
        BY <1>1, <2>1
      <3> QED BY <2>1, <2>4, <3>2, <3>3 DEF DrainInv
    <2> QED BY <2>2, <2>3, <2>4
  <1>10. CASE Frame \/ Clock \/ WorkerMarks \/ WorkerDisables
    <2>1. run.at # "idle" /\ UNCHANGED <<main, final, queue, dispatching>>
      BY <1>10 DEF Frame, Take, Check, PresentReturns, Keep, Clock, Guard, ServiceReturns,
                   VisitHead, VisitReturns, WorkerMarks, WorkerDisables
    <2> QED BY <2>1 DEF DrainInv
  <1>11. CASE StopBegins \/ StopDisables
    <2>1. main' \in {"disabling", "ingestSync"} /\ main \in {"running", "disabling"}
          /\ UNCHANGED <<final, queue, dispatching>>
      BY <1>11 DEF StopBegins, StopDisables
    <2> QED BY <2>1 DEF DrainInv
  <1>12. CASE Destroy
    BY <1>12 DEF Destroy, DrainInv
  <1>13. CASE UNCHANGED <<main, final, queue, dispatching, run>>
    BY <1>13 DEF DrainInv
  <1>14. Stream \/ TimerStarts \/ Done \/ UNCHANGED vars
         => UNCHANGED <<main, final, queue, dispatching, run>>
    BY DEF Stream, StreamAnswers, StreamFails, StreamDisables, StreamStops, TimerStarts, Done, vars
  <1> QED
    BY <1>3, <1>4, <1>5, <1>6, <1>7, <1>8, <1>9, <1>10, <1>11, <1>12, <1>13, <1>14
       DEF Next, Ingest, Worker, Stop

-----------------------------------------------------------------------------
(* Rects.                                                                  *)

\* What a waiting frame's rects cover is everything that changed since a frame
\* was last taken, unless rects have been given up; an empty list is not one.
CoverInv ==
  /\ \A h \in Heads : IF pending[h]
                      THEN rect_count[h] > 0 => unread[h] \subseteq rect_area[h]
                      ELSE unread[h] = {}
  /\ \A h \in Heads : pending[h] => rect_count[h] # 0
  /\ RectsCoverChanges

\* Folding a frame in loses nothing that waits.
LEMMA FoldedCovers ==
  ASSUME TypeOK, CoverInv, NEW h \in Heads,
         NEW n \in 0 .. MaxRects, NEW area \in SUBSET Regions, NEW changed \in SUBSET area
  PROVE  LET folded == Folded(h, n, area)
         IN  /\ folded.count # 0
             /\ folded.count > 0 => unread[h] \cup changed \subseteq folded.area
  <1>1. rect_count[h] \in -1 .. MaxRects /\ MaxRects \in Nat
    BY CaptureAssumption DEF TypeOK
  <1>2. CASE pending[h]
    BY <1>1, <1>2 DEF Folded, CoverInv
  <1>3. CASE ~pending[h]
    BY <1>1, <1>3 DEF Folded, CoverInv
  <1> QED BY <1>2, <1>3

LEMMA CoverKept ==
  ASSUME TypeOK, Placed, DisabledInv, DrainInv, CoverInv, [Next]_vars
  PROVE  CoverInv'
  <1>1. ASSUME NEW h \in Heads, Enqueue(h) PROVE CoverInv'
    <2>1. PICK n \in 0 .. MaxRects, area \in SUBSET Regions, changed \in SUBSET Regions :
            /\ n # 0 => changed \subseteq area
            /\ n = 0 => area = {}
            /\ rect_count' = [rect_count EXCEPT ![h] = Folded(h, n, area).count]
            /\ rect_area' = [rect_area EXCEPT ![h] = Folded(h, n, area).area]
            /\ unread' = [unread EXCEPT ![h] = @ \cup changed]
      BY <1>1 DEF Enqueue
    <2>2. pending' = [pending EXCEPT ![h] = TRUE] /\ run' = run
      BY <1>1 DEF Enqueue
    <2>3. rect_count'[h] # 0 /\ (rect_count'[h] > 0 => unread'[h] \subseteq rect_area'[h])
      <3>1. CASE n = 0
        BY <2>1, <3>1 DEF Folded, TypeOK
      <3>2. CASE n # 0
        BY <2>1, <3>2, FoldedCovers DEF TypeOK
      <3> QED BY <3>1, <3>2
    <2>4. \A other \in Heads \ {h} : /\ rect_count'[other] = rect_count[other]
                                     /\ rect_area'[other] = rect_area[other]
                                     /\ unread'[other] = unread[other]
                                     /\ pending'[other] = pending[other]
      BY <2>1, <2>2 DEF TypeOK
    <2>5. pending'[h]
      BY <2>2 DEF TypeOK
    <2> QED BY <2>2, <2>3, <2>4, <2>5 DEF CoverInv, RectsCoverChanges
  <1>2. ASSUME NEW h \in Heads, Disabled(h), run'.at \in {"check", "present"} => run' = run
        PROVE  CoverInv'
    BY <1>2 DEF Disabled, TypeOK, CoverInv, RectsCoverChanges
  <1>3. ASSUME NEW h \in Heads, StreamDisables(h) PROVE CoverInv'
    BY <1>2, <1>3 DEF StreamDisables
  <1>4. CASE StopDisables
    BY <1>2, <1>4 DEF StopDisables, Placed
  <1>5. CASE WorkerDisables
    <2>1. run.head \in Heads /\ run' = AfterFail /\ run \in RunType
      BY <1>5 DEF WorkerDisables, Placed, TypeOK, RunType
    <2> QED BY <1>2, <1>5, <2>1, AfterFailTypes DEF WorkerDisables
  <1>6. CASE Take
    <2> DEFINE h == run.head
    <2>1. h \in Heads
      BY <1>6 DEF Take, Placed
    <2>2. /\ pending' = [pending EXCEPT ![h] = FALSE]
          /\ rect_count' = [rect_count EXCEPT ![h] = 0]
          /\ rect_area' = [rect_area EXCEPT ![h] = {}]
          /\ unread' = [unread EXCEPT ![h] = IF pending[h] THEN {} ELSE @]
      BY <1>6 DEF Take
    <2>3. run'.at \in {"check", "present"} => run'.changed \subseteq run'.cover
      <3>1. CASE ~pending[h]
        <4>1. run' = Idle
          BY <1>6, <3>1 DEF Take
        <4> QED BY <4>1 DEF Idle
      <3>2. CASE pending[h]
        <4>1. run' = [run EXCEPT !.at = "check",
                                 !.cover = IF rect_count[h] <= 0 THEN Regions ELSE rect_area[h],
                                 !.changed = unread[h]]
          BY <1>6, <3>2 DEF Take
        <4>2. /\ run'.cover = IF rect_count[h] <= 0 THEN Regions ELSE rect_area[h]
              /\ run'.changed = unread[h]
          BY <4>1 DEF TypeOK
        <4>3. unread[h] \subseteq Regions /\ rect_count[h] \in -1 .. MaxRects
          BY <2>1 DEF TypeOK
        <4>4. rect_count[h] > 0 => unread[h] \subseteq rect_area[h]
          BY <2>1, <3>2 DEF CoverInv
        <4> QED BY <4>2, <4>3, <4>4, CaptureAssumption
      <3> QED BY <3>1, <3>2
    <2> QED BY <2>1, <2>2, <2>3 DEF CoverInv, RectsCoverChanges, TypeOK
  <1>7. CASE Destroy
    <2>1. \A h \in Heads : ~pending[h]
      BY <1>7 DEF Destroy, DisabledInv, DrainInv
    <2> QED BY <1>7, <2>1 DEF Destroy, CoverInv, RectsCoverChanges
  <1>8. ASSUME UNCHANGED <<pending, rect_count, rect_area, unread>>,
               run'.at \in {"check", "present"} =>
                 run.at \in {"check", "present"} /\ run'.cover = run.cover /\ run'.changed = run.changed
        PROVE  CoverInv'
    BY <1>8 DEF CoverInv, RectsCoverChanges
  <1>9. CASE Dequeue
    <2>1. UNCHANGED <<pending, rect_count, rect_area, unread>>
      BY <1>9 DEF Dequeue, outputs
    <2>2. run' = run \/ run'.at \in {"take", "guard"}
      BY <1>9 DEF Dequeue, Idle
    <2> QED BY <1>8, <2>1, <2>2
  <1>10. CASE Check \/ PresentReturns \/ Keep
    <2>1. UNCHANGED <<pending, rect_count, rect_area, unread>>
      BY <1>10 DEF Check, PresentReturns, Keep, outputs
    <2>2. \/ run'.at \in {"idle", "keep", "mark"}
          \/ run.at = "check" /\ run'.cover = run.cover /\ run'.changed = run.changed
      <3>1. run \in RunType
        BY DEF TypeOK, RunType
      <3>2. CASE Check
        BY <3>1, <3>2 DEF Check, Idle, RunType
      <3>3. CASE PresentReturns
        BY <3>1, <3>3 DEF PresentReturns, RunType
      <3>4. CASE Keep
        BY <3>4 DEF Keep, Idle
      <3> QED BY <1>10, <3>2, <3>3, <3>4
    <2> QED BY <1>8, <2>1, <2>2
  <1>11. CASE Clock \/ WorkerMarks
    <2>1. UNCHANGED <<pending, rect_count, rect_area, unread>>
      BY <1>11 DEF Clock, Guard, ServiceReturns, VisitHead, VisitReturns, WorkerMarks, Marked, outputs
    <2>2. run'.at \notin {"check", "present"}
      <3>1. run \in RunType
        BY DEF TypeOK, RunType
      <3>2. CASE run' = AfterFail /\ run.at = "mark"
        <4>1. run.head \in Heads
          BY <3>2 DEF Placed
        <4> QED BY <3>1, <3>2, <4>1, AfterFailTypes
      <3>3. CASE run' = Visit(0) \/ (run.head \in Heads /\ run' = Visit(run.head + 1))
        <4>1. 0 \in Nat /\ (run.head \in Heads => run.head + 1 \in Nat)
          BY DEF Heads
        <4> QED BY <3>1, <3>3, <4>1, VisitTypes
      <3>4. CASE \E at \in {"service", "mark", "repaint", "refresh", "disable"} : run'.at = at
        BY <3>4
      <3>5. CASE run' = Idle
        BY <3>5 DEF Idle
      <3>6. CASE Clock
        <4>1. Guard => run' = Idle \/ run'.at = "service"
          BY <3>1 DEF Guard, RunType
        <4>2. ServiceReturns => run' = Visit(0) \/ run'.at = "mark"
          BY <3>1 DEF ServiceReturns, RunType
        <4>3. VisitHead \/ VisitReturns =>
                \/ run.head \in Heads /\ run' = Visit(run.head + 1)
                \/ run'.at \in {"repaint", "refresh", "mark"}
          BY <3>1 DEF VisitHead, VisitReturns, RunType, Placed
        <4> QED BY <3>3, <3>4, <3>5, <3>6, <4>1, <4>2, <4>3 DEF Clock
      <3>7. CASE WorkerMarks
        <4>1. run.at = "mark" /\ (run' = AfterFail \/ run'.at = "disable")
          BY <3>1, <3>7 DEF WorkerMarks, RunType
        <4> QED BY <3>2, <3>4, <4>1
      <3> QED BY <1>11, <3>6, <3>7
    <2> QED BY <1>8, <2>1, <2>2
  <1>12. CASE UNCHANGED <<pending, rect_count, rect_area, unread, run>>
    BY <1>8, <1>12
  <1>13. ASSUME NEW h \in Heads, StreamAnswers(h) \/ StreamFails(h) \/ StreamStops(h)
         PROVE  UNCHANGED <<pending, rect_count, rect_area, unread, run>>
    BY <1>13 DEF StreamAnswers, StreamFails, StreamStops, Marked, outputs
  <1>14. Start \/ Dispatch \/ TimerStarts \/ TimerFires \/ StopBegins \/ StopSyncs \/ Completion
         \/ Done \/ UNCHANGED vars
         => UNCHANGED <<pending, rect_count, rect_area, unread, run>>
    BY DEF Start, StartStream, StartReturns, StartTimesOut, Dispatch, TimerStarts, TimerFires,
           StopBegins, StopSyncs, Completion, Done, vars, outputs
  <1> QED
    BY <1>1, <1>3, <1>4, <1>5, <1>6, <1>7, <1>9, <1>10, <1>11, <1>12, <1>13, <1>14
       DEF Next, Ingest, Stream, Worker, Frame, Stop

-----------------------------------------------------------------------------
(* Wake-ups.                                                               *)

\* Where in the queue a head's consume blocks are, and whose has begun.
Waiting == [h \in Heads |-> {i \in DOMAIN queue : queue[i] = Consume(h)}]
Begun == IF run.at = "take" THEN {run.head} ELSE {}

\* `scheduled` says of a head that one consume block is on its way, and the
\* block is in one place: about to be dispatched, queued, or begun.
WakeInv ==
  \A h \in Heads :
    /\ pending[h] => scheduled[h]
    /\ scheduled[h] <=> Waiting[h] # {} \/ dispatching = h \/ h \in Begun
    /\ \A i, j \in Waiting[h] : i = j
    /\ Waiting[h] # {} => dispatching # h /\ h \notin Begun
    /\ dispatching = h => h \notin Begun

LEMMA WakeKept ==
  ASSUME TypeOK, Placed, WakeInv, [Next]_vars
  PROVE  WakeInv'
  <1>1. queue \in Seq(Blocks) /\ Len(queue) \in Nat /\ Nobody \notin Heads /\ run \in RunType
    BY CaptureAssumption DEF TypeOK, RunType, Nobody, Heads
  \* What a step must leave alone.
  <1>2. ASSUME UNCHANGED <<scheduled, dispatching>>,
               \A h \in Heads : pending'[h] => pending[h],
               Waiting' = Waiting, Begun' = Begun
        PROVE  WakeInv'
    BY <1>2, Zenon DEF WakeInv
  <1>3. ASSUME UNCHANGED queue PROVE Waiting' = Waiting
    BY <1>3 DEF Waiting
  <1>4. ASSUME run' = run \/ (run.at # "take" /\ run'.at # "take")
        PROVE  Begun' = Begun
    BY <1>4 DEF Begun
  <1>5. ASSUME NEW block \in {Tick, Drain, FinalDrain}, queue' = Append(queue, block)
        PROVE  Waiting' = Waiting
    BY <1>1, <1>5, Appended, BlocksApart DEF Waiting
  <1>6. ASSUME NEW h \in Heads, Enqueue(h) PROVE WakeInv'
    <2>1. /\ dispatching = Nobody /\ dispatching' = IF scheduled[h] THEN Nobody ELSE h
          /\ scheduled' = [scheduled EXCEPT ![h] = TRUE]
          /\ pending' = [pending EXCEPT ![h] = TRUE]
          /\ UNCHANGED <<queue, run>>
      BY <1>6 DEF Enqueue
    <2>2. Waiting' = Waiting /\ Begun' = Begun
      BY <1>3, <1>4, <2>1
    <2>3. ASSUME NEW other \in Heads
          PROVE  /\ pending'[other] <=> other = h \/ pending[other]
                 /\ scheduled'[other] <=> other = h \/ scheduled[other]
                 /\ dispatching # other
                 /\ dispatching' = other <=> other = h /\ ~scheduled[h]
      BY <1>1, <2>1 DEF TypeOK
    <2> QED BY <2>2, <2>3, Zenon DEF WakeInv
  <1>7. CASE Dispatch
    <2>1. PICK h \in Heads : h = dispatching
      BY <1>7 DEF Dispatch, TypeOK
    <2>2. /\ queue' = Append(queue, Consume(h)) /\ dispatching' = Nobody
          /\ UNCHANGED <<scheduled, pending, run>>
      BY <1>7, <2>1 DEF Dispatch, outputs
    <2>3. /\ Waiting'[h] = Waiting[h] \cup {Len(queue) + 1}
          /\ \A other \in Heads \ {h} : Waiting'[other] = Waiting[other]
      BY <1>1, <2>2, Appended, BlocksApart DEF Waiting
    <2>4. Waiting[h] = {} /\ scheduled[h] /\ h \notin Begun
      BY <2>1 DEF WakeInv
    <2>5. Begun' = Begun /\ \A other \in Heads : dispatching' # other
      BY <1>1, <1>4, <2>2
    <2>6. Waiting'[h] = {Len(queue) + 1}
      BY <2>3, <2>4
    <2>7. \A other \in Heads \ {h} : dispatching # other
      BY <2>1
    <2>8. ASSUME NEW other \in Heads
          PROVE  /\ pending'[other] => scheduled'[other]
                 /\ scheduled'[other] <=>
                      Waiting'[other] # {} \/ dispatching' = other \/ other \in Begun'
                 /\ \A i, j \in Waiting'[other] : i = j
                 /\ Waiting'[other] # {} => dispatching' # other /\ other \notin Begun'
                 /\ dispatching' = other => other \notin Begun'
      <3>1. CASE other = h
        BY <2>2, <2>4, <2>5, <2>6, <3>1 DEF WakeInv
      <3>2. CASE other # h
        BY <2>2, <2>3, <2>5, <2>7, <3>2 DEF WakeInv
      <3> QED BY <3>1, <3>2
    <2> QED BY <2>8, Zenon DEF WakeInv
  <1>8. CASE Dequeue
    <2>1. /\ Head(queue) = queue[1] /\ 1 \in DOMAIN queue /\ Head(queue) \in Blocks
          /\ Len(queue) \in Nat \ {0} /\ DOMAIN queue = 1 .. Len(queue)
          /\ queue' = Tail(queue) /\ DOMAIN queue' = 1 .. Len(queue) - 1
          /\ \A i \in DOMAIN queue' : queue'[i] = queue[i + 1] /\ i + 1 \in DOMAIN queue
      BY <1>1, <1>8, Taken DEF Dequeue
    <2>2. run.at = "idle" /\ UNCHANGED <<scheduled, pending, dispatching>>
      BY <1>8 DEF Dequeue, outputs
    <2>3. ASSUME NEW h \in Heads
          PROVE  /\ Waiting'[h] = {i - 1 : i \in Waiting[h] \ {1}}
                 /\ 1 \in Waiting[h] <=> Head(queue) = Consume(h)
      BY <2>1, <2>3 DEF Waiting
    <2>4. \A h \in Heads : h \notin Begun /\ Waiting[h] \subseteq Nat
      BY <2>1, <2>2 DEF Begun, Waiting
    <2>5. ASSUME NEW h \in Heads, Head(queue) # Consume(h)
          PROVE  /\ Waiting'[h] = {} <=> Waiting[h] = {}
                 /\ (\A i, j \in Waiting[h] : i = j) => \A i, j \in Waiting'[h] : i = j
      BY <2>3, <2>4, <2>5
    <2>6. ASSUME NEW h \in Heads, Head(queue) = Consume(h)
          PROVE  Waiting[h] # {} /\ Waiting'[h] = {}
      BY <2>3, <2>6 DEF WakeInv
    <2>7. ASSUME NEW h \in Heads PROVE h \in Begun' <=> Head(queue) = Consume(h)
      <3>1. CASE Head(queue)[1] = "consume"
        <4>1. PICK first \in Heads : Head(queue) = Consume(first) /\ Head(queue)[2] = first
          BY <2>1, <3>1, ConsumeBlocks
        <4>2. run' = [Idle EXCEPT !.job = "consume", !.at = "take", !.head = first]
          BY <1>8, <3>1, <4>1, BlocksApart DEF Dequeue
        <4>3. run'.at = "take" /\ run'.head = first
          BY <4>2 DEF Idle
        <4> QED BY <4>1, <4>3, BlocksApart DEF Begun
      <3>2. CASE Head(queue)[1] # "consume"
        <4>1. Head(queue) # Consume(h)
          BY <3>2 DEF Consume
        <4>2. run'.at # "take"
          BY <1>8, <2>2, <3>2 DEF Dequeue, Idle
        <4> QED BY <4>1, <4>2 DEF Begun
      <3> QED BY <3>1, <3>2
    <2>8. ASSUME NEW h \in Heads
          PROVE  /\ pending'[h] => scheduled'[h]
                 /\ scheduled'[h] <=> Waiting'[h] # {} \/ dispatching' = h \/ h \in Begun'
                 /\ \A i, j \in Waiting'[h] : i = j
                 /\ Waiting'[h] # {} => dispatching' # h /\ h \notin Begun'
                 /\ dispatching' = h => h \notin Begun'
      BY <2>2, <2>4, <2>5, <2>6, <2>7 DEF WakeInv
    <2> QED BY <2>8, Zenon DEF WakeInv
  <1>9. CASE Take
    <2> DEFINE h == run.head
    <2>1. h \in Heads /\ h \in Begun
      BY <1>9 DEF Take, Placed, Begun
    <2>2. /\ pending' = [pending EXCEPT ![h] = FALSE]
          /\ scheduled' = [scheduled EXCEPT ![h] = FALSE]
          /\ UNCHANGED <<queue, dispatching>>
      BY <1>9 DEF Take, StillScheduled
    <2>3. run'.at # "take"
      <3>1. CASE run' = Idle
        BY <3>1 DEF Idle
      <3>2. CASE pending[h]
        BY <1>1, <1>9, <3>2 DEF Take, RunType
      <3> QED BY <1>9, <3>1, <3>2 DEF Take
    <2>4. Waiting[h] = {} /\ dispatching # h /\ \A other \in Heads \ {h} : other \notin Begun
      BY <2>1 DEF WakeInv, Begun
    <2>5. Waiting' = Waiting /\ Begun' = {}
      BY <1>3, <2>2, <2>3 DEF Begun
    <2>6. ASSUME NEW other \in Heads
          PROVE  /\ pending'[other] <=> other # h /\ pending[other]
                 /\ scheduled'[other] <=> other # h /\ scheduled[other]
      BY <2>2 DEF TypeOK
    <2> HIDE DEF h
    <2>7. ASSUME NEW other \in Heads
          PROVE  /\ pending'[other] => scheduled'[other]
                 /\ scheduled'[other] <=>
                      Waiting'[other] # {} \/ dispatching' = other \/ other \in Begun'
                 /\ \A i, j \in Waiting'[other] : i = j
                 /\ Waiting'[other] # {} => dispatching' # other /\ other \notin Begun'
                 /\ dispatching' = other => other \notin Begun'
      BY <2>1, <2>2, <2>4, <2>5, <2>6 DEF WakeInv
    <2> QED BY <2>7, Zenon DEF WakeInv
  <1>10. ASSUME NEW h \in Heads, Disabled(h)
         PROVE  scheduled' = scheduled /\ \A other \in Heads : pending'[other] => pending[other]
    BY <1>10 DEF Disabled, TypeOK
  <1>11. ASSUME NEW h \in Heads, StreamDisables(h) PROVE WakeInv'
    BY <1>2, <1>3, <1>4, <1>10, <1>11 DEF StreamDisables
  <1>12. CASE StopDisables
    BY <1>2, <1>3, <1>4, <1>10, <1>12 DEF StopDisables, Placed
  <1>13. AfterFail.at # "take" \/ run.head \notin Heads
    BY <1>1, AfterFailTypes
  <1>14. CASE WorkerDisables
    <2>1. run.head \in Heads /\ run.at # "take" /\ run'.at # "take" /\ UNCHANGED <<queue, dispatching>>
      BY <1>13, <1>14 DEF WorkerDisables, Placed
    <2> QED BY <1>2, <1>3, <1>4, <1>10, <1>14, <2>1 DEF WorkerDisables
  <1>15. CASE Check \/ PresentReturns \/ Keep \/ Clock \/ WorkerMarks
    <2>1. UNCHANGED <<queue, dispatching, scheduled, pending>> /\ run.at # "take"
      BY <1>15 DEF Check, PresentReturns, Keep, Clock, Guard, ServiceReturns, VisitHead,
                   VisitReturns, WorkerMarks, Marked, outputs
    <2>2. run'.at # "take"
      <3>1. CASE run' = AfterFail /\ run.at = "mark"
        BY <1>13, <3>1 DEF Placed
      <3>2. CASE run' = Visit(0) \/ (run.head \in Heads /\ run' = Visit(run.head + 1))
        <4>1. 0 \in Nat /\ (run.head \in Heads => run.head + 1 \in Nat)
          BY DEF Heads
        <4> QED BY <1>1, <3>2, <4>1, VisitTypes
      <3>3. CASE run' = Idle
        BY <3>3 DEF Idle
      <3>4. CASE Check \/ PresentReturns \/ Keep
        <4>1. CASE Check
          BY <1>1, <3>3, <4>1 DEF Check, RunType
        <4>2. CASE PresentReturns
          BY <1>1, <4>2 DEF PresentReturns, RunType
        <4> QED BY <3>3, <3>4, <4>1, <4>2 DEF Keep
      <3>5. CASE Clock
        <4>1. Guard => run' = Idle \/ run'.at = "service"
          BY <1>1 DEF Guard, RunType
        <4>2. ServiceReturns => run' = Visit(0) \/ run'.at = "mark"
          BY <1>1 DEF ServiceReturns, RunType
        <4>3. VisitHead \/ VisitReturns =>
                \/ run.head \in Heads /\ run' = Visit(run.head + 1)
                \/ run'.at \in {"repaint", "refresh", "mark"}
          BY <1>1 DEF VisitHead, VisitReturns, RunType, Placed
        <4> QED BY <3>2, <3>3, <3>5, <4>1, <4>2, <4>3 DEF Clock
      <3>6. CASE WorkerMarks
        <4>1. run.at = "mark" /\ (run' = AfterFail \/ run'.at = "disable")
          BY <1>1, <3>6 DEF WorkerMarks, RunType
        <4> QED BY <3>1, <4>1
      <3> QED BY <1>15, <3>4, <3>5, <3>6
    <2> QED BY <1>2, <1>3, <1>4, <2>1, <2>2
  <1>16. CASE TimerFires \/ StopSyncs \/ Completion
    <2>1. UNCHANGED <<dispatching, scheduled, pending, run>>
      BY <1>16 DEF TimerFires, StopSyncs, Completion, outputs
    <2>2. \E block \in {Tick, Drain, FinalDrain} : queue' = Append(queue, block)
      BY <1>16 DEF TimerFires, StopSyncs, AfterIngest, Completion
    <2> QED BY <1>2, <1>4, <1>5, <2>1, <2>2
  <1>17. CASE Destroy
    BY <1>2, <1>3, <1>4, <1>17 DEF Destroy
  <1>18. CASE UNCHANGED <<queue, dispatching, scheduled, pending, run>>
    BY <1>2, <1>3, <1>4, <1>18
  <1>19. ASSUME NEW h \in Heads, StreamAnswers(h) \/ StreamFails(h) \/ StreamStops(h)
         PROVE  UNCHANGED <<queue, dispatching, scheduled, pending, run>>
    BY <1>19 DEF StreamAnswers, StreamFails, StreamStops, Marked, outputs
  <1>20. Start \/ TimerStarts \/ StopBegins \/ Done \/ UNCHANGED vars
         => UNCHANGED <<queue, dispatching, scheduled, pending, run>>
    BY DEF Start, StartStream, StartReturns, StartTimesOut, TimerStarts, StopBegins, Done, vars, outputs
  <1> QED
    BY <1>6, <1>7, <1>8, <1>9, <1>11, <1>12, <1>14, <1>15, <1>16, <1>17, <1>18, <1>19, <1>20
       DEF Next, Ingest, Stream, Worker, Frame, Stop

-----------------------------------------------------------------------------
(* The theorems.                                                           *)

IInv == TypeOK /\ Placed /\ DisabledInv /\ DrainInv /\ CoverInv /\ WakeInv

LEMMA Invariance == Spec => []IInv
  <1>1. Init => IInv
    <2> SUFFICES ASSUME Init PROVE IInv
      OBVIOUS
    <2>1. DisabledInv /\ DrainInv
      BY DEF Init, DisabledInv, DrainInv
    <2>2. CoverInv
      BY DEF Init, CoverInv, RectsCoverChanges, Idle
    <2>3. WakeInv
      BY CaptureAssumption DEF Init, WakeInv, Waiting, Begun, Idle, Heads, Nobody
    <2> QED BY <2>1, <2>2, <2>3, InitTyped DEF IInv
  <1>2. IInv /\ [Next]_vars => IInv'
    BY TypesKept, DisabledKept, DrainKept, CoverKept, WakeKept DEF IInv
  <1> QED BY <1>1, <1>2, PTL DEF Spec

\* The state of the outputs and of the four threads keeps its types.
THEOREM TypeCorrect == Spec => []TypeOK
  BY Invariance, PTL DEF IInv

\* The driver is destroyed only after the last call into it, and an output only
\* when nothing refers to it, wherever the four threads were when stop began.
THEOREM NothingIsFreedInUse == Spec => []NothingFreedInUse
  <1>1. IInv => NothingFreedInUse
    <2> SUFFICES ASSUME IInv PROVE NothingFreedInUse
      OBVIOUS
    <2>1. main = "released" => run.at = "idle" /\ dispatching = Nobody
      BY DEF IInv, DrainInv
    <2>2. final = "destroyed" => main = "released" /\ queue = <<>>
      BY DEF IInv, DrainInv
    <2> QED BY <2>1, <2>2 DEF NothingFreedInUse, InDriver
  <1> QED BY <1>1, Invariance, PTL

\* However many frames replace one another before the worker takes one, the
\* rects it hands the ledger cover every change since the last one it took.
THEOREM ReplacedRectsSurvive == Spec => []RectsCoverChanges
  <1>1. IInv => RectsCoverChanges
    BY DEF IInv, CoverInv
  <1> QED BY <1>1, Invariance, PTL

\* No wake-up is lost or doubled: one consume block is on its way for a frame
\* that waits, and never two.
THEOREM FramesAreWoken == Spec => []OneConsumePerFrame
  <1>1. IInv => OneConsumePerFrame
    <2> SUFFICES ASSUME IInv, NEW h \in Heads
                 PROVE  /\ Coming(h) = IF scheduled[h] THEN 1 ELSE 0
                        /\ pending[h] => scheduled[h]
      BY DEF OneConsumePerFrame
    <2>1. Cardinality(Waiting[h]) = IF Waiting[h] = {} THEN 0 ELSE 1
      <3>1. CASE Waiting[h] = {}
        BY <3>1, FS_EmptySet
      <3>2. CASE Waiting[h] # {}
        <4>1. PICK i : Waiting[h] = {i}
          BY <3>2 DEF IInv, WakeInv
        <4> QED BY <4>1, FS_Singleton
      <3> QED BY <3>1, <3>2
    <2>2. Coming(h) = Cardinality(Waiting[h]) + (IF dispatching = h THEN 1 ELSE 0)
                        + (IF h \in Begun THEN 1 ELSE 0)
      BY DEF Coming, Waiting, Begun
    <2>3. /\ pending[h] => scheduled[h]
          /\ scheduled[h] <=> Waiting[h] # {} \/ dispatching = h \/ h \in Begun
          /\ Waiting[h] # {} => dispatching # h /\ h \notin Begun
          /\ dispatching = h => h \notin Begun
      BY DEF IInv, WakeInv
    <2> QED BY <2>1, <2>2, <2>3
  <1> QED BY <1>1, Invariance, PTL

-----------------------------------------------------------------------------
(* What the two liveness properties rest on.                               *)

\* The next head's turn is nearer to the end of the block than any step of this one's.
LEMMA NextVisitIsNearer ==
  ASSUME TypeOK, run.head \in Heads, Opening(run.at) = 0, run' = Visit(run.head + 1)
  PROVE  Nearer
  <1>1. run.head \in Nat
    BY DEF Heads
  <1>2. CASE run.head + 1 \in Heads
    <2>1. run'.at = "visit" /\ run'.head = run.head + 1
      BY <1>2 DEF Visit, TypeOK, Stages
    <2> QED BY <1>1, <2>1 DEF Nearer, Opening
  <1>3. CASE run.head + 1 \notin Heads
    BY <1>3 DEF Visit, Idle, Nearer
  <1> QED BY <1>2, <1>3

LEMMA AfterFailIsNearer ==
  ASSUME TypeOK, run.head \in Heads, run.at \in {"mark", "disable"}, run' = AfterFail
  PROVE  Nearer
  <1>1. run.head \in Nat /\ Opening(run.at) = 0 /\ StepsAt(run.at) > 0
    BY DEF Heads, Opening, StepsAt
  <1>2. CASE run.job = "consume"
    <2>1. run'.at = "keep" /\ run'.head = run.head
      BY <1>2 DEF AfterFail, TypeOK, Stages
    <2> QED BY <1>1, <2>1 DEF Nearer, Opening, StepsAt
  <1>3. CASE run.job = "tick"
    <2>1. run' = Visit(run.head + 1)
      BY <1>3 DEF AfterFail
    <2> QED BY <1>1, <2>1, NextVisitIsNearer
  <1>4. CASE run.job \notin {"consume", "tick"}
    <2>1. CASE run.head + 1 \in Heads
      <3>1. run'.at = "mark" /\ run'.head = run.head + 1
        BY <1>4, <2>1 DEF AfterFail, TypeOK, Stages
      <3> QED BY <1>1, <3>1 DEF Nearer, Opening
    <2>2. CASE run.head + 1 \notin Heads
      BY <1>4, <2>2 DEF AfterFail, Idle, Nearer
    <2> QED BY <2>1, <2>2
  <1> QED BY <1>2, <1>3, <1>4

\* Going on to another step at the same head.
LEMMA SameHeadIsNearer ==
  ASSUME run'.head = run.head, Opening(run'.at) = Opening(run.at), StepsAt(run'.at) < StepsAt(run.at)
  PROVE  Nearer
  BY DEF Nearer

LEMMA WorkerIsNearer ==
  ASSUME TypeOK, Placed, run.at # "idle", Worker
  PROVE  Nearer
  <1>0. run.at \in Stages /\ (run.at \notin {"guard", "service"} => run.head \in Heads)
    BY DEF TypeOK, Placed
  <1>1. CASE Take
    <2>1. run.at = "take" /\ (run'.at = "idle" \/ (run'.at = "check" /\ run'.head = run.head))
      BY <1>1 DEF Take, Idle, TypeOK, Stages
    <2> QED BY <2>1, SameHeadIsNearer DEF Nearer, Opening, StepsAt
  <1>2. CASE Check
    <2>1. run.at = "check" /\ (run'.at = "idle" \/ (run'.at = "present" /\ run'.head = run.head))
      BY <1>2 DEF Check, Idle, TypeOK, Stages
    <2> QED BY <2>1, SameHeadIsNearer DEF Nearer, Opening, StepsAt
  <1>3. CASE PresentReturns
    <2>1. run.at = "present" /\ run'.at \in {"keep", "mark"} /\ run'.head = run.head
      BY <1>3 DEF PresentReturns, TypeOK, Stages
    <2> QED BY <2>1, SameHeadIsNearer DEF Opening, StepsAt
  <1>4. CASE Keep
    BY <1>4 DEF Keep, Idle, Nearer
  <1>5. CASE Guard
    <2>1. run.at = "guard" /\ run'.at \in {"idle", "service"}
      BY <1>5 DEF Guard, Idle, TypeOK, Stages
    <2>2. Opening("guard") = 2 /\ Opening("service") = 1
      BY DEF Opening
    <2> QED BY <2>1, <2>2 DEF Nearer
  <1>6. CASE ServiceReturns
    <2>1. run.at = "service" /\ run'.at \in {"idle", "visit", "mark"}
      BY <1>6, VisitTypes DEF ServiceReturns, TypeOK, RunType, Stages
    <2>2. Opening("service") = 1 /\ Opening("visit") = 0 /\ Opening("mark") = 0
      BY DEF Opening
    <2> QED BY <2>1, <2>2 DEF Nearer
  <1>7. CASE VisitHead
    <2>1. run.at = "visit"
      BY <1>7 DEF VisitHead
    <2>2. CASE run' = Visit(run.head + 1)
      BY <1>0, <2>1, <2>2, NextVisitIsNearer DEF Opening
    <2>3. CASE run' # Visit(run.head + 1)
      <3>1. run'.at \in {"repaint", "refresh"} /\ run'.head = run.head
        BY <1>7, <2>3 DEF VisitHead, TypeOK, Stages
      <3> QED BY <2>1, <3>1, SameHeadIsNearer DEF Opening, StepsAt
    <2> QED BY <2>2, <2>3
  <1>8. CASE VisitReturns
    <2>1. run.at \in {"repaint", "refresh"}
      BY <1>8 DEF VisitReturns
    <2>2. CASE run' = Visit(run.head + 1)
      BY <1>0, <2>1, <2>2, NextVisitIsNearer DEF Opening
    <2>3. CASE run' # Visit(run.head + 1)
      <3>1. run'.at = "mark" /\ run'.head = run.head
        BY <1>8, <2>3 DEF VisitReturns, TypeOK, Stages
      <3> QED BY <2>1, <3>1, SameHeadIsNearer DEF Opening, StepsAt
    <2> QED BY <2>2, <2>3
  <1>9. CASE WorkerMarks
    <2>1. run.at = "mark"
      BY <1>9 DEF WorkerMarks
    <2>2. CASE failed[run.head]
      BY <1>0, <1>9, <2>1, <2>2, AfterFailIsNearer DEF WorkerMarks
    <2>3. CASE ~failed[run.head]
      <3>1. run'.at = "disable" /\ run'.head = run.head
        BY <1>9, <2>3 DEF WorkerMarks, TypeOK, Stages
      <3> QED BY <2>1, <3>1, SameHeadIsNearer DEF Opening, StepsAt
    <2> QED BY <2>2, <2>3
  <1>10. CASE WorkerDisables
    BY <1>0, <1>10, AfterFailIsNearer DEF WorkerDisables
  <1> QED
    BY <1>1, <1>2, <1>3, <1>4, <1>5, <1>6, <1>7, <1>8, <1>9, <1>10 DEF Worker, Dequeue, Frame, Clock

\* For any number of heads: whatever the worker runs, each step of it is one towards its end,
\* and nobody else's step is one of it.
THEOREM BlocksRunOut == Spec => BlocksEnd
  <1>1. ASSUME IInv, [Next]_vars, run.at # "idle" PROVE IF Worker THEN Nearer ELSE run' = run
    <2>1. CASE Worker
      BY <1>1, <2>1, WorkerIsNearer DEF IInv
    <2>2. CASE ~Worker
      BY <1>1, <2>2 DEF Next, Start, StartStream, StartReturns, StartTimesOut, Ingest, Enqueue,
        Dispatch, Stream, StreamAnswers, StreamFails, StreamDisables, StreamStops, TimerStarts,
        TimerFires, StopBegins, Stop, StopDisables, StopSyncs, Completion, Destroy, Done, vars
    <2> QED BY <2>1, <2>2
  <1> QED BY <1>1, Invariance, PTL DEF BlocksEnd, Spec

\* The block main waits for is there, and the last.
DueInv == main = "draining" => queue # <<>> /\ queue[Len(queue)] = Drain

LEMMA QueueWhileDraining ==
  ASSUME IInv, [Next]_vars, main = "draining"
  PROVE  /\ queue' = IF Dequeue THEN Tail(queue) ELSE queue
         /\ main' # main => main' = "released"
  <1>1. dispatching = Nobody /\ ~timer /\ final = "none" /\ \A h \in Heads : ~enabled[h]
    BY DEF IInv, DrainInv, DisabledInv
  <1>2. CASE Dequeue
    BY <1>2 DEF Dequeue
  <1>3. CASE ~Dequeue
    BY <1>1, <1>3 DEF Next, Start, StartStream, StartReturns, StartTimesOut, Ingest, Enqueue,
      Dispatch, Stream, StreamAnswers, StreamFails, StreamDisables, StreamStops, Worker, Frame, Take,
      Check, PresentReturns, Keep, Clock, Guard, ServiceReturns, VisitHead, VisitReturns,
      WorkerMarks, WorkerDisables, TimerStarts, TimerFires, StopBegins, Stop, StopDisables,
      StopSyncs, Completion, Destroy, Done, vars
  <1> QED BY <1>2, <1>3

LEMMA DueKept == IInv /\ DueInv /\ [Next]_vars => DueInv'
  <1> SUFFICES ASSUME IInv, DueInv, [Next]_vars, main' = "draining"
               PROVE  queue' # <<>> /\ queue'[Len(queue')] = Drain
    BY DEF DueInv
  <1>0. queue \in Seq(Blocks) /\ Len(queue) \in Nat
    BY DEF IInv, TypeOK
  <1>1. CASE main # "draining"
    <2>1. StopSyncs
      BY <1>1 DEF Next, Start, StartStream, StartReturns, StartTimesOut, StartFails, Ingest, Enqueue,
        Dispatch, Stream, StreamAnswers, StreamFails, StreamDisables, StreamStops, Worker, Dequeue,
        Frame, Take, Check, PresentReturns, Keep, Clock, Guard, ServiceReturns, VisitHead, VisitReturns,
        WorkerMarks, WorkerDisables, TimerStarts, TimerFires, StopBegins, Stop, StopDisables,
        Completion, Destroy, Done, vars
    <2>2. queue' = Append(queue, Drain)
      BY <2>1 DEF StopSyncs, AfterIngest
    <2> QED BY <1>0, <2>2, Appended, BlocksApart
  <1>2. CASE main = "draining" /\ Dequeue
    <2>1. queue # <<>> /\ queue[Len(queue)] = Drain /\ queue' = Tail(queue)
      BY <1>2 DEF DueInv, Dequeue
    <2>2. Head(queue) # Drain
      <3> SUFFICES ASSUME Head(queue) = Drain PROVE main' = "released"
        OBVIOUS
      <3> QED BY <1>2, BlocksApart DEF Dequeue, Drain, FinalDrain, Tick
    <2>3. Len(queue) > 1
      BY <1>0, <2>1, <2>2, Taken
    <2> QED BY <1>0, <2>1, <2>3, Taken
  <1>3. CASE main = "draining" /\ ~Dequeue
    BY <1>3, QueueWhileDraining DEF DueInv
  <1> QED BY <1>1, <1>2, <1>3

\* For any number of heads, blocks and frames under way: each step of a stop follows on the
\* one before, and what main waits for is on its way and not put off.
THEOREM StopsRunDown == Spec => StopRunsDown
  <1> DEFINE Down == Stopping(main) > 0 =>
        /\ Stopping(main') <= Stopping(main)
        /\ Stop => Stopping(main') < Stopping(main) \/ turn' > turn
        /\ main # "disabling" => dispatching' \in {dispatching, Nobody}
        /\ main = "draining" =>
            /\ queue # <<>> /\ queue[Len(queue)] = Drain
            /\ queue' = IF Dequeue THEN Tail(queue) ELSE queue
  <1>1. ASSUME IInv, DueInv, [Next]_vars PROVE Down
    <2> SUFFICES ASSUME Stopping(main) > 0
                 PROVE  /\ Stopping(main') <= Stopping(main)
                        /\ Stop => Stopping(main') < Stopping(main) \/ turn' > turn
                        /\ main # "disabling" => dispatching' \in {dispatching, Nobody}
                        /\ main = "draining" =>
                            /\ queue # <<>> /\ queue[Len(queue)] = Drain
                            /\ queue' = IF Dequeue THEN Tail(queue) ELSE queue
      OBVIOUS
    <2>1. main \in {"disabling", "ingestSync", "draining"} /\ final = "none"
      BY <1>1 DEF Stopping, IInv, DrainInv
    <2>2. /\ Stopping("disabling") = 3 /\ Stopping("ingestSync") = 2
          /\ Stopping("draining") = 1 /\ Stopping("released") = 0
      BY DEF Stopping
    <2>3. CASE StopDisables
      <3>1. main = "disabling" /\ main' \in {"disabling", "ingestSync"} /\ turn' = turn + 1
        BY <2>3 DEF StopDisables
      <3> QED BY <1>1, <2>2, <3>1 DEF IInv, TypeOK
    <2>4. CASE StopSyncs
      <3>1. main = "ingestSync" /\ main' = "draining" /\ dispatching' = dispatching
        BY <2>4 DEF StopSyncs, AfterIngest
      <3> QED BY <2>2, <3>1
    <2>5. CASE ~StopDisables /\ ~StopSyncs
      <3>1. ~Stop
        BY <2>1, <2>5 DEF Stop, Completion, Destroy
      <3>2. main' = main \/ (main = "draining" /\ main' = "released")
        <4>1. CASE Dequeue
          <5>1. main' = main \/ (main' = "released" /\ Head(queue) = Drain)
            BY <4>1 DEF Dequeue
          <5>2. Head(queue) = Drain => main = "draining"
            BY <1>1, <2>1, <4>1, Taken DEF Dequeue, IInv, TypeOK, DrainInv
          <5> QED BY <5>1, <5>2
        <4>2. CASE ~Dequeue
          BY <1>1, <2>1, <2>5, <3>1, <4>2 DEF Next, Start, StartStream, StartReturns, StartTimesOut,
            Ingest, Enqueue, Dispatch, Stream, StreamAnswers, StreamFails, StreamDisables, StreamStops,
            Worker, Frame, Take, Check, PresentReturns, Keep, Clock, Guard, ServiceReturns, VisitHead,
            VisitReturns, WorkerMarks, WorkerDisables, TimerStarts, TimerFires, StopBegins, Done, vars
        <4> QED BY <4>1, <4>2
      <3>3. main # "disabling" => dispatching' \in {dispatching, Nobody}
        <4>1. main # "disabling" => \A h \in Heads : ~enabled[h]
          BY <1>1, <2>1 DEF IInv, DisabledInv
        <4> QED
          BY <1>1, <2>1, <2>5, <3>1, <4>1 DEF Next, Start, StartStream, StartReturns, StartTimesOut,
            Ingest, Enqueue, Dispatch, Stream, StreamAnswers, StreamFails, StreamDisables, StreamStops,
            Worker, Dequeue, Frame, Take, Check, PresentReturns, Keep, Clock, Guard, ServiceReturns,
            VisitHead, VisitReturns, WorkerMarks, WorkerDisables, TimerStarts, TimerFires, StopBegins,
            Done, vars
      <3>4. main = "draining" => queue # <<>> /\ queue[Len(queue)] = Drain
                                 /\ queue' = IF Dequeue THEN Tail(queue) ELSE queue
        BY <1>1, QueueWhileDraining DEF DueInv
      <3> QED BY <2>1, <2>2, <3>1, <3>2, <3>3, <3>4
    <2> QED BY <2>3, <2>4, <2>5
  <1>2. Init => DueInv
    BY DEF Init, DueInv
  <1>3. Spec => []DueInv
    BY <1>2, Invariance, DueKept, PTL DEF Spec
  <1> QED BY <1>1, <1>3, Invariance, PTL DEF StopRunsDown, Spec
=============================================================================
