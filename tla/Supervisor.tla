------------------------------ MODULE Supervisor ------------------------------
(***************************************************************************)
(* The recovery supervisor (oizys/supervisor.c) and the workers it runs    *)
(* (cmd_run, its watchdog and run_shutdown in oizys/main.c).  The          *)
(* supervisor is a polling loop with deadlines, a worker is a process that *)
(* starts, serves, and may stop responding at any moment, and all they     *)
(* share is a pipe, the signals and the dock.  The supervisor itself can   *)
(* be killed and started again, which leaves its worker behind.            *)
(*                                                                         *)
(* Time is counted in seconds.  Tick is the passing of one, and waits for  *)
(* whatever the code does within a second: the supervisor polls ten times  *)
(* a second (at least once here) and a worker's watchdog fires once.       *)
(***************************************************************************)
EXTENDS Integers, FiniteSets

CONSTANTS
    StartupSeconds,     \* STARTUP_SECONDS
    HeartbeatSeconds,   \* HEARTBEAT_SECONDS
    StopSeconds,        \* STOP_SECONDS
    StallSeconds,       \* WORKER_STALL_MS
    StableSeconds,      \* the 30 s of service that clear the failures
    MaxBackoff,         \* the 8 s the retry delay is doubled up to
    MaxFailures,        \* the 3 failures after which DisplayLink gets the dock
    AllowDisplayLink,   \* OIZYS_ALLOW_DISPLAYLINK
    KillGrace,          \* the 12 s OizysLifecycle.stop waits before SIGKILL
    Slots,              \* bound: worker processes alive or unreaped at once
    MaxCrashes,         \* bound: times a supervisor is killed
    MaxAge              \* bound: seconds a worker's condition is counted for

ASSUME SupervisorAssumption ==
    /\ {StartupSeconds, HeartbeatSeconds, StopSeconds, StallSeconds, StableSeconds,
        MaxBackoff, MaxFailures, KillGrace, Slots, MaxAge} \subseteq Nat \ {0}
    /\ MaxCrashes \in Nat /\ Slots > MaxCrashes
    /\ AllowDisplayLink \in BOOLEAN

VARIABLES
    \* The supervisor process: its locals and where it is.
    pc,             \* "off" when no supervisor holds the lock
    stopping,       \* the flag SIGINT and SIGTERM set
    restore_vendor, claimed, backoff, failures,
    child,          \* the worker it started and has not reaped
    left,           \* seconds to the deadline it is waiting for
    ready,          \* seconds since the first heartbeat, Unheard before it
    polled,         \* it has polled in this second
    status,         \* the phase a reader of the status record finds
    \* The worker processes.
    stage, hang, age, term, due,
    heard,          \* a heartbeat is in the child's pipe, unread
    \* The world.
    dock, holder,   \* the dock is attached; the worker that holds it open
    vendor,         \* DisplayLink is running
    \* History.
    opened,         \* DisplayLink runs because somebody else opened it
    since,          \* seconds the child has been in its present condition
    stop_age,       \* seconds since the supervisor was told to stop
    crashes

loop == <<restore_vendor, claimed, backoff, failures, child, left, ready>>
super == <<pc, stopping, loop, polled, status>>
workers == <<stage, hang, age, term, due, heard, since>>
world == <<dock, holder, vendor>>
history == <<stop_age, crashes, opened>>
vars == <<super, workers, world, history>>

Workers == 1 .. Slots
Nobody == 0
Unheard == -1

Sleeping == {"waiting", "monitor", "stop_worker", "backoff"}
Places == Sleeping \cup {"off", "look", "spawn", "decide", "finish", "restore"}
Phases == {"none", "stale", "waiting", "starting", "forwarding", "recovering", "stopping"}

Capped(n, cap) == IF n < cap THEN n ELSE cap

TypeOK ==
    /\ pc \in Places /\ status \in Phases
    /\ {stopping, restore_vendor, claimed, polled, heard, dock, vendor, opened} \subseteq BOOLEAN
    /\ backoff \in 1 .. MaxBackoff /\ failures \in 0 .. MaxFailures
    /\ {child, holder} \subseteq {Nobody} \cup Workers
    /\ left \in 0 .. StartupSeconds + HeartbeatSeconds + StopSeconds + MaxBackoff
    /\ ready \in {Unheard} \cup 0 .. StableSeconds
    /\ stage \in [Workers -> {"none", "starting", "serving", "shutting", "zombie"}]
    /\ hang \in [Workers -> {"none", "queue", "main"}]
    /\ age \in [Workers -> 0 .. StallSeconds + 1] /\ since \in [Workers -> 0 .. MaxAge]
    /\ term \subseteq Workers /\ due \subseteq Workers
    /\ stop_age \in 0 .. KillGrace /\ crashes \in 0 .. MaxCrashes

Alive(w) == stage[w] \in {"starting", "serving", "shutting"}
Orphan(w) == Alive(w) /\ w # child

Init ==
    /\ pc = "off" /\ stopping = FALSE /\ restore_vendor = FALSE /\ claimed = FALSE
    /\ backoff = 1 /\ failures = 0 /\ child = Nobody /\ left = 0 /\ ready = Unheard
    /\ polled = FALSE /\ status = "none" /\ heard = FALSE
    /\ stage = [w \in Workers |-> "none"] /\ hang = [w \in Workers |-> "none"]
    /\ age = [w \in Workers |-> 0] /\ since = age
    /\ term = {} /\ due = {}
    /\ dock \in BOOLEAN /\ vendor \in BOOLEAN /\ holder = Nobody /\ opened = FALSE
    /\ stop_age = 0 /\ crashes = 0

-----------------------------------------------------------------------------
(* The supervisor.                                                         *)

\* A process gone: what it held is released, and what a parent has yet to
\* reap stays as a zombie.
Gone(w, remains) ==
    /\ stage' = [stage EXCEPT ![w] = remains]
    /\ hang' = [hang EXCEPT ![w] = "none"]
    /\ age' = [age EXCEPT ![w] = 0] /\ since' = [since EXCEPT ![w] = 0]
    /\ term' = term \ {w} /\ due' = due \ {w}
    /\ holder' = IF holder = w THEN Nobody ELSE holder

\* oizys_supervise up to its loop: the lock is free, so it is taken.
StartService ==
    /\ pc = "off"
    /\ pc' = "look" /\ stopping' = FALSE
    /\ restore_vendor' = (AllowDisplayLink /\ vendor)
    /\ backoff' = 1 /\ failures' = 0 /\ claimed' = FALSE
    /\ status' = "waiting"
    /\ UNCHANGED <<child, left, ready, polled, workers, world, history>>

\* The top of the loop.  Without one supported dock, sleep a second.
Look ==
    /\ pc = "look"
    /\ pc' = IF stopping THEN "finish" ELSE IF dock THEN "spawn" ELSE "waiting"
    /\ IF pc' = "waiting"
       THEN left' = 1 /\ polled' = FALSE /\ status' = "waiting"
       ELSE UNCHANGED <<left, polled, status>>
    \* The first claim of the dock, and no later one, stops DisplayLink.
    /\ IF pc' = "spawn" /\ ~claimed
       THEN vendor' = FALSE /\ opened' = FALSE /\ claimed' = TRUE
       ELSE UNCHANGED <<vendor, opened, claimed>>
    /\ UNCHANGED <<stopping, restore_vendor, backoff, failures, child, ready,
                   workers, dock, holder, stop_age, crashes>>

Wait ==
    /\ pc = "waiting" /\ (stopping \/ left = 0 \/ ~polled)
    /\ pc' = IF stopping \/ left = 0 THEN "look" ELSE pc
    /\ polled' = TRUE
    /\ UNCHANGED <<stopping, loop, status, workers, world, history>>

FreeSlots == {w \in Workers : stage[w] = "none"}

Spawn ==
    /\ pc = "spawn"
    /\ \E w \in FreeSlots :
        /\ \A other \in FreeSlots : w <= other
        /\ child' = w
        /\ stage' = [stage EXCEPT ![w] = "starting"]
        /\ since' = [since EXCEPT ![w] = 0]
    /\ pc' = "monitor" /\ status' = "starting" /\ heard' = FALSE
    /\ left' = StartupSeconds /\ ready' = Unheard /\ polled' = FALSE
    /\ UNCHANGED <<stopping, restore_vendor, claimed, backoff, failures,
                   hang, age, term, due, world, history>>

\* pipe or posix_spawn failed.
SpawnFails ==
    /\ pc = "spawn"
    /\ pc' = "finish"
    /\ UNCHANGED <<stopping, loop, polled, status, workers, world, history>>

\* Mutant: only the first heartbeat moves the deadline.
HeedOnce ==
    /\ heard' = FALSE
    /\ IF heard /\ ready = Unheard
       THEN left' = HeartbeatSeconds /\ ready' = 0 /\ status' = "forwarding"
       ELSE UNCHANGED <<left, ready, status>>

\* read(status_fd) at the head of an iteration of the monitor loop.
Heed ==
    /\ heard' = FALSE
    /\ IF heard
       THEN /\ left' = HeartbeatSeconds
            /\ IF ready = Unheard
               THEN ready' = 0 /\ status' = "forwarding"
               ELSE UNCHANGED <<ready, status>>
       ELSE UNCHANGED <<left, ready, status>>

Reap(w) == Gone(w, "none") /\ child' = Nobody

\* The iteration that reaps the child.
MonitorReaps ==
    /\ pc = "monitor" /\ ~stopping /\ stage[child] = "zombie"
    /\ ready' = IF heard /\ ready = Unheard THEN 0 ELSE ready
    /\ heard' = FALSE
    /\ status' = "recovering" /\ pc' = "decide"
    /\ Reap(child)
    /\ UNCHANGED <<stopping, restore_vendor, claimed, backoff, failures, left, polled,
                   dock, vendor, history>>

\* SIGTERM.  A worker that has not installed its handler yet dies of it.
Terminate(w) ==
    IF stage[w] = "starting"
    THEN Gone(w, "zombie")
    ELSE /\ term' = IF stage[w] = "serving" THEN term \cup {w} ELSE term
         /\ UNCHANGED <<stage, hang, age, since, due, holder>>

\* Mutant: told to stop, the loop does not wait for the worker.
MonitorGivesUpHastily ==
    /\ pc = "monitor"
    /\ \/ stopping
       \/ /\ stage[child] # "zombie"
          /\ (left = 0 /\ ~heard) \/ ~dock
    /\ pc' = (IF stopping THEN "finish" ELSE "stop_worker") /\ left' = StopSeconds /\ polled' = TRUE
    /\ status' = IF stopping THEN status ELSE "recovering"
    /\ ready' = IF heard /\ ~stopping /\ ready = Unheard THEN 0 ELSE ready
    /\ heard' = FALSE
    /\ Terminate(child)
    /\ UNCHANGED <<stopping, restore_vendor, claimed, backoff, failures, child,
                   dock, vendor, history>>

\* The three ways out of an iteration that end in stop_worker: told to stop,
\* the deadline reached with nothing heard, or the dock gone.
MonitorGivesUp ==
    /\ pc = "monitor"
    /\ \/ stopping
       \/ /\ stage[child] # "zombie"
          /\ (left = 0 /\ ~heard) \/ ~dock
    /\ pc' = "stop_worker" /\ left' = StopSeconds /\ polled' = TRUE
    /\ status' = IF stopping THEN status ELSE "recovering"
    /\ ready' = IF heard /\ ~stopping /\ ready = Unheard THEN 0 ELSE ready
    /\ heard' = FALSE
    /\ Terminate(child)
    /\ UNCHANGED <<stopping, restore_vendor, claimed, backoff, failures, child,
                   dock, vendor, history>>

MonitorGoesOn ==
    /\ pc = "monitor" /\ ~stopping /\ (heard \/ ~polled)
    /\ stage[child] # "zombie" /\ (left > 0 \/ heard) /\ dock
    /\ Heed
    /\ polled' = TRUE
    /\ UNCHANGED <<pc, stopping, restore_vendor, claimed, backoff, failures, child,
                   stage, hang, age, term, due, since, world, history>>

\* Mutant: no SIGKILL at the deadline.
StopWorkerPatient ==
    /\ pc = "stop_worker"
    /\ \/ /\ stage[child] = "zombie"
          /\ pc' = "decide" /\ heard' = FALSE
          /\ Reap(child)
       \/ /\ stage[child] # "zombie" /\ ~polled
          /\ UNCHANGED <<pc, child, stage, hang, age, since, term, due, holder, heard>>
    /\ polled' = TRUE
    /\ UNCHANGED <<stopping, restore_vendor, claimed, backoff, failures, left, ready,
                   status, dock, vendor, history>>

\* stop_worker: poll for the exit, and at the deadline SIGKILL and wait.
StopWorker ==
    /\ pc = "stop_worker"
    /\ \/ /\ stage[child] = "zombie" \/ left = 0
          /\ pc' = "decide" /\ heard' = FALSE
          /\ Reap(child)
       \/ /\ stage[child] # "zombie" /\ left > 0 /\ ~polled
          /\ UNCHANGED <<pc, child, stage, hang, age, since, term, due, holder, heard>>
    /\ polled' = TRUE
    /\ UNCHANGED <<stopping, restore_vendor, claimed, backoff, failures, left, ready,
                   status, dock, vendor, history>>

\* Mutant: any service, however short, clears the failures.
FailedUnlessHeard == 1 + (IF ready # Unheard THEN 0 ELSE failures)

\* What is remembered of a run that ended.
Failed == 1 + (IF ready = StableSeconds THEN 0 ELSE failures)

HandsBack == AllowDisplayLink /\ restore_vendor /\ Failed >= MaxFailures

Decide ==
    /\ pc = "decide"
    /\ IF stopping
       THEN pc' = "finish" /\ UNCHANGED <<backoff, failures, left, polled>>
       ELSE LET delay == IF ready = StableSeconds THEN 1 ELSE backoff IN
            /\ pc' = IF HandsBack THEN "finish" ELSE "backoff"
            /\ failures' = Capped(Failed, MaxFailures)
            /\ backoff' = delay /\ left' = delay /\ polled' = FALSE
    /\ ready' = Unheard
    /\ UNCHANGED <<stopping, restore_vendor, claimed, child, status,
                   workers, world, history>>

\* Mutant: every poll counts the delay anew.
BackOffRestarts ==
    /\ pc = "backoff" /\ (stopping \/ left = 0 \/ ~polled)
    /\ polled' = TRUE
    /\ IF stopping \/ left = 0
       THEN pc' = "look" /\ backoff' = Capped(2 * backoff, MaxBackoff)
       ELSE UNCHANGED <<pc, backoff>>
    /\ left' = backoff
    /\ UNCHANGED <<stopping, restore_vendor, claimed, failures, child, ready,
                   status, workers, world, history>>

BackOff ==
    /\ pc = "backoff" /\ (stopping \/ left = 0 \/ ~polled)
    /\ polled' = TRUE
    /\ IF stopping \/ left = 0
       THEN pc' = "look" /\ backoff' = Capped(2 * backoff, MaxBackoff)
       ELSE UNCHANGED <<pc, backoff>>
    /\ UNCHANGED <<stopping, restore_vendor, claimed, failures, child, left, ready,
                   status, workers, world, history>>

Finish ==
    /\ pc = "finish"
    /\ pc' = "restore" /\ status' = "stopping"
    /\ UNCHANGED <<stopping, loop, polled, workers, world, history>>

\* DisplayLink is started again, the record removed and the lock closed.
Restore ==
    /\ pc = "restore"
    /\ pc' = "off" /\ status' = "none" /\ stopping' = FALSE /\ stop_age' = 0
    /\ vendor' = (vendor \/ (restore_vendor /\ claimed))
    /\ UNCHANGED <<loop, polled, workers, dock, holder, crashes, opened>>

\* SIGINT or SIGTERM reaches the supervisor.
RequestStop ==
    /\ pc # "off" /\ ~stopping
    /\ stopping' = TRUE
    /\ UNCHANGED <<pc, loop, polled, status, workers, world, history>>

\* The supervisor is killed: the kernel closes the lock and the pipe, the
\* record stays behind under a dead pid, and nobody reaps for it.
SupervisorDies ==
    /\ pc # "off" /\ crashes < MaxCrashes
    /\ crashes' = crashes + 1
    /\ pc' = "off" /\ stopping' = FALSE /\ stop_age' = 0
    /\ status' = "stale" /\ heard' = FALSE
    /\ child' = Nobody /\ ready' = Unheard /\ left' = 0
    /\ stage' = [w \in Workers |-> IF stage[w] = "zombie" THEN "none" ELSE stage[w]]
    /\ since' = [w \in Workers |-> 0]
    /\ UNCHANGED <<restore_vendor, claimed, backoff, failures, polled,
                   hang, age, term, due, world, opened>>

SupervisorStep ==
    \/ Look \/ Wait \/ Spawn \/ SpawnFails \/ MonitorReaps \/ MonitorGivesUp
    \/ MonitorGoesOn \/ StopWorker \/ Decide \/ BackOff \/ Finish \/ Restore

-----------------------------------------------------------------------------
(* A worker.                                                               *)

Exits(w) == Gone(w, IF w = child THEN "zombie" ELSE "none")

\* oizys_session_open: the dock opens for one process at a time.
Claim(w) ==
    /\ stage[w] = "starting" /\ hang[w] = "none" /\ dock /\ holder = Nobody
    /\ holder' = w
    /\ UNCHANGED <<super, workers, dock, vendor, history>>

\* Engaged, trained, captured: from here SIGTERM is handled on the main queue.
Serve(w) ==
    /\ stage[w] = "starting" /\ hang[w] = "none" /\ holder = w
    /\ stage' = [stage EXCEPT ![w] = "serving"]
    /\ since' = [since EXCEPT ![w] = 0]
    /\ UNCHANGED <<super, hang, age, term, due, heard, world, history>>

\* Some step of starting failed; whatever was opened is closed again.
StartFails(w) ==
    /\ stage[w] = "starting" /\ hang[w] = "none"
    /\ Exits(w)
    /\ UNCHANGED <<super, heard, dock, vendor, history>>

\* run_shutdown begins: SIGTERM, or the watchdog on a failed head.
BeginShutdown(w) ==
    /\ stage' = [stage EXCEPT ![w] = "shutting"]
    /\ term' = term \ {w} /\ due' = due \ {w}
    /\ UNCHANGED <<hang, age, since, heard>>

MainQueueRuns(w) == stage[w] = "serving" /\ hang[w] # "main"

HandleTerm(w) ==
    /\ MainQueueRuns(w) /\ w \in term
    /\ BeginShutdown(w)
    /\ UNCHANGED <<super, world, history>>

\* Mutant: the heartbeat vouches for the main queue only.
StalledNever(w) == age[w] > StallSeconds + 1

Stalled(w) == age[w] > StallSeconds

\* The watchdog.  A worker queue that still runs without the dock fails a head
\* with its next write, and until then is vouched for; one that has been silent
\* for too long is not, and then nothing is written, to a supervisor or to a
\* pipe nobody reads any more.
WatchdogFails(w) ==
    /\ MainQueueRuns(w) /\ w \in due
    /\ hang[w] = "none"
    /\ BeginShutdown(w)
    /\ UNCHANGED <<super, world, history>>

\* Mutant: a failed write to the pipe is ignored.
WatchdogBeatsOn(w) ==
    /\ MainQueueRuns(w) /\ w \in due
    /\ IF Stalled(w)
       THEN due' = due \ {w} /\ UNCHANGED <<stage, hang, age, term, heard, since>>
       ELSE /\ heard' = (heard \/ w = child) /\ due' = due \ {w}
            /\ UNCHANGED <<stage, hang, age, term, since>>
    /\ UNCHANGED <<super, world, history>>

WatchdogBeats(w) ==
    /\ MainQueueRuns(w) /\ w \in due
    /\ IF Stalled(w)
       THEN due' = due \ {w} /\ UNCHANGED <<stage, hang, age, term, heard, since>>
       ELSE IF w = child
       THEN heard' = TRUE /\ due' = due \ {w} /\ UNCHANGED <<stage, hang, age, term, since>>
       ELSE BeginShutdown(w)                            \* EPIPE
    /\ UNCHANGED <<super, world, history>>

\* run_shutdown returns from its last call and exits.
ShutdownEnds(w) ==
    /\ stage[w] = "shutting" /\ hang[w] = "none"
    /\ Exits(w)
    /\ UNCHANGED <<super, heard, dock, vendor, history>>

\* A framework or USB call does not return, on the worker queue or on main...
Hang(w) ==
    /\ Alive(w) /\ hang[w] = "none"
    /\ \E thread \in IF stage[w] = "starting" THEN {"main"} ELSE {"main", "queue"} :
          hang' = [hang EXCEPT ![w] = thread]
    /\ since' = [since EXCEPT ![w] = 0]
    /\ UNCHANGED <<super, stage, age, term, due, heard, world, history>>

\* ... or returns after all.
Resume(w) ==
    /\ Alive(w) /\ hang[w] # "none"
    /\ hang' = [hang EXCEPT ![w] = "none"]
    /\ age' = [age EXCEPT ![w] = 0] /\ since' = [since EXCEPT ![w] = 0]
    /\ UNCHANGED <<super, stage, term, due, heard, world, history>>

WorkerStep(w) ==
    \/ Serve(w) \/ StartFails(w) \/ HandleTerm(w)
    \/ WatchdogFails(w) \/ WatchdogBeats(w) \/ ShutdownEnds(w)

-----------------------------------------------------------------------------
(* The world.                                                              *)

\* The cable.  A device that leaves takes its open session with it.
Replug ==
    /\ dock' = ~dock /\ holder' = Nobody
    /\ UNCHANGED <<super, workers, vendor, history>>

\* DisplayLink is opened or quits, whatever the service does.  A worker has the dock for itself
\* as long as it holds it; one that finds it taken by DisplayLink fails to start.
UserTogglesVendor ==
    /\ vendor' = ~vendor /\ opened' = vendor'
    /\ UNCHANGED <<super, workers, dock, holder, stop_age, crashes>>

\* Everything the code does within the second has been done.
Settled ==
    /\ pc = "off" \/ (pc \in Sleeping /\ polled)
    /\ \A w \in Workers : MainQueueRuns(w) => w \notin due \cup term

Tick ==
    /\ Settled
    /\ polled' = FALSE
    /\ left' = IF left > 0 THEN left - 1 ELSE 0
    /\ ready' = IF ready = Unheard THEN ready ELSE Capped(ready + 1, StableSeconds)
    /\ due' = due \cup {w \in Workers : stage[w] = "serving"}
    /\ age' = [w \in Workers |-> IF stage[w] = "serving" /\ hang[w] = "queue"
                                 THEN Capped(age[w] + 1, StallSeconds + 1) ELSE 0]
    /\ since' = [w \in Workers |-> IF w = child THEN Capped(since[w] + 1, MaxAge) ELSE 0]
    /\ stop_age' = IF stopping THEN Capped(stop_age + 1, KillGrace) ELSE 0
    /\ UNCHANGED <<pc, stopping, restore_vendor, claimed, backoff, failures, child, status,
                   stage, hang, term, heard, world, crashes, opened>>

Next ==
    \/ StartService \/ SupervisorStep \/ RequestStop \/ SupervisorDies
    \/ \E w \in Workers : Claim(w) \/ WorkerStep(w) \/ Hang(w) \/ Resume(w)
    \/ Replug \/ UserTogglesVendor \/ Tick

Spec == Init /\ [][Next]_vars

\* What the code runs by itself: the supervisor's loop and a worker whose calls
\* return.  Nothing is assumed of the calls that hang, of the dock or of
\* whoever starts and stops the service, but that only so much of it fits in a
\* second: whenever time can pass again and again, it passes.
FairSpec ==
    /\ Spec
    /\ WF_vars(SupervisorStep) /\ SF_vars(Tick)
    /\ \A w \in Workers : WF_vars(WorkerStep(w))

-----------------------------------------------------------------------------
(* Properties.                                                             *)

\* A worker that was heard and then hangs, or hangs before it is heard, is
\* gone within the deadlines that apply to it: the watchdog stops vouching
\* after StallSeconds, the monitor loop waits HeartbeatSeconds (or what is
\* left of StartupSeconds), and stop_worker another StopSeconds.  main.c says
\* that "a hang is restarted within about that timeout".
HangsAreBounded ==
    child # Nobody /\ hang[child] # "none" =>
        since[child] <= StopSeconds + IF ready = Unheard THEN StartupSeconds
                                      ELSE StallSeconds + 1 + HeartbeatSeconds

\* The lifecycle command sends SIGTERM and then, after KillGrace, SIGKILL,
\* which would orphan the worker and lose the restoration of DisplayLink.  A
\* supervisor that was told to stop is gone before that, whatever its worker
\* does.
StopBeatsTheKill == pc # "off" => stop_age < KillGrace

\* The record says "forwarding" only of a worker that has been heard, and a
\* second after that worker has died it no longer does.  Not while stopping:
\* "stopping" is published only once the worker is gone, so the record keeps
\* saying "forwarding" for as long as its shutdown takes.
ForwardingIsVouchedFor ==
    status = "forwarding" /\ ~stopping =>
        /\ child # Nobody /\ ready # Unheard
        /\ stage[child] # "starting"
        /\ stage[child] = "zombie" => since[child] <= 1

\* Oizys does not put DisplayLink beside a worker of its own: it is stopped before the first
\* worker of a service is started, and not restored before the last one has been reaped.
\* One that runs beside a worker was opened by somebody else since (nothing stops it then: the
\* dock is the worker's because it is opened exclusively).
NeverBoth == vendor /\ child # Nobody => opened

\* The monitor loop's deadline never falls on a worker that was heard, whose
\* calls return and which serves for two seconds, however its heartbeats and
\* the supervisor's polls interleave.
OnlySilenceTimesOut ==
    [][pc = "monitor" /\ pc' = "stop_worker" /\ ~stopping /\ dock =>
         ~(/\ ready # Unheard /\ stage[child] = "serving"
           /\ hang[child] = "none" /\ since[child] >= 2)]_vars

\* Where DisplayLink drove the dock before the service, a dock that Oizys cannot serve is not
\* left dark: as long as it stays attached, and whatever its workers do, either one of them
\* comes to serve it for StableSeconds or DisplayLink runs again.
DarkDocksAreHandedBack ==
    (pc # "off" /\ claimed /\ restore_vendor) ~> (vendor \/ ready = StableSeconds \/ ~dock)

\* What it rests on: losses add up, of a service that is to hand back, until they are enough
\* for it; nothing but StableSeconds of service clears them, and a service that has had enough
\* starts no other worker.
LossesAddUp ==
    [][pc # "off" /\ restore_vendor =>
        /\ failures' < failures => pc = "decide" /\ ready = StableSeconds
        /\ pc = "decide" /\ pc' # pc /\ ready # StableSeconds =>
               failures' > failures \/ pc' \in {"finish", "off"}
        /\ child' \notin {child, Nobody} => failures < MaxFailures]_vars

\* "Oizys stopped; DisplayLink was not running and was not launched" is what a service says in
\* the end that does not restore it.  So it never stops one that it will not restore.
StoppedIsRestored ==
    [][pc = "look" /\ vendor /\ ~vendor' /\ AllowDisplayLink => restore_vendor]_vars

\* A service that has lost its worker starts another while the dock stays,
\* unless it is stopped or hands back.
LostWorkerIsReplaced ==
    pc = "decide" ~> (child # Nobody \/ ~dock \/ pc = "off")

\* Where the loop is between two workers, and how far from the next.
Between(place) == CASE place = "decide" -> 4 [] place = "backoff" -> 3 [] place = "waiting" -> 2
                    [] place = "look" -> 1 [] OTHER -> 0
Closer ==
    \/ Between(pc') < Between(pc)
    \/ pc' = pc /\ left' < left
    \/ pc' = pc /\ left' = left /\ ~polled /\ polled'

\* What LostWorkerIsReplaced rests on: between two workers, with the dock there, each step of
\* the loop and each second brings the next one closer, or the loop to its end, and nothing
\* else that happens sets it back.
NextWorkerComesCloser ==
    [][dock /\ pc \in {"decide", "backoff", "waiting", "look", "spawn"} =>
         \/ child' # Nobody \/ pc' \in {"finish", "off"}
         \/ Closer
         \/ UNCHANGED <<pc, left, polled>> /\ ~(SupervisorStep \/ Tick)]_vars

\* How much of its life a worker has before it.
Ahead(condition) == CASE condition = "starting" -> 3 [] condition = "serving" -> 2
                      [] condition = "shutting" -> 1 [] OTHER -> 0

\* What OrphansLeave rests on: a worker without its supervisor is never taken for the child of
\* the next, goes one way only, and every step of it is one towards its end, unless a call of
\* its does not return (the watchdog's write finds no reader).
OrphansOnlyLeave ==
    [][\A w \in Workers : Orphan(w) =>
         /\ child' # w /\ Ahead(stage'[w]) <= Ahead(stage[w])
         /\ WorkerStep(w) /\ hang[w] = "none" => Ahead(stage'[w]) < Ahead(stage[w])]_vars

\* A worker whose supervisor was killed leaves the dock by itself, provided
\* its calls return: the first heartbeat it writes finds nobody.
OrphansLeave ==
    \A w \in Workers : Orphan(w) ~> (~Orphan(w) \/ hang[w] # "none")
===============================================================================
