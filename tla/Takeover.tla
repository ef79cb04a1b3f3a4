------------------------------ MODULE Takeover ------------------------------
(***************************************************************************)
(* Who drives the dock: the production app (Production.swift), kept alive  *)
(* by launchd, the debug apps (Main.swift) that take the dock over for a   *)
(* session and give it back, and the lifecycle commands                    *)
(* (OizysLifecycle.swift).  They share four things: the login job, the     *)
(* lease file that names the session and says whether production is owed,  *)
(* the lock that goes with it, and the driver lock, held by whichever      *)
(* `oizys serve` runs.                                                     *)
(*                                                                         *)
(* Any of these processes may die at any step.  Time is abstracted:        *)
(* timers fire when they may.  A process id is a process: ids are not      *)
(* reused.  Each debug app is opened and each command given once.          *)
(***************************************************************************)
EXTENDS Naturals

CONSTANTS
  Debuggers,     \* debug apps
  Commands,      \* lifecycle commands given, among "start", "stop", "restart" and "recover"
  Production,    \* the production app
  Orphan,        \* stands for the dead app that started a driver which still runs
  None,
  Alone,         \* commands run one at a time; a session is not started while one runs, nor
                 \* a command while a session is about to write its lease; recover-debug is
                 \* for a lease that owes production, or for production that is not loaded
  MaxEnds        \* bound: apps that the user quits or that die by themselves

ASSUME TakeoverAssumption ==
  /\ Commands \subseteq {"start", "stop", "restart", "recover"}
  /\ Production \notin Debuggers /\ Orphan \notin Debuggers \cup {Production}
  /\ None \notin Debuggers \cup {Production, Orphan}
  /\ (Debuggers \cup {Production}) \cap {"start", "stop", "restart", "recover"} = {}
  /\ None \notin [pid : Debuggers, resume : BOOLEAN]
  /\ None \notin [by : Debuggers \cup {Production, Orphan}, stopping : BOOLEAN]
  /\ Alone \in BOOLEAN /\ MaxEnds \in Nat

Apps    == Debuggers \cup {Production}
Callers == Debuggers \cup Commands

VARIABLES
  loaded,    \* launchd has the login job
  lease,     \* development-session.json: [pid, resume], or None
  lock,      \* who holds development-session.json.lock
  driver,    \* the supervisor that holds oizys-driver.lock: [by, stopping], or None
  app,       \* per app: "off", "up", or "gone" (a debug app that ended)
  asked,     \* per app: a termination request is waiting on its main queue
  closing,   \* per app: quitting, the reply is put off until the driver has stopped
  worker,    \* per app: its Process: "none", "live", or "ended" (the handler is queued)
  stopping,  \* per app: its own stop is under way
  retry,     \* production's retry timer is set
  heldOff,   \* production last looked while a session had the dock or login was not done
  usable,    \* one dock, awake, on the console: what production is told of by events
  loggedIn,  \* kCGSessionLoginDoneKey, of which nothing tells
  granted,   \* the Screen Recording permission, of which nothing tells
  stage,     \* per caller: where it is in the lifecycle code
  others,    \* per caller: the apps its stop waits for
  signalled, \* per caller: the supervisor it signalled still runs
  duty,      \* per caller: it has production to resume
  wanted,    \* history: the user has the login service on, as far as commands that succeeded go
  dropped,   \* history: an app died between giving up its lease and resuming
  ends

shared == <<loaded, lease, lock, driver>>
apps   == <<app, asked, closing, worker, stopping>>
prod   == <<retry, heldOff>>
env    == <<usable, loggedIn, granted>>
calls  == <<stage, others, signalled, duty>>
hist   == <<wanted, dropped, ends>>
vars   == <<shared, apps, prod, env, calls, hist>>

Stopping   == {"bootout", "ask", "wait", "driver", "end"}
Resuming   == {"resume", "bootstrap"}
Acquiring  == {"leasing"} \cup Stopping
HandBack   == {"handback"} \cup Resuming
Stages     == {"idle", "holding", "last", "lastboot", "remove", "done", "failed"}
                \cup Acquiring \cup HandBack

TypeOK ==
  /\ {loaded, usable, loggedIn, granted} \subseteq BOOLEAN
  /\ lease \in {None} \cup [pid : Debuggers, resume : BOOLEAN]
  /\ lock \in Debuggers \cup {None}
  /\ driver \in {None} \cup [by : Apps \cup {Orphan}, stopping : BOOLEAN]
  /\ app \in [Apps -> {"off", "up", "gone"}] /\ worker \in [Apps -> {"none", "live", "ended"}]
  /\ asked \in [Apps -> BOOLEAN] /\ closing \in [Apps -> BOOLEAN] /\ stopping \in [Apps -> BOOLEAN]
  /\ retry \in BOOLEAN /\ heldOff \in BOOLEAN
  /\ stage \in [Callers -> Stages] /\ others \in [Callers -> SUBSET Apps]
  /\ signalled \in [Callers -> BOOLEAN] /\ duty \in [Callers -> BOOLEAN]
  /\ wanted \in BOOLEAN /\ dropped \in BOOLEAN /\ ends \in 0..MaxEnds
  /\ \A a \in Apps : worker[a] = "live" <=> driver # None /\ driver.by = a

Init ==
  /\ loaded \in BOOLEAN /\ wanted = loaded
  /\ lease = None /\ lock = None /\ driver = None
  /\ app = [a \in Apps |-> "off"] /\ worker = [a \in Apps |-> "none"]
  /\ asked = [a \in Apps |-> FALSE] /\ closing = asked /\ stopping = asked
  /\ retry = FALSE /\ heldOff = FALSE /\ usable \in BOOLEAN
  /\ loggedIn \in BOOLEAN /\ granted \in BOOLEAN
  /\ stage = [c \in Callers |-> "idle"] /\ others = [c \in Callers |-> {}]
  /\ signalled = [c \in Callers |-> FALSE] /\ duty = signalled
  /\ dropped = FALSE /\ ends = 0

\* developmentActive: the lease names a live process.
DevelopmentActive == lease # None /\ app[lease.pid] = "up"

-----------------------------------------------------------------------------
(* Drivers: `oizys serve`, as far as its lock shows. *)

\* Process.run: the new supervisor holds the driver lock, or exits because somebody else
\* does -- the owner, or for an instant a reader of the lock file.
Spawn(a) ==
  \/ /\ driver = None
     /\ driver' = [by |-> a, stopping |-> FALSE]
     /\ worker' = [worker EXCEPT ![a] = "live"]
  \/ worker' = [worker EXCEPT ![a] = "ended"] /\ UNCHANGED driver

Terminated(a) == driver' = IF worker[a] = "live" THEN [driver EXCEPT !.stopping = TRUE] ELSE driver

\* Whoever started it learns of it from its termination handler; whoever waits for it sees.
DriverGone ==
  /\ driver' = None
  /\ worker' = [a \in Apps |-> IF driver.by = a THEN "ended" ELSE worker[a]]
  /\ signalled' = [c \in Callers |-> FALSE]

DriverEnds ==
  /\ driver # None /\ DriverGone
  /\ UNCHANGED <<loaded, lease, lock, app, asked, closing, stopping, prod, env, stage, others, duty, hist>>

-----------------------------------------------------------------------------
(* Production. *)

\* Mutant: production looks at the desk only, not at the lease.
Eligible_Desk(u) == u /\ loggedIn

\* What keeps production off the dock without telling it when it is over.
KeptOff == DevelopmentActive \/ ~loggedIn

Eligible(u) == u /\ ~KeptOff

StopWorker ==
  /\ driver' = IF stopping[Production] THEN driver
               ELSE IF worker[Production] = "live" THEN [driver EXCEPT !.stopping = TRUE] ELSE driver
  /\ stopping' = [stopping EXCEPT ![Production] = @ \/ worker[Production] = "live"]
  /\ UNCHANGED worker

Reconcile(u) ==
  /\ heldOff' = KeptOff
  /\ \/ /\ ~Eligible(u) /\ retry' = FALSE /\ StopWorker
     \/ /\ Eligible(u) /\ ~granted /\ retry' = TRUE /\ StopWorker
     \/ /\ Eligible(u) /\ granted /\ worker[Production] # "none"
        /\ retry' = FALSE /\ UNCHANGED <<driver, worker, stopping>>
     \/ /\ Eligible(u) /\ granted /\ worker[Production] = "none"
        /\ \/ Spawn(Production) /\ retry' = FALSE
           \/ retry' = TRUE /\ UNCHANGED <<driver, worker>>
        /\ UNCHANGED stopping

\* launchd keeps the job alive; anybody may open the app.  A second copy leaves at once.
Launch ==
  /\ app[Production] = "off"
  /\ app' = [app EXCEPT ![Production] = "up"]
  /\ Reconcile(usable)
  /\ UNCHANGED <<loaded, lease, lock, asked, closing, env, calls, hist>>

\* The dock comes or goes, the Mac or its displays sleep or wake, the session changes; or the
\* app is reopened.
DeskChanges ==
  /\ usable' \in BOOLEAN
  /\ IF app[Production] = "up" /\ ~closing[Production]
     THEN Reconcile(usable') ELSE UNCHANGED <<prod, driver, worker, stopping>>
  /\ UNCHANGED <<loaded, lease, lock, app, asked, closing, loggedIn, granted, calls, hist>>

PermissionChanges ==
  /\ granted' = ~granted
  /\ UNCHANGED <<shared, apps, prod, usable, loggedIn, calls, hist>>

\* Login completes, maybe after launchd has started the agent.
LoginDone ==
  /\ ~loggedIn /\ loggedIn' = TRUE
  /\ UNCHANGED <<shared, apps, prod, usable, granted, calls, hist>>

RetryFires ==
  /\ retry
  /\ Reconcile(usable)
  /\ UNCHANGED <<loaded, lease, lock, app, asked, closing, env, calls, hist>>

\* The process is gone; what it started, if it runs, runs on.
Left(a, drv) ==
  /\ app' = [app EXCEPT ![a] = IF a = Production THEN "off" ELSE "gone"]
  /\ driver' = drv /\ worker' = [worker EXCEPT ![a] = "none"]
  /\ asked' = [asked EXCEPT ![a] = FALSE] /\ closing' = [closing EXCEPT ![a] = FALSE]
  /\ stopping' = [stopping EXCEPT ![a] = FALSE]
  /\ others' = [c \in Callers |-> others[c] \ {a}]
  /\ IF a = Production THEN retry' = FALSE /\ heldOff' = FALSE ELSE UNCHANGED prod

\* Mutant: an end production asked for is not looked into.
WorkerEnded_Unexpected ==
  /\ app[Production] = "up" /\ worker[Production] = "ended"
  /\ IF closing[Production]
     THEN Left(Production, driver)
     ELSE /\ UNCHANGED others
          /\ worker' = [worker EXCEPT ![Production] = "none"]
          /\ stopping' = [stopping EXCEPT ![Production] = FALSE]
          /\ retry' = (retry \/ (Eligible(usable) /\ ~stopping[Production]))
          /\ heldOff' = (heldOff \/ KeptOff)
          /\ UNCHANGED <<driver, app, asked, closing>>
  /\ UNCHANGED <<loaded, lease, lock, env, stage, signalled, duty, hist>>

\* The termination handler on main.
ProductionWorkerEnded ==
  LET expected == Eligible(usable) IN
  /\ app[Production] = "up" /\ worker[Production] = "ended"
  /\ IF closing[Production]
     THEN Left(Production, driver)
     ELSE /\ UNCHANGED others
          /\ worker' = [worker EXCEPT ![Production] = "none"]
          /\ stopping' = [stopping EXCEPT ![Production] = FALSE]
          /\ retry' = (retry \/ expected) /\ heldOff' = (heldOff \/ KeptOff)
          /\ UNCHANGED <<driver, app, asked, closing>>
  /\ UNCHANGED <<loaded, lease, lock, env, stage, signalled, duty, hist>>

\* applicationShouldTerminate.
ProductionQuits ==
  /\ app[Production] = "up" /\ asked[Production] /\ ~closing[Production]
  /\ IF worker[Production] = "live"
     THEN /\ closing' = [closing EXCEPT ![Production] = TRUE]
          /\ retry' = FALSE /\ StopWorker
          /\ UNCHANGED <<app, asked, heldOff, others>>
     ELSE Left(Production, driver)
  /\ UNCHANGED <<loaded, lease, lock, env, stage, signalled, duty, hist>>

\* The quit deadline: kill the driver and reply.
ProductionQuitExpires ==
  /\ closing[Production] /\ worker[Production] = "live"
  /\ Left(Production, None)
  /\ signalled' = [c \in Callers |-> FALSE]
  /\ UNCHANGED <<loaded, lease, lock, env, stage, duty, hist>>

-----------------------------------------------------------------------------
(* Stopping everything, for a session or a command. *)

\* A debug app stops production and standalone drivers, a command every app.
IncludesDebug(c) == c \in {"stop", "restart"}

Running(c) == {a \in Apps : /\ app[a] = "up" /\ a # c
                            /\ a \in Debuggers => IncludesDebug(c)}

To(c, s) == stage' = [stage EXCEPT ![c] = s]

Bootout(c) ==
  /\ stage[c] = "bootout"
  /\ loaded' = FALSE /\ To(c, "ask")
  /\ UNCHANGED <<lease, lock, driver, apps, prod, env, others, signalled, duty, hist>>

Ask(c) ==
  /\ stage[c] = "ask"
  /\ others' = [others EXCEPT ![c] = Running(c)]
  /\ asked' = [a \in Apps |-> asked[a] \/ a \in Running(c)]
  /\ To(c, "wait")
  /\ UNCHANGED <<shared, app, closing, worker, stopping, prod, env, signalled, duty, hist>>

\* supervisor(): the process that holds the driver lock, if any, is asked to stop.
AskDriver(c) ==
  /\ stage[c] = "wait" /\ others[c] = {}
  /\ IF driver = None
     THEN To(c, "end") /\ UNCHANGED <<driver, signalled>>
     ELSE /\ To(c, "driver")
          /\ driver' = [driver EXCEPT !.stopping = TRUE]
          /\ signalled' = [signalled EXCEPT ![c] = TRUE]
  /\ UNCHANGED <<loaded, lease, lock, apps, prod, env, others, duty, hist>>

DriverStopped(c) ==
  /\ stage[c] = "driver" /\ ~signalled[c]
  /\ To(c, "end")
  /\ UNCHANGED <<shared, apps, prod, env, others, signalled, duty, hist>>

KillDriver(c) ==
  /\ stage[c] = "driver" /\ signalled[c]
  /\ DriverGone
  /\ UNCHANGED <<loaded, lease, lock, app, asked, closing, stopping, prod, env, stage, others, duty, hist>>

\* Ten seconds of grace, ten more, and the stop fails; so it does three seconds after the
\* driver was killed to no avail.
GivesUp(c) ==
  /\ \/ stage[c] = "wait" /\ others[c] # {}
     \/ stage[c] = "driver" /\ signalled[c]
  /\ To(c, IF c \in Debuggers THEN "handback" ELSE "failed")
  /\ UNCHANGED <<shared, apps, prod, env, others, signalled, duty, hist>>

\* A process dies: its lock is released, its children live on.
Dies(a) ==
  /\ app[a] = "up"
  /\ Left(a, IF worker[a] = "live" THEN [driver EXCEPT !.by = Orphan] ELSE driver)
  /\ lock' = IF lock = a THEN None ELSE lock
  /\ IF a \in Debuggers
     THEN /\ To(a, "done")
          /\ dropped' = (dropped \/ (stage[a] \in Resuming /\ duty[a]))
          /\ duty' = [duty EXCEPT ![a] = FALSE]
          /\ signalled' = [signalled EXCEPT ![a] = FALSE]
     ELSE UNCHANGED <<stage, dropped, duty, signalled>>
  /\ UNCHANGED <<loaded, lease, env, wanted>>

\* Mutant: nobody is killed.
ForceQuit_Never(c) == c = None /\ UNCHANGED vars

ForceQuit(c) ==
  /\ stage[c] = "wait"
  /\ \E a \in others[c] : Dies(a)
  /\ UNCHANGED ends

\* The user quits an app; a stop asks it through the same request.
Quit(a) ==
  /\ app[a] = "up" /\ ~asked[a] /\ ends < MaxEnds
  /\ asked' = [asked EXCEPT ![a] = TRUE] /\ ends' = ends + 1
  /\ UNCHANGED <<shared, app, closing, worker, stopping, prod, env, calls, wanted, dropped>>

Crash(a) ==
  /\ ends < MaxEnds
  /\ Dies(a) /\ ends' = ends + 1

-----------------------------------------------------------------------------
(* A debug app's session. *)

OpenDebug(d) ==
  /\ app[d] = "off"
  /\ app' = [app EXCEPT ![d] = "up"]
  /\ UNCHANGED <<shared, asked, closing, worker, stopping, prod, env, calls, hist>>

Busy(c) == stage[c] \notin {"idle", "done", "failed"}

\* The lock is taken, and kept if no session is alive.
TakeLock(d) ==
  /\ app[d] = "up" /\ stage[d] = "idle"
  /\ Alone => \A c \in Commands : ~Busy(c)
  /\ lock = None /\ ~DevelopmentActive
  /\ lock' = d /\ To(d, "leasing")
  /\ UNCHANGED <<loaded, lease, driver, apps, prod, env, others, signalled, duty, hist>>

\* Mutant: a new session forgets what the last one owed.
WriteLease_Forget(d) ==
  /\ stage[d] = "leasing"
  /\ lease' = [pid |-> d, resume |-> loaded]
  /\ To(d, "bootout")
  /\ UNCHANGED <<loaded, lock, driver, apps, prod, env, others, signalled, duty, hist>>

\* Restoration passes to this session before anything is stopped, an earlier session's too.
WriteLease(d) ==
  /\ stage[d] = "leasing"
  /\ lease' = [pid |-> d, resume |-> loaded \/ (lease # None /\ lease.resume)]
  /\ To(d, "bootout")
  /\ UNCHANGED <<loaded, lock, driver, apps, prod, env, others, signalled, duty, hist>>

\* Everything stopped: the driver starts, or cannot be run.
Acquired(d) ==
  /\ stage[d] = "end" /\ d \in Debuggers
  /\ \/ Spawn(d) /\ To(d, "holding")
     \/ To(d, "handback") /\ UNCHANGED <<driver, worker>>
  /\ UNCHANGED <<loaded, lease, lock, app, asked, closing, stopping, prod, env, others, signalled,
                 duty, hist>>

\* stop: the user's, or the quit's.
StopOwn(d) == driver' = IF stopping[d] THEN driver ELSE IF worker[d] = "live"
                        THEN [driver EXCEPT !.stopping = TRUE] ELSE driver

UserStops(d) ==
  /\ stage[d] = "holding" /\ ~stopping[d]
  /\ StopOwn(d) /\ stopping' = [stopping EXCEPT ![d] = TRUE]
  /\ UNCHANGED <<loaded, lease, lock, app, asked, closing, worker, prod, env, calls, hist>>

\* The stop's own timer.
KillOwn(d) ==
  /\ d \in Debuggers /\ stopping[d] /\ worker[d] = "live"
  /\ DriverGone
  /\ UNCHANGED <<loaded, lease, lock, app, asked, closing, stopping, prod, env, stage, others, duty, hist>>

DidStop(d) ==
  /\ stage[d] = "holding" /\ worker[d] = "ended"
  /\ worker' = [worker EXCEPT ![d] = "none"] /\ stopping' = [stopping EXCEPT ![d] = FALSE]
  /\ To(d, "handback")
  /\ UNCHANGED <<shared, app, asked, closing, prod, env, others, signalled, duty, hist>>

\* The lock goes last; an app that is quitting then goes on to its last resume.
Release(d) == lock' = None /\ To(d, IF closing[d] THEN "last" ELSE "idle")

\* finish: a lease that is still this session's is removed, and what it owes is done.
HandsBack(d) ==
  LET mine == lease # None /\ lease.pid = d
      owes == mine /\ lease.resume
  IN
  /\ stage[d] = "handback"
  /\ lease' = IF mine THEN None ELSE lease
  /\ duty' = [duty EXCEPT ![d] = owes]
  /\ IF owes THEN To(d, "resume") /\ UNCHANGED lock ELSE Release(d)
  /\ UNCHANGED <<loaded, driver, apps, prod, env, others, signalled, hist>>

\* applicationShouldTerminate.
DebugQuits(d) ==
  /\ asked[d] /\ ~closing[d] /\ stage[d] \in {"idle", "holding"} /\ d \in Debuggers
  /\ closing' = [closing EXCEPT ![d] = TRUE]
  /\ IF stage[d] = "idle"
     THEN To(d, "last") /\ UNCHANGED <<driver, stopping>>
     ELSE /\ StopOwn(d) /\ stopping' = [stopping EXCEPT ![d] = TRUE]
          /\ UNCHANGED stage
  /\ UNCHANGED <<loaded, lease, lock, app, asked, worker, prod, env, others, signalled, duty, hist>>

\* Twenty seconds: the driver is killed and the app goes, through the hand-back.
DebugQuitExpires(d) ==
  /\ closing[d] /\ stage[d] = "holding"
  /\ driver' = IF worker[d] = "live" THEN None ELSE driver
  /\ signalled' = [c \in Callers |-> worker[d] # "live" /\ signalled[c]]
  /\ worker' = [worker EXCEPT ![d] = "none"] /\ stopping' = [stopping EXCEPT ![d] = FALSE]
  /\ To(d, "handback")
  /\ UNCHANGED <<loaded, lease, lock, app, asked, closing, prod, env, others, duty, hist>>

\* applicationWillTerminate: production is resumed whatever the lease said, unless a session
\* has the dock.
LastResume(d) ==
  /\ stage[d] = "last" /\ ~DevelopmentActive /\ ~loaded
  /\ To(d, "lastboot")
  /\ UNCHANGED <<shared, apps, prod, env, others, signalled, duty, hist>>

Exits(d) ==
  /\ \/ stage[d] = "last" /\ (DevelopmentActive \/ loaded) /\ UNCHANGED loaded
     \/ stage[d] = "lastboot" /\ loaded' = TRUE
  /\ Left(d, driver) /\ To(d, "done")
  /\ UNCHANGED <<lease, lock, env, signalled, duty, hist>>

-----------------------------------------------------------------------------
(* Resuming production, and the commands. *)

\* resume returned.
Resumed(c) ==
  /\ duty' = [duty EXCEPT ![c] = FALSE]
  /\ wanted' = (wanted \/ (c \in {"start", "restart"} /\ loaded'))
  /\ IF c \in Debuggers THEN Release(c) ELSE To(c, "done") /\ UNCHANGED lock

ResumeChecks(c) ==
  /\ stage[c] = "resume"
  /\ UNCHANGED <<loaded, lease, driver, apps, prod, env, others, signalled, dropped, ends>>
  /\ IF DevelopmentActive \/ loaded
     THEN Resumed(c)
     ELSE To(c, "bootstrap") /\ UNCHANGED <<duty, lock, wanted>>

Bootstrap(c) ==
  /\ stage[c] = "bootstrap"
  /\ loaded' = TRUE /\ Resumed(c)
  /\ UNCHANGED <<lease, driver, apps, prod, env, others, signalled, dropped, ends>>

\* Only a lease whose owner is dead is recovered.
Begin(c) ==
  /\ c \in Commands /\ stage[c] = "idle"
  /\ Alone => /\ \A d \in Debuggers : stage[d] # "leasing"
              /\ \A other \in Commands : ~Busy(other)
  /\ wanted' = (wanted /\ c \notin {"stop", "restart"})
  /\ Alone /\ c = "recover" /\ lease # None => lease.resume \/ ~loaded
  /\ IF c = "recover"
     THEN IF lease = None \/ DevelopmentActive
          THEN To(c, "done") /\ UNCHANGED duty
          ELSE To(c, "bootout") /\ duty' = [duty EXCEPT ![c] = lease.resume]
     ELSE To(c, IF c = "start" THEN "resume" ELSE "bootout") /\ UNCHANGED duty
  /\ UNCHANGED <<shared, apps, prod, env, others, signalled, dropped, ends>>

CommandStopped(c) ==
  /\ c \in Commands /\ stage[c] = "end"
  /\ lease' = IF c = "recover" THEN None ELSE lease
  /\ To(c, IF c = "restart" \/ (c = "recover" /\ duty[c]) THEN "resume" ELSE "done")
  /\ UNCHANGED <<loaded, lock, driver, apps, prod, env, others, signalled, duty, hist>>

-----------------------------------------------------------------------------

ProductionStep ==
  \/ Launch \/ RetryFires \/ ProductionWorkerEnded \/ ProductionQuits \/ ProductionQuitExpires

DebugStep(d) ==
  \/ OpenDebug(d) \/ TakeLock(d) \/ UserStops(d) \/ KillOwn(d) \/ DebugQuits(d)
  \/ DebugQuitExpires(d)

\* What a caller does of itself once it has begun, giving up apart.
Proceeds(c) ==
  \/ Bootout(c) \/ Ask(c) \/ AskDriver(c) \/ DriverStopped(c) \/ KillDriver(c) \/ ForceQuit(c)
  \/ ResumeChecks(c) \/ Bootstrap(c)

SessionProceeds(d) ==
  \/ WriteLease(d) \/ Acquired(d) \/ DidStop(d) \/ HandsBack(d) \/ LastResume(d) \/ Exits(d)

Next ==
  \/ DriverEnds \/ DeskChanges \/ PermissionChanges \/ LoginDone
  \/ ProductionStep
  \/ \E d \in Debuggers : DebugStep(d) \/ SessionProceeds(d)
  \/ \E c \in Callers : Proceeds(c) \/ GivesUp(c)
  \/ \E c \in Commands : Begin(c) \/ CommandStopped(c)
  \/ \E a \in Apps : Quit(a) \/ Crash(a)

\* Timers fire and code that runs goes on.  That an app handles a request to terminate, that
\* a driver stops when asked to, or that a stop is given up, is not assumed.
Fairness ==
  /\ WF_vars(ProductionQuitExpires) /\ WF_vars(ProductionWorkerEnded)
  /\ \A d \in Debuggers : WF_vars(SessionProceeds(d))
  /\ \A c \in Callers : WF_vars(Proceeds(c))

Spec == Init /\ [][Next]_vars /\ Fairness

-----------------------------------------------------------------------------
(* What the processes owe one another. *)

\* Under Alone, a session that has its dock shares it with no other driver: production stays off
\* it, and whatever drove it before is gone.  And from the moment it stops others until it hands
\* back, the lease and its lock are its own: no other session, and no recovery, takes them
\* from a session that lives.
SessionHasTheDock == \A d \in Debuggers :
  /\ stage[d] = "holding" => driver = None \/ driver.by = d
  /\ stage[d] \in Stopping \cup {"holding", "handback"} =>
      lock = d /\ lease # None /\ lease.pid = d

\* Under Alone and among commands other than "start", a login service that a session unloaded is
\* owed to the user by somebody who can be found: the lease on disk, or a process at work that
\* will resume it -- through crashes, failed takeovers and one session following on another.
\* Only an app that dies after giving up its lease and before resuming loses it.
SomeoneOwesProduction ==
  wanted /\ ~loaded =>
    \/ dropped
    \/ lease # None /\ lease.resume
    \/ \E c \in Callers : duty[c] /\ Busy(c)

\* A production app that could drive the dock and does not will look again: unless it last
\* looked while a session had the dock or before login was done, for nothing tells it of the
\* end of either.
NeverStranded ==
  /\ app[Production] = "up" /\ ~closing[Production]
  /\ Eligible(usable) /\ worker[Production] = "none"
  => retry \/ heldOff

\* Without the exception: no production app that may drive the dock sits beside it.
NeverDormant ==
  /\ app[Production] = "up" /\ ~closing[Production]
  /\ Eligible(usable) /\ worker[Production] = "none"
  => retry

\* Nothing is held open by what it stops: a quitting production app neither by a driver that
\* ignores its stop nor by a handler that is late, and a takeover comes to an end without
\* being given up, whatever the apps and the driver do about it.
NothingIsHeldOpen ==
  /\ closing[Production] ~> ~closing[Production]
  /\ \A d \in Debuggers : stage[d] \in Acquiring ~> stage[d] \notin Acquiring

\* What NothingIsHeldOpen rests on.  A production app that has put its quit off has a driver to
\* wait for, whose end or whose deadline it is told of: it never waits for nothing.
QuitIsAwaited == closing[Production] => app[Production] = "up" /\ worker[Production] # "none"

\* And a takeover goes one way: nobody joins those it waits for, no driver is put in the place
\* of the one it signalled, and each step of its own ends a stage or one of its waits.
Remaining(s) == CASE s = "leasing" -> 6 [] s = "bootout" -> 5 [] s = "ask" -> 4 [] s = "wait" -> 3
                  [] s = "driver" -> 2 [] s = "end" -> 1 [] OTHER -> 0
TakeoverGoesOneWay ==
  [][\A d \in Debuggers : stage[d] \in Acquiring =>
       \/ Remaining(stage'[d]) < Remaining(stage[d])
       \/ /\ stage'[d] = stage[d]
          /\ others'[d] \subseteq others[d] /\ (signalled'[d] => signalled[d])
          /\ Proceeds(d) \/ SessionProceeds(d) =>
               others'[d] # others[d] \/ signalled'[d] # signalled[d]]_vars

\* When `stop` returns, the login service is unloaded.
StopStops == [][\A c \in Commands \cap {"stop"} :
                  stage[c] # "done" /\ stage'[c] = "done" => ~loaded']_vars
=============================================================================
