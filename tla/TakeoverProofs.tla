--------------------------- MODULE TakeoverProofs ---------------------------
(***************************************************************************)
(* Proofs about who drives the dock, for any number of debug apps, any set *)
(* of commands and any number of deaths.                                   *)
(*                                                                         *)
(* Records (what each record holds, that a live Process is the holder of   *)
(* the driver lock, and that a supervisor somebody waits for runs) is      *)
(* inductive by itself, and so is StrandInv beside it.  SessionInv needs   *)
(* RecoverInv -- no recovery runs while a session is on -- and RecoverInv  *)
(* needs commands to be given one at a time (Alone).  On top of the two    *)
(* stand DockInv, which is about the driver, and DutyInv, which follows    *)
(* what is owed from the lease to the process that does it.                *)
(***************************************************************************)
EXTENDS Takeover, TLAPS

\* TypeOK but for what worker and driver say of each other.
Shapes ==
  /\ loaded \in BOOLEAN /\ usable \in BOOLEAN /\ loggedIn \in BOOLEAN /\ granted \in BOOLEAN
  /\ lease \in {None} \cup [pid : Debuggers, resume : BOOLEAN]
  /\ lock \in Debuggers \cup {None}
  /\ driver \in {None} \cup [by : Apps \cup {Orphan}, stopping : BOOLEAN]
  /\ app \in [Apps -> {"off", "up", "gone"}] /\ worker \in [Apps -> {"none", "live", "ended"}]
  /\ asked \in [Apps -> BOOLEAN] /\ closing \in [Apps -> BOOLEAN] /\ stopping \in [Apps -> BOOLEAN]
  /\ retry \in BOOLEAN /\ heldOff \in BOOLEAN
  /\ stage \in [Callers -> Stages] /\ others \in [Callers -> SUBSET Apps]
  /\ signalled \in [Callers -> BOOLEAN] /\ duty \in [Callers -> BOOLEAN]
  /\ wanted \in BOOLEAN /\ dropped \in BOOLEAN /\ ends \in 0..MaxEnds

\* A Process that runs is the supervisor that holds the driver lock.
LiveHoldsTheLock ==
  \A a \in Apps : worker[a] = "live" <=> driver # None /\ driver.by = a

\* A debug app has a Process for as long as its session holds the dock.
WorkerInv == \A d \in Debuggers : worker[d] # "none" => stage[d] = "holding"

\* A supervisor that a caller waits for after its signal runs.
SignalInv == \A c \in Callers : signalled[c] => driver # None

Records == Shapes /\ LiveHoldsTheLock /\ WorkerInv /\ SignalInv

LEMMA TypeSplits == TypeOK <=> Shapes /\ LiveHoldsTheLock
<1>1. {loaded, usable, loggedIn, granted} \subseteq BOOLEAN
      <=> loaded \in BOOLEAN /\ usable \in BOOLEAN /\ loggedIn \in BOOLEAN /\ granted \in BOOLEAN
  OBVIOUS
<1> QED
  BY <1>1 DEF TypeOK, Shapes, LiveHoldsTheLock

LEMMA Names ==
  /\ Production \in Apps /\ Production \notin Debuggers
  /\ Orphan \notin Apps /\ None \notin Apps
  /\ \A d \in Debuggers : d \in Apps /\ d \in Callers /\ d \notin Commands /\ d # Production
  /\ \A c \in Commands : c \in Callers /\ c \notin Debuggers
  /\ None \notin [by : Apps \cup {Orphan}, stopping : BOOLEAN]
BY TakeoverAssumption DEF Apps, Callers, TakeoverAssumption

LEMMA DriverAsked ==
  ASSUME driver \in {None} \cup [by : Apps \cup {Orphan}, stopping : BOOLEAN], driver # None
  PROVE  /\ [driver EXCEPT !.stopping = TRUE] \in [by : Apps \cup {Orphan}, stopping : BOOLEAN]
         /\ [driver EXCEPT !.stopping = TRUE] # None
         /\ [driver EXCEPT !.stopping = TRUE].by = driver.by
BY Names

LEMMA DriverOrphaned ==
  ASSUME driver \in {None} \cup [by : Apps \cup {Orphan}, stopping : BOOLEAN], driver # None
  PROVE  /\ [driver EXCEPT !.by = Orphan] \in [by : Apps \cup {Orphan}, stopping : BOOLEAN]
         /\ [driver EXCEPT !.by = Orphan] # None
         /\ [driver EXCEPT !.by = Orphan].by = Orphan
BY Names

\* What starting or stopping a driver leaves of the two records that name it.
DriverOK(drv, wrk) ==
  /\ drv \in {None} \cup [by : Apps \cup {Orphan}, stopping : BOOLEAN]
  /\ wrk \in [Apps -> {"none", "live", "ended"}]
  /\ \A a \in Apps : wrk[a] = "live" <=> drv # None /\ drv.by = a

LEMMA SpawnKeeps ==
  ASSUME Shapes, LiveHoldsTheLock, NEW a \in Apps, worker[a] # "live", Spawn(a)
  PROVE  /\ DriverOK(driver', worker')
         /\ \A b \in Apps \ {a} : worker'[b] = worker[b]
         /\ worker'[a] # "none"
         /\ driver' = driver \/ (driver = None /\ driver' # None /\ driver'.by = a)
<1>1. CASE /\ driver = None
           /\ driver' = [by |-> a, stopping |-> FALSE]
           /\ worker' = [worker EXCEPT ![a] = "live"]
  <2>0. driver' \in [by : Apps \cup {Orphan}, stopping : BOOLEAN]
    BY <1>1
  <2>1. driver' # None /\ driver'.by = a
    BY <1>1, <2>0, Names
  <2>2. worker' \in [Apps -> {"none", "live", "ended"}]
    BY <1>1 DEF Shapes
  <2>3. ASSUME NEW b \in Apps
        PROVE  /\ worker'[b] = "live" <=> driver' # None /\ driver'.by = b
               /\ b # a => worker'[b] = worker[b]
    BY <1>1, <2>1, <2>3 DEF Shapes, LiveHoldsTheLock
  <2> QED
    BY <1>1, <2>0, <2>1, <2>2, <2>3 DEF DriverOK
<1>2. CASE worker' = [worker EXCEPT ![a] = "ended"] /\ UNCHANGED driver
  BY <1>2, Names DEF DriverOK, Shapes, LiveHoldsTheLock
<1> QED
  BY <1>1, <1>2 DEF Spawn

LEMMA GoneKeeps ==
  ASSUME Shapes, LiveHoldsTheLock, driver # None, DriverGone
  PROVE  /\ DriverOK(driver', worker')
         /\ \A b \in Apps : worker'[b] = "none" <=> worker[b] = "none"
         /\ signalled' \in [Callers -> BOOLEAN]
<1>1. ASSUME NEW b \in Apps
      PROVE  worker'[b] # "live" /\ (worker'[b] = "none" <=> worker[b] = "none")
  BY <1>1 DEF DriverGone, Shapes, LiveHoldsTheLock
<1> QED
  BY <1>1 DEF DriverGone, Shapes, DriverOK

LEMMA StopKeeps ==
  ASSUME Shapes, LiveHoldsTheLock, StopWorker
  PROVE  /\ DriverOK(driver', worker') /\ worker' = worker
         /\ driver' = driver \/ (driver # None /\ driver' # None /\ driver'.by = driver.by)
         /\ stopping' \in [Apps -> BOOLEAN]
<1>1. CASE driver' = driver
  BY <1>1 DEF StopWorker, Shapes, LiveHoldsTheLock, DriverOK
<1>2. CASE driver' # driver
  <2>1. worker[Production] = "live" /\ driver' = [driver EXCEPT !.stopping = TRUE]
    BY <1>2 DEF StopWorker
  <2>2. driver # None
    BY <2>1, Names DEF LiveHoldsTheLock
  <2>3. driver' # None /\ driver'.by = driver.by
        /\ driver' \in [by : Apps \cup {Orphan}, stopping : BOOLEAN]
    BY <2>1, <2>2, DriverAsked DEF Shapes
  <2> QED
    BY <2>2, <2>3, Names DEF StopWorker, Shapes, LiveHoldsTheLock, DriverOK
<1> QED
  BY <1>1, <1>2

\* Production looks at what it is told of: it starts its driver, stops it, or sets its timer.
LEMMA ReconcileKeeps ==
  ASSUME Shapes, LiveHoldsTheLock, NEW u \in BOOLEAN, Reconcile(u)
  PROVE  /\ DriverOK(driver', worker')
         /\ \A b \in Apps \ {Production} : worker'[b] = worker[b]
         /\ \/ driver' = driver
            \/ driver # None /\ driver' # None /\ driver'.by = driver.by
            \/ ~DevelopmentActive /\ driver = None
         /\ stopping' \in [Apps -> BOOLEAN] /\ retry' \in BOOLEAN /\ heldOff' \in BOOLEAN
<1>1. CASE StopWorker /\ retry' \in BOOLEAN
  BY <1>1, StopKeeps, Names DEF Reconcile, KeptOff, DevelopmentActive, Shapes
<1>2. CASE retry' \in BOOLEAN /\ UNCHANGED <<driver, worker, stopping>>
  BY <1>2 DEF Reconcile, Shapes, LiveHoldsTheLock, DriverOK, KeptOff, DevelopmentActive
<1>3. CASE /\ Eligible(u) /\ worker[Production] = "none" /\ Spawn(Production)
           /\ retry' = FALSE /\ UNCHANGED stopping
  BY <1>3, SpawnKeeps, Names DEF Reconcile, Shapes, DevelopmentActive, Eligible, KeptOff
<1> QED
  BY <1>1, <1>2, <1>3, Names DEF Reconcile, Eligible, KeptOff, Shapes

\* A process leaves: its driver stays behind, for no app's account, or is gone already.
LEMMA LeftKeeps ==
  ASSUME Shapes, LiveHoldsTheLock, NEW a \in Apps, NEW drv, Left(a, drv),
         \/ worker[a] # "live" /\ drv = driver
         \/ worker[a] = "live" /\ drv = [driver EXCEPT !.by = Orphan]
         \/ worker[a] = "live" /\ drv = None
  PROVE  /\ DriverOK(driver', worker')
         /\ \A b \in Apps \ {a} : worker'[b] = worker[b] /\ app'[b] = app[b]
         /\ worker'[a] = "none" /\ app'[a] # "up"
         /\ \/ driver' = driver
            \/ drv = None /\ driver' = None
            \/ driver # None /\ driver.by = a /\ driver' # None /\ driver'.by = Orphan
         /\ app' \in [Apps -> {"off", "up", "gone"}]
         /\ asked' \in [Apps -> BOOLEAN] /\ closing' \in [Apps -> BOOLEAN]
         /\ stopping' \in [Apps -> BOOLEAN]
         /\ others' \in [Callers -> SUBSET Apps]
         /\ retry' \in BOOLEAN /\ heldOff' \in BOOLEAN
<1>0. /\ worker' = [worker EXCEPT ![a] = "none"] /\ worker \in [Apps -> {"none", "live", "ended"}]
      /\ app' = [app EXCEPT ![a] = IF a = Production THEN "off" ELSE "gone"]
      /\ app \in [Apps -> {"off", "up", "gone"}]
      /\ driver' = drv
  BY DEF Left, Shapes
<1>1. /\ worker' = [worker EXCEPT ![a] = "none"] /\ worker' \in [Apps -> {"none", "live", "ended"}]
      /\ app' \in [Apps -> {"off", "up", "gone"}] /\ app'[a] # "up"
      /\ \A b \in Apps \ {a} : worker'[b] = worker[b] /\ app'[b] = app[b]
      /\ driver' = drv
  BY <1>0
<1>2. /\ asked' \in [Apps -> BOOLEAN] /\ closing' \in [Apps -> BOOLEAN]
      /\ stopping' \in [Apps -> BOOLEAN]
      /\ others' \in [Callers -> SUBSET Apps]
      /\ retry' \in BOOLEAN /\ heldOff' \in BOOLEAN
  <2>1. /\ asked' \in [Apps -> BOOLEAN] /\ closing' \in [Apps -> BOOLEAN]
        /\ stopping' \in [Apps -> BOOLEAN]
    BY DEF Left, Shapes
  <2>2. others' \in [Callers -> SUBSET Apps]
    BY DEF Left, Shapes
  <2>3. retry' \in BOOLEAN /\ heldOff' \in BOOLEAN
    BY DEF Left, Shapes, prod
  <2> QED
    BY <2>1, <2>2, <2>3
<1>3. worker'[a] = "none"
  BY <1>1 DEF Shapes
<1>4. CASE worker[a] # "live" /\ drv = driver
  BY <1>1, <1>2, <1>3, <1>4 DEF DriverOK, Shapes, LiveHoldsTheLock
<1>5. CASE worker[a] = "live" /\ drv = None
  <2>1. driver # None /\ driver.by = a
    BY <1>5 DEF LiveHoldsTheLock
  <2>2. \A b \in Apps : worker'[b] # "live"
    BY <1>1, <1>3, <2>1 DEF LiveHoldsTheLock
  <2>3. driver' = None
    BY <1>1, <1>5
  <2>4. DriverOK(driver', worker')
    BY <1>1, <2>2, <2>3 DEF DriverOK
  <2> QED
    BY <1>1, <1>2, <1>3, <2>3, <2>4
<1>6. CASE worker[a] = "live" /\ drv = [driver EXCEPT !.by = Orphan]
  <2>1. driver # None /\ driver.by = a
    BY <1>6 DEF LiveHoldsTheLock
  <2>2. driver' # None /\ driver'.by = Orphan
        /\ driver' \in [by : Apps \cup {Orphan}, stopping : BOOLEAN]
    BY <1>1, <1>6, <2>1, DriverOrphaned DEF Shapes
  <2>3. \A b \in Apps : worker'[b] # "live"
    BY <1>1, <1>3, <2>1 DEF LiveHoldsTheLock
  <2>4. DriverOK(driver', worker')
    BY <1>1, <2>2, <2>3, Names DEF DriverOK
  <2> QED
    BY <1>1, <1>2, <1>3, <2>1, <2>2, <2>4
<1> QED
  BY <1>4, <1>5, <1>6

LEMMA DiesKeeps ==
  ASSUME Shapes, LiveHoldsTheLock, NEW a \in Apps, Dies(a)
  PROVE  /\ DriverOK(driver', worker')
         /\ \A b \in Apps \ {a} : worker'[b] = worker[b] /\ app'[b] = app[b]
         /\ worker'[a] = "none" /\ app'[a] # "up"
         /\ \/ driver' = driver
            \/ driver # None /\ driver.by = a /\ driver' # None /\ driver'.by = Orphan
         /\ app' \in [Apps -> {"off", "up", "gone"}]
         /\ asked' \in [Apps -> BOOLEAN] /\ closing' \in [Apps -> BOOLEAN]
         /\ stopping' \in [Apps -> BOOLEAN]
         /\ others' \in [Callers -> SUBSET Apps]
         /\ retry' \in BOOLEAN /\ heldOff' \in BOOLEAN
<1>1. Left(a, IF worker[a] = "live" THEN [driver EXCEPT !.by = Orphan] ELSE driver)
  BY DEF Dies
<1>2. CASE worker[a] = "live"
  <2>1. Left(a, [driver EXCEPT !.by = Orphan])
    BY <1>1, <1>2
  <2>2. [driver EXCEPT !.by = Orphan] # None
    BY <1>2, DriverOrphaned DEF LiveHoldsTheLock, Shapes
  <2> QED
    BY <1>2, <2>1, <2>2, LeftKeeps
<1>3. CASE worker[a] # "live"
  <2>1. Left(a, driver)
    BY <1>1, <1>3
  <2> QED
    BY <1>3, <2>1, LeftKeeps
<1> QED
  BY <1>2, <1>3

ProductionSide ==
  \/ DriverEnds \/ DeskChanges \/ PermissionChanges \/ LoginDone \/ ProductionStep

\* What production and the desk do leaves the sessions and the commands as they are.
LEMMA ProductionLeavesCallers ==
  ASSUME Shapes, LiveHoldsTheLock, WorkerInv, SignalInv, ProductionSide
  PROVE  /\ Shapes' /\ DriverOK(driver', worker') /\ SignalInv'
         /\ UNCHANGED <<loaded, lease, lock, stage, duty, wanted, dropped>>
         /\ \A d \in Debuggers : /\ app'[d] = app[d]
                                 /\ worker'[d] = "none" <=> worker[d] = "none"
                                 /\ \A c \in Callers : d \in others'[c] <=> d \in others[c]
         /\ \/ driver' = driver
            \/ driver' = None
            \/ driver # None /\ driver' # None /\ driver'.by = driver.by
            \/ driver = None /\ ~DevelopmentActive
         /\ \A c \in Callers : signalled'[c] = signalled[c] \/ driver' = None
<1>1. CASE DriverEnds
  <2>1. driver # None /\ DriverGone /\ driver' = None
    BY <1>1 DEF DriverEnds, DriverGone
  <2> QED
    BY <1>1, <2>1, GoneKeeps, Names DEF DriverEnds, DriverGone, Shapes, DriverOK, SignalInv, prod,
       env, hist
<1>2. CASE DeskChanges
  <2>1. CASE app[Production] = "up" /\ ~closing[Production]
    <3>1. Reconcile(usable') /\ usable' \in BOOLEAN
      BY <1>2, <2>1 DEF DeskChanges
    <3>2. /\ UNCHANGED <<loaded, lease, lock, app, asked, closing, loggedIn, granted, stage, others,
                         signalled, duty, wanted, dropped, ends>>
      BY <1>2 DEF DeskChanges, calls, hist
    <3> QED
      BY <3>1, <3>2, ReconcileKeeps, Names DEF Shapes, DriverOK, SignalInv
  <2>2. CASE ~(app[Production] = "up" /\ ~closing[Production])
    BY <1>2, <2>2 DEF DeskChanges, prod, calls, hist, Shapes, DriverOK, LiveHoldsTheLock,
       SignalInv
  <2> QED
    BY <2>1, <2>2
<1>3. CASE PermissionChanges \/ LoginDone
  <2>1. loggedIn' \in BOOLEAN /\ granted' \in BOOLEAN
    <3>1. CASE PermissionChanges
      BY <3>1, Zenon DEF PermissionChanges, Shapes
    <3>2. CASE LoginDone
      BY <3>2, Zenon DEF LoginDone, Shapes
    <3> QED
      BY <1>3, <3>1, <3>2
  <2>2. UNCHANGED <<shared, apps, prod, usable, calls, hist>>
    BY <1>3 DEF PermissionChanges, LoginDone
  <2> QED
    BY <2>1, <2>2 DEF shared, apps, prod, calls, hist, Shapes, DriverOK, LiveHoldsTheLock, SignalInv
<1>4. CASE Launch
  <2>1. Reconcile(usable) /\ usable \in BOOLEAN
    BY <1>4 DEF Launch, Shapes
  <2>2. /\ UNCHANGED <<loaded, lease, lock, asked, closing, usable, loggedIn, granted, stage, others,
                       signalled, duty, wanted, dropped, ends>>
        /\ app' = [app EXCEPT ![Production] = "up"]
    BY <1>4 DEF Launch, env, calls, hist
  <2> QED
    BY <2>1, <2>2, ReconcileKeeps, Names DEF Shapes, DriverOK, SignalInv
<1>5. CASE RetryFires
  <2>1. Reconcile(usable) /\ usable \in BOOLEAN
    BY <1>5 DEF RetryFires, Shapes
  <2>2. /\ UNCHANGED <<loaded, lease, lock, app, asked, closing, usable, loggedIn, granted, stage, others,
                       signalled, duty, wanted, dropped, ends>>
    BY <1>5 DEF RetryFires, env, calls, hist
  <2> QED
    BY <2>1, <2>2, ReconcileKeeps, Names DEF Shapes, DriverOK, SignalInv
<1>6. CASE ProductionWorkerEnded
  <2>0. UNCHANGED <<loaded, lease, lock, usable, loggedIn, granted, stage, signalled, duty, wanted, dropped,
                    ends>> /\ worker[Production] = "ended"
    BY <1>6 DEF ProductionWorkerEnded, env, hist
  <2>1. CASE closing[Production]
    <3>1. Left(Production, driver) /\ others' = [c \in Callers |-> others[c] \ {Production}]
          /\ driver' = driver
      BY <1>6, <2>1 DEF ProductionWorkerEnded, Left
    <3> QED
      BY <2>0, <3>1, LeftKeeps, Names DEF Shapes, DriverOK, SignalInv
  <2>2. CASE ~closing[Production]
    <3>1. /\ worker' = [worker EXCEPT ![Production] = "none"]
          /\ stopping' = [stopping EXCEPT ![Production] = FALSE]
          /\ retry' \in BOOLEAN /\ heldOff' \in BOOLEAN
          /\ UNCHANGED <<driver, app, asked, closing, others>>
      BY <1>6, <2>2 DEF ProductionWorkerEnded, Shapes, DevelopmentActive, Eligible, KeptOff
    <3>2. DriverOK(driver', worker')
      BY <2>0, <3>1, Names DEF Shapes, LiveHoldsTheLock, DriverOK
    <3> QED
      BY <2>0, <3>1, <3>2, Names DEF Shapes, DriverOK, SignalInv
  <2> QED
    BY <2>1, <2>2
<1>7. CASE ProductionQuits
  <2>0. UNCHANGED <<loaded, lease, lock, usable, loggedIn, granted, stage, signalled, duty, wanted, dropped,
                    ends>>
    BY <1>7 DEF ProductionQuits, env, hist
  <2>1. CASE worker[Production] = "live"
    <3>1. /\ closing' = [closing EXCEPT ![Production] = TRUE]
          /\ retry' = FALSE /\ StopWorker
          /\ UNCHANGED <<app, asked, heldOff, others>>
      BY <1>7, <2>1 DEF ProductionQuits
    <3> QED
      BY <2>0, <3>1, StopKeeps, Names, ZenonT(40) DEF Shapes, DriverOK, SignalInv
  <2>2. CASE worker[Production] # "live"
    <3>1. Left(Production, driver) /\ others' = [c \in Callers |-> others[c] \ {Production}]
          /\ driver' = driver
      BY <1>7, <2>2 DEF ProductionQuits, Left
    <3> QED
      BY <2>0, <2>2, <3>1, LeftKeeps, Names DEF Shapes, DriverOK, SignalInv
  <2> QED
    BY <2>1, <2>2
<1>8. CASE ProductionQuitExpires
  <2>1. /\ UNCHANGED <<loaded, lease, lock, usable, loggedIn, granted, stage, duty, wanted, dropped, ends>>
        /\ worker[Production] = "live" /\ Left(Production, None) /\ driver' = None
        /\ others' = [c \in Callers |-> others[c] \ {Production}]
        /\ signalled' = [c \in Callers |-> FALSE]
    BY <1>8 DEF ProductionQuitExpires, Left, env, hist
  <2> QED
    BY <2>1, LeftKeeps, Names DEF Shapes, DriverOK, SignalInv
<1> QED
  BY <1>1, <1>2, <1>3, <1>4, <1>5, <1>6, <1>7, <1>8 DEF ProductionSide, ProductionStep

LEMMA StopOwnKeeps ==
  ASSUME Shapes, LiveHoldsTheLock, NEW d \in Debuggers, StopOwn(d)
  PROVE  /\ DriverOK(driver', worker)
         /\ driver' = driver \/ (driver # None /\ driver' # None /\ driver'.by = driver.by)
<1>1. CASE driver' = driver
  BY <1>1 DEF Shapes, LiveHoldsTheLock, DriverOK
<1>2. CASE driver' # driver
  <2>1. worker[d] = "live" /\ driver' = [driver EXCEPT !.stopping = TRUE]
    BY <1>2 DEF StopOwn
  <2>2. driver # None
    BY <2>1, Names DEF LiveHoldsTheLock
  <2>3. driver' # None /\ driver'.by = driver.by
        /\ driver' \in [by : Apps \cup {Orphan}, stopping : BOOLEAN]
    BY <2>1, <2>2, DriverAsked DEF Shapes
  <2> QED
    BY <2>2, <2>3, Names DEF Shapes, LiveHoldsTheLock, DriverOK
<1> QED
  BY <1>1, <1>2

LEMMA SessionsKeepShapes ==
  ASSUME Shapes, LiveHoldsTheLock, WorkerInv, SignalInv, NEW d \in Debuggers,
         DebugStep(d) \/ SessionProceeds(d)
  PROVE  Shapes' /\ DriverOK(driver', worker') /\ WorkerInv' /\ SignalInv'
<1>1. CASE OpenDebug(d)
  BY <1>1, Names DEF OpenDebug, Shapes, DriverOK, LiveHoldsTheLock, WorkerInv, SignalInv, vars,
     shared, apps, prod, env, calls, hist, To, Stages, Stopping, Resuming, Acquiring, HandBack
<1>2. CASE TakeLock(d)
  BY <1>2, Names DEF TakeLock, Shapes, DriverOK, LiveHoldsTheLock, WorkerInv, SignalInv, vars,
     shared, apps, prod, env, calls, hist, To, Stages, Stopping, Resuming, Acquiring, HandBack
<1>3. CASE LastResume(d)
  BY <1>3, Names DEF LastResume, Shapes, DriverOK, LiveHoldsTheLock, WorkerInv, SignalInv, vars,
     shared, apps, prod, env, calls, hist, To, Stages, Stopping, Resuming, Acquiring, HandBack
<1>4. CASE WriteLease(d)
  BY <1>4, Names DEF WriteLease, Shapes, DriverOK, LiveHoldsTheLock, WorkerInv, SignalInv, vars,
     shared, apps, prod, env, calls, hist, To, Stages, Stopping, Resuming, Acquiring, HandBack
<1>5. CASE HandsBack(d)
  BY <1>5, Names DEF HandsBack, Release, Shapes, DriverOK, LiveHoldsTheLock, WorkerInv, SignalInv,
     vars, shared, apps, prod, env, calls, hist, To, Stages, Stopping, Resuming, Acquiring,
     HandBack
<1>6. CASE UserStops(d)
  <2>1. CASE StopOwn(d)
    BY <1>6, <2>1, StopOwnKeeps, Names DEF UserStops, Shapes, DriverOK, WorkerInv, SignalInv,
       prod, env, calls, hist, To, Stages
  <2>2. CASE UNCHANGED driver
    BY <1>6, <2>2, Names DEF UserStops, Shapes, DriverOK, LiveHoldsTheLock, WorkerInv, SignalInv,
       prod, env, calls, hist, To, Stages
  <2> QED
    BY <1>6, <2>1, <2>2 DEF UserStops
<1>7. CASE DebugQuits(d)
  <2>0. /\ UNCHANGED <<loaded, lease, lock, app, asked, worker, retry, heldOff, usable, loggedIn, granted, others,
                       signalled, duty, wanted, dropped, ends>>
        /\ closing' \in [Apps -> BOOLEAN]
        /\ stage[d] = "idle" => worker[d] = "none"
    BY <1>7, Names DEF DebugQuits, prod, env, hist, Shapes, WorkerInv
  <2>1. CASE StopOwn(d) /\ stopping' = [stopping EXCEPT ![d] = TRUE] /\ UNCHANGED stage
    <3>1. DriverOK(driver', worker')
      BY <2>0, <2>1, StopOwnKeeps DEF DriverOK
    <3> QED
      BY <2>0, <2>1, <3>1, StopOwnKeeps, Names DEF Shapes, DriverOK, WorkerInv, SignalInv
  <2>2. CASE stage[d] = "idle" /\ To(d, "last") /\ UNCHANGED <<driver, stopping>>
    <3>1. DriverOK(driver', worker')
      BY <2>0, <2>2 DEF Shapes, DriverOK, LiveHoldsTheLock
    <3> QED
      BY <2>0, <2>2, <3>1, Names DEF Shapes, WorkerInv, SignalInv, To, Stages
  <2> QED
    BY <1>7, <2>1, <2>2 DEF DebugQuits
<1>8. CASE KillOwn(d)
  <2>1. driver # None /\ DriverGone
    BY <1>8, Names DEF KillOwn, LiveHoldsTheLock
  <2> QED
    BY <1>8, <2>1, GoneKeeps, Names DEF KillOwn, DriverGone, Shapes, DriverOK, WorkerInv,
       SignalInv, prod, env, hist
<1>9. CASE DebugQuitExpires(d)
  <2>1. /\ driver' = IF worker[d] = "live" THEN None ELSE driver
        /\ worker' = [worker EXCEPT ![d] = "none"]
    BY <1>9 DEF DebugQuitExpires
  <2>2. DriverOK(driver', worker')
    BY <2>1, Names DEF Shapes, LiveHoldsTheLock, DriverOK
  <2>3. signalled' \in [Callers -> BOOLEAN] /\ SignalInv'
    BY <1>9, <2>1 DEF DebugQuitExpires, Shapes, SignalInv
  <2> QED
    BY <1>9, <2>1, <2>2, <2>3, Names DEF DebugQuitExpires, Shapes, DriverOK, WorkerInv, prod, env,
       hist, To, Stages, HandBack
<1>10. CASE Acquired(d)
  <2>1. worker[d] = "none" /\ stage[d] = "end"
    BY <1>10, Names DEF Acquired, WorkerInv
  <2>2. UNCHANGED <<loaded, lease, lock, app, asked, closing, stopping, retry, heldOff, usable, loggedIn, granted,
                    others, signalled, duty, wanted, dropped, ends>>
    BY <1>10 DEF Acquired, prod, env, hist
  <2>3. CASE Spawn(d) /\ To(d, "holding")
    BY <2>1, <2>2, <2>3, SpawnKeeps, Names DEF Shapes, DriverOK, WorkerInv, SignalInv, To, Stages
  <2>4. CASE To(d, "handback") /\ UNCHANGED <<driver, worker>>
    BY <2>1, <2>2, <2>4, Names DEF Shapes, DriverOK, LiveHoldsTheLock, WorkerInv, SignalInv, To,
       Stages, HandBack
  <2> QED
    BY <1>10, <2>3, <2>4 DEF Acquired
<1>11. CASE DidStop(d)
  <2>1. DriverOK(driver', worker')
    BY <1>11, Names DEF DidStop, shared, Shapes, LiveHoldsTheLock, DriverOK
  <2> QED
    BY <1>11, <2>1, Names DEF DidStop, Shapes, DriverOK, WorkerInv, SignalInv, shared, prod, env,
       hist, To, Stages, HandBack
<1>12. CASE Exits(d)
  <2>1. worker[d] = "none" /\ stage[d] \in {"last", "lastboot"}
    BY <1>12, Names DEF Exits, WorkerInv
  <2>2. /\ Left(d, driver) /\ To(d, "done") /\ loaded' \in BOOLEAN
        /\ UNCHANGED <<lease, lock, usable, loggedIn, granted, signalled, duty, wanted, dropped, ends>>
    BY <1>12 DEF Exits, env, hist, Shapes
  <2> QED
    BY <2>1, <2>2, LeftKeeps, Names DEF Shapes, DriverOK, WorkerInv, SignalInv, To, Stages
<1> QED
  BY <1>1, <1>2, <1>3, <1>4, <1>5, <1>6, <1>7, <1>8, <1>9, <1>10, <1>11, <1>12 DEF DebugStep,
     SessionProceeds

LEMMA DiesKeepsShapes ==
  ASSUME Shapes, LiveHoldsTheLock, WorkerInv, SignalInv, NEW a \in Apps, Dies(a), ends' \in 0..MaxEnds
  PROVE  Shapes' /\ DriverOK(driver', worker') /\ WorkerInv' /\ SignalInv'
<1>1. /\ lock' \in Debuggers \cup {None} /\ stage' \in [Callers -> Stages]
      /\ signalled' \in [Callers -> BOOLEAN] /\ duty' \in [Callers -> BOOLEAN]
      /\ dropped' \in BOOLEAN
      /\ UNCHANGED <<loaded, lease, usable, loggedIn, granted, wanted>>
  BY Names DEF Dies, env, Shapes, To, Stages
<1>2. \A d \in Debuggers \ {a} : stage'[d] = stage[d]
  BY Names DEF Dies, To, Shapes
<1>3. \A c \in Callers : signalled'[c] => signalled[c]
  BY Names DEF Dies, Shapes
<1>4. DriverOK(driver', worker') /\ WorkerInv' /\ SignalInv'
  BY <1>2, <1>3, DiesKeeps, Names DEF WorkerInv, SignalInv
<1> QED
  BY <1>1, <1>4, DiesKeeps DEF Shapes, DriverOK

\* A caller moves on, and drivers are left alone.
LEMMA MovesOn ==
  ASSUME Shapes, LiveHoldsTheLock, WorkerInv, SignalInv, NEW c \in Callers, NEW s \in Stages,
         stage[c] # "holding", stage' = [stage EXCEPT ![c] = s],
         UNCHANGED <<driver, worker, signalled>>
  PROVE  /\ stage' \in [Callers -> Stages]
         /\ DriverOK(driver', worker') /\ WorkerInv' /\ SignalInv'
<1>1. stage' \in [Callers -> Stages]
  BY DEF Shapes
<1>2. WorkerInv'
  BY Names DEF Shapes, WorkerInv
<1>3. DriverOK(driver', worker') /\ SignalInv'
  BY DEF Shapes, LiveHoldsTheLock, SignalInv, DriverOK
<1> QED
  BY <1>1, <1>2, <1>3

LEMMA CallersKeepShapes ==
  ASSUME Shapes, LiveHoldsTheLock, WorkerInv, SignalInv, NEW c \in Callers, Proceeds(c) \/ GivesUp(c)
  PROVE  Shapes' /\ DriverOK(driver', worker') /\ WorkerInv' /\ SignalInv'
<1>1. CASE Bootout(c)
  <2>1. /\ loaded' = FALSE /\ stage[c] = "bootout" /\ stage' = [stage EXCEPT ![c] = "ask"]
        /\ UNCHANGED <<lease, lock, driver, app, asked, closing, worker, stopping, retry, heldOff,
                       usable, loggedIn, granted, others, signalled, duty, wanted, dropped, ends>>
    BY <1>1 DEF Bootout, To, apps, prod, env, hist
  <2>2. "ask" \in Stages
    BY DEF Stages, Stopping, Acquiring
  <2>3. stage' \in [Callers -> Stages] /\ DriverOK(driver', worker') /\ WorkerInv' /\ SignalInv'
    BY <2>1, <2>2, MovesOn
  <2> QED
    BY <2>1, <2>3, ZenonT(40) DEF Shapes
<1>2. CASE DriverStopped(c)
  BY <1>2, Names DEF DriverStopped, Shapes, DriverOK, LiveHoldsTheLock, WorkerInv, SignalInv,
     shared, apps, prod, env, calls, hist, To, Stages, Stopping, Resuming, Acquiring, HandBack
<1>3. CASE GivesUp(c)
  BY <1>3, Names DEF GivesUp, Shapes, DriverOK, LiveHoldsTheLock, WorkerInv, SignalInv, shared,
     apps, prod, env, calls, hist, To, Stages, Stopping, Resuming, Acquiring, HandBack
<1>4. CASE Ask(c)
  <2>1. others' \in [Callers -> SUBSET Apps] /\ asked' \in [Apps -> BOOLEAN]
    BY <1>4 DEF Ask, Running, Shapes
  <2> QED
    BY <1>4, <2>1, Names DEF Ask, Shapes, DriverOK, LiveHoldsTheLock, WorkerInv, SignalInv,
       shared, apps, prod, env, calls, hist, To, Stages, Stopping, Resuming, Acquiring, HandBack
<1>5. CASE AskDriver(c)
  <2>1. CASE driver = None
    BY <1>5, <2>1, Names DEF AskDriver, Shapes, DriverOK, LiveHoldsTheLock, WorkerInv, SignalInv,
       shared, apps, prod, env, calls, hist, To, Stages, Stopping, Resuming, Acquiring, HandBack
  <2>2. CASE driver # None
    <3>1. /\ driver' = [driver EXCEPT !.stopping = TRUE] /\ To(c, "driver")
          /\ signalled' = [signalled EXCEPT ![c] = TRUE]
          /\ UNCHANGED <<loaded, lease, lock, app, asked, closing, worker, stopping, retry, heldOff,
                         usable, loggedIn, granted, others, duty, wanted, dropped, ends>>
          /\ stage[c] # "holding"
      BY <1>5, <2>2 DEF AskDriver, apps, prod, env, hist
    <3>2. driver' # None /\ driver'.by = driver.by
          /\ driver' \in [by : Apps \cup {Orphan}, stopping : BOOLEAN]
      BY <2>2, <3>1, DriverAsked DEF Shapes
    <3> QED
      BY <2>2, <3>1, <3>2, Names DEF Shapes, DriverOK, LiveHoldsTheLock, WorkerInv, SignalInv,
         shared, apps, prod, env, calls, hist, To, Stages, Stopping, Resuming, Acquiring, HandBack
  <2> QED
    BY <2>1, <2>2
<1>6. CASE KillDriver(c)
  <2>1. driver # None /\ DriverGone
    BY <1>6 DEF KillDriver, SignalInv
  <2> QED
    BY <1>6, <2>1, GoneKeeps, Names DEF KillDriver, DriverGone, Shapes, DriverOK, WorkerInv,
       SignalInv, prod, env, hist
<1>7. CASE ForceQuit(c)
  <2>1. PICK a \in others[c] : Dies(a)
    BY <1>7 DEF ForceQuit
  <2>2. a \in Apps /\ ends' \in 0..MaxEnds
    BY <1>7, <2>1 DEF ForceQuit, Shapes
  <2> QED
    BY <2>1, <2>2, DiesKeepsShapes
<1>8. CASE ResumeChecks(c)
  <2>1. /\ UNCHANGED <<loaded, lease, driver, app, asked, closing, worker, stopping, retry, heldOff,
                       usable, loggedIn, granted, others, signalled, dropped, ends>>
        /\ stage[c] = "resume"
        /\ \E s \in Stages : stage' = [stage EXCEPT ![c] = s]
        /\ lock' \in Debuggers \cup {None} /\ duty' \in [Callers -> BOOLEAN]
        /\ wanted' \in BOOLEAN
    BY <1>8 DEF ResumeChecks, Resumed, Release, To, apps, prod, env, Shapes, DevelopmentActive,
       Stages, Resuming, HandBack
  <2>2. stage' \in [Callers -> Stages] /\ DriverOK(driver', worker') /\ WorkerInv' /\ SignalInv'
    BY <2>1, MovesOn
  <2> QED
    BY <2>1, <2>2 DEF Shapes
<1>9. CASE Bootstrap(c)
  BY <1>9, Names DEF Bootstrap, Resumed, Release, DevelopmentActive, Shapes, DriverOK,
     LiveHoldsTheLock, WorkerInv, SignalInv, shared, apps, prod, env, calls, hist, To, Stages,
     Stopping, Resuming, Acquiring, HandBack
<1> QED
  BY <1>1, <1>2, <1>3, <1>4, <1>5, <1>6, <1>7, <1>8, <1>9 DEF Proceeds

LEMMA CommandsKeepShapes ==
  ASSUME Shapes, LiveHoldsTheLock, WorkerInv, SignalInv, NEW c \in Commands, Begin(c) \/ CommandStopped(c)
  PROVE  Shapes' /\ DriverOK(driver', worker') /\ WorkerInv' /\ SignalInv'
<1>1. CASE Begin(c)
  <2>1. duty' \in [Callers -> BOOLEAN] /\ stage' \in [Callers -> Stages] /\ wanted' \in BOOLEAN
    BY <1>1, Names DEF Begin, DevelopmentActive, Shapes, To, Stages, Acquiring, HandBack,
       Stopping, Resuming
  <2> QED
    BY <1>1, <2>1, Names DEF Begin, Shapes, DriverOK, LiveHoldsTheLock, WorkerInv, SignalInv,
       shared, apps, prod, env, To
<1>2. CASE CommandStopped(c)
  <2>1. lease' \in {None} \cup [pid : Debuggers, resume : BOOLEAN] /\ stage' \in [Callers -> Stages]
    BY <1>2, Names DEF CommandStopped, Shapes, To, Stages, HandBack, Resuming
  <2> QED
    BY <1>2, <2>1, Names DEF CommandStopped, Shapes, DriverOK, LiveHoldsTheLock, WorkerInv,
       SignalInv, apps, prod, env, hist, To
<1> QED
  BY <1>1, <1>2

LEMMA RecordsKept == Records /\ [Next]_vars => Records'
<1> SUFFICES ASSUME Shapes, LiveHoldsTheLock, WorkerInv, SignalInv, [Next]_vars
             PROVE  Shapes' /\ DriverOK(driver', worker') /\ WorkerInv' /\ SignalInv'
  BY DEF Records, DriverOK, LiveHoldsTheLock
<1>1. CASE ProductionSide
  BY <1>1, ProductionLeavesCallers DEF WorkerInv
<1>2. CASE \E d \in Debuggers : DebugStep(d) \/ SessionProceeds(d)
  BY <1>2, SessionsKeepShapes
<1>3. CASE \E c \in Callers : Proceeds(c) \/ GivesUp(c)
  BY <1>3, CallersKeepShapes
<1>4. CASE \E c \in Commands : Begin(c) \/ CommandStopped(c)
  BY <1>4, CommandsKeepShapes
<1>5. ASSUME NEW a \in Apps, Quit(a) PROVE Shapes' /\ DriverOK(driver', worker') /\ WorkerInv' /\ SignalInv'
  BY <1>5, TakeoverAssumption DEF Quit, Shapes, DriverOK, LiveHoldsTheLock, WorkerInv, SignalInv,
     shared, prod, env, calls, TakeoverAssumption
<1>6. ASSUME NEW a \in Apps, Crash(a) PROVE Shapes' /\ DriverOK(driver', worker') /\ WorkerInv' /\ SignalInv'
  <2>1. Dies(a) /\ ends' \in 0..MaxEnds
    BY <1>6, TakeoverAssumption DEF Crash, Shapes, TakeoverAssumption
  <2> QED
    BY <2>1, DiesKeepsShapes
<1>7. CASE UNCHANGED vars
  BY <1>7 DEF vars, shared, apps, prod, env, calls, hist, Shapes, DriverOK, LiveHoldsTheLock,
     WorkerInv, SignalInv
<1> QED
  BY <1>1, <1>2, <1>3, <1>4, <1>5, <1>6, <1>7 DEF Next, ProductionSide

LEMMA RecordsBegin == Init => Records
<1> SUFFICES ASSUME Init PROVE Records
  OBVIOUS
<1>1. LiveHoldsTheLock /\ WorkerInv /\ SignalInv
  BY Names DEF Init, LiveHoldsTheLock, WorkerInv, SignalInv
<1>2. "idle" \in Stages /\ ends \in 0..MaxEnds
  BY TakeoverAssumption DEF Init, Stages, TakeoverAssumption
<1>3. /\ asked \in [Apps -> BOOLEAN] /\ closing \in [Apps -> BOOLEAN] /\ stopping \in [Apps -> BOOLEAN]
      /\ signalled \in [Callers -> BOOLEAN] /\ duty \in [Callers -> BOOLEAN]
  BY DEF Init
<1> QED
  BY <1>1, <1>2, <1>3 DEF Init, Records, Shapes

LEMMA RecordsAlways == Spec => []Records
BY RecordsBegin, RecordsKept, PTL DEF Spec

\* The records of launchd, the lease, the locks and the apps keep their shapes; and an app's
\* Process runs exactly while its supervisor holds the driver lock.
THEOREM TypeCorrect == Spec => []TypeOK
<1>1. Records => TypeOK
  BY TypeSplits DEF Records
<1> QED
  BY <1>1, RecordsAlways, PTL

-----------------------------------------------------------------------------
(* Production looks again. *)

\* Without regard to the lease: production that may use the dock and has no Process has its
\* timer set, unless it last looked while it was kept off.
StrandInv ==
  /\ retry => app[Production] = "up"
  /\ app[Production] = "up" /\ ~closing[Production] /\ usable /\ worker[Production] = "none"
      => retry \/ heldOff

\* Each branch of reconcile that starts nothing sets the timer or saw what keeps it off.
LEMMA ReconcileLooksAgain ==
  ASSUME Shapes, NEW u \in BOOLEAN, Reconcile(u), u, worker'[Production] = "none"
  PROVE  retry' \/ heldOff'
<1>1. CASE KeptOff
  BY <1>1 DEF Reconcile
<1>2. CASE ~KeptOff /\ ~granted
  BY <1>2 DEF Reconcile, Eligible, KeptOff
<1>3. CASE ~KeptOff /\ granted /\ worker[Production] # "none"
  <2>1. UNCHANGED worker
    BY <1>3 DEF Reconcile, Eligible, KeptOff
  <2> QED
    BY <1>3, <2>1
<1>4. CASE ~KeptOff /\ granted /\ worker[Production] = "none"
  <2>1. Spawn(Production) => worker'[Production] # "none"
    BY Names DEF Spawn, Shapes
  <2> QED
    BY <1>4, <2>1 DEF Reconcile, Eligible, KeptOff
<1> QED
  BY <1>1, <1>2, <1>3, <1>4

LEMMA StrandKept == Records /\ StrandInv /\ [Next]_vars => StrandInv'
<1> SUFFICES ASSUME Records, StrandInv, [Next]_vars PROVE StrandInv'
  OBVIOUS
<1> USE Names DEF Records
<1>1. CASE DriverEnds
  BY <1>1 DEF DriverEnds, DriverGone, StrandInv, prod, env, Shapes
<1>2. CASE DeskChanges
  <2>1. CASE app[Production] = "up" /\ ~closing[Production]
    <3>1. Reconcile(usable') /\ usable' \in BOOLEAN /\ UNCHANGED app
      BY <1>2, <2>1 DEF DeskChanges
    <3> QED
      BY <2>1, <3>1, ReconcileLooksAgain DEF StrandInv
  <2>2. CASE ~(app[Production] = "up" /\ ~closing[Production])
    BY <1>2, <2>2 DEF DeskChanges, prod, StrandInv
  <2> QED
    BY <2>1, <2>2
<1>3. CASE Launch \/ RetryFires
  <2>1. Reconcile(usable) /\ usable \in BOOLEAN /\ usable' = usable /\ app'[Production] = "up"
    BY <1>3 DEF Launch, RetryFires, env, Shapes, StrandInv
  <2> QED
    BY <2>1, ReconcileLooksAgain DEF StrandInv
<1>4. CASE ProductionWorkerEnded
  <2>1. CASE closing[Production]
    <3>1. Left(Production, driver)
      BY <1>4, <2>1 DEF ProductionWorkerEnded
    <3> QED
      BY <3>1 DEF Left, Shapes, StrandInv
  <2>2. CASE ~closing[Production]
    BY <1>4, <2>2 DEF ProductionWorkerEnded, Eligible, KeptOff, StrandInv, env, Shapes
  <2> QED
    BY <2>1, <2>2
<1>5. CASE ProductionQuits
  <2>1. CASE worker[Production] = "live"
    BY <1>5, <2>1 DEF ProductionQuits, Shapes, StrandInv
  <2>2. CASE worker[Production] # "live"
    <3>1. Left(Production, driver)
      BY <1>5, <2>2 DEF ProductionQuits
    <3> QED
      BY <3>1 DEF Left, Shapes, StrandInv
  <2> QED
    BY <2>1, <2>2
<1>6. CASE ProductionQuitExpires
  <2>1. Left(Production, None)
    BY <1>6 DEF ProductionQuitExpires
  <2> QED
    BY <2>1 DEF Left, Shapes, StrandInv
\* Everybody else either leaves production's records alone or ends it.
<1>7. CASE UNCHANGED <<retry, heldOff, usable>> /\ app'[Production] = app[Production]
           /\ closing'[Production] = closing[Production]
           /\ (worker'[Production] = "none" => worker[Production] = "none")
  BY <1>7 DEF StrandInv
<1>8. ASSUME NEW a \in Apps, Dies(a) PROVE StrandInv'
  <2>1. PICK drv : Left(a, drv)
    BY <1>8 DEF Dies
  <2>2. CASE a = Production
    BY <2>1, <2>2 DEF Left, Shapes, StrandInv
  <2>3. CASE a # Production
    <3>1. usable' = usable
      BY <1>8 DEF Dies, env
    <3> QED
      BY <2>1, <2>3, <3>1 DEF Left, Shapes, StrandInv, prod
  <2> QED
    BY <2>2, <2>3
<1>9. ASSUME NEW d \in Debuggers, DebugStep(d) \/ SessionProceeds(d) PROVE StrandInv'
  <2>1. CASE Exits(d)
    <3>1. Left(d, driver) /\ usable' = usable
      BY <2>1 DEF Exits, env
    <3> QED
      BY <3>1 DEF Left, Shapes, StrandInv, prod
  <2>2. CASE KillOwn(d)
    BY <2>2, <1>7 DEF KillOwn, DriverGone, prod, env, Shapes
  <2>3. CASE Acquired(d)
    BY <2>3, <1>7 DEF Acquired, Spawn, prod, env, Shapes
  <2>4. CASE DebugStep(d) /\ ~KillOwn(d)
    BY <1>7, <2>4 DEF DebugStep, OpenDebug, TakeLock, UserStops, DebugQuits, DebugQuitExpires,
       apps, prod, env, Shapes
  <2>5. CASE SessionProceeds(d) /\ ~Acquired(d) /\ ~Exits(d)
    BY <1>7, <2>5 DEF SessionProceeds, WriteLease, DidStop, HandsBack, LastResume, apps, prod,
       env, Shapes
  <2> QED
    BY <1>9, <2>1, <2>2, <2>3, <2>4, <2>5 DEF DebugStep, SessionProceeds
<1>10. ASSUME NEW c \in Callers, Proceeds(c) \/ GivesUp(c) PROVE StrandInv'
  <2>1. CASE ForceQuit(c)
    <3>1. PICK a \in others[c] : Dies(a)
      BY <2>1 DEF ForceQuit
    <3> QED
      BY <1>8, <3>1 DEF Shapes
  <2>2. CASE KillDriver(c)
    BY <2>2, <1>7 DEF KillDriver, DriverGone, prod, env, Shapes
  <2>3. CASE (Proceeds(c) \/ GivesUp(c)) /\ ~ForceQuit(c) /\ ~KillDriver(c)
    BY <2>3, <1>7 DEF Proceeds, GivesUp, Bootout, Ask, AskDriver, DriverStopped, ResumeChecks,
       Bootstrap, shared, apps, prod, env
  <2> QED
    BY <1>10, <2>1, <2>2, <2>3
<1>11. ASSUME NEW c \in Commands, Begin(c) \/ CommandStopped(c) PROVE StrandInv'
  BY <1>7, <1>11 DEF Begin, CommandStopped, apps, prod, env
<1>12. ASSUME NEW a \in Apps, Quit(a) \/ Crash(a) PROVE StrandInv'
  BY <1>7, <1>8, <1>12 DEF Quit, Crash, prod, env
<1>13. CASE PermissionChanges \/ LoginDone \/ UNCHANGED vars
  BY <1>7, <1>13 DEF PermissionChanges, LoginDone, vars, apps, prod, env
<1> QED
  BY <1>1, <1>2, <1>3, <1>4, <1>5, <1>6, <1>9, <1>10, <1>11, <1>12, <1>13 DEF Next, ProductionStep

\* A production app that could drive the dock and does not will look again, whatever the
\* debug apps and the commands do, one at a time or not; unless it last looked while a session
\* had the dock or before login was done.
THEOREM ProductionIsNotStranded == Spec => []NeverStranded
<1>1. Init => StrandInv
  BY Names DEF Init, StrandInv
<1>2. StrandInv => NeverStranded
  BY DEF StrandInv, NeverStranded, Eligible, KeptOff
<1> QED
  BY <1>1, <1>2, StrandKept, RecordsAlways, PTL DEF Spec

-----------------------------------------------------------------------------
(* A session has the dock to itself. *)

SessionStages == {"leasing"} \cup Stopping \cup {"holding", "handback"}

\* A session is a live process that holds the lease's lock, and from its first stop on the
\* lease names it.
SessionInv ==
  /\ \A a \in Apps : asked[a] => app[a] = "up"
  /\ \A d \in Debuggers :
       /\ stage[d] \notin {"idle", "done", "failed"} => app[d] = "up"
       /\ stage[d] \in SessionStages \cup Resuming => lock = d
       /\ stage[d] \in SessionStages \ {"leasing"} => lease # None /\ lease.pid = d

\* recover-debug does not run beside a session.
RecoverInv ==
  "recover" \in Commands /\ Busy("recover") =>
    \A d \in Debuggers : stage[d] \notin SessionStages

\* What a death does to the session's records.
LEMMA DiesMoves ==
  ASSUME Records, NEW a \in Apps, Dies(a)
  PROVE  /\ \A b \in Apps \ {a} : app'[b] = app[b] /\ asked'[b] = asked[b]
         /\ app'[a] # "up" /\ ~asked'[a]
         /\ lock' = IF lock = a THEN None ELSE lock
         /\ lease' = lease
         /\ \A c \in Callers : stage'[c] = IF c = a THEN "done" ELSE stage[c]
<1>1. PICK drv : Left(a, drv)
  BY DEF Dies
<1>2. /\ \A b \in Apps \ {a} : app'[b] = app[b] /\ asked'[b] = asked[b]
      /\ app'[a] # "up" /\ ~asked'[a]
  BY <1>1 DEF Left, Records, Shapes
<1>3. lock' = (IF lock = a THEN None ELSE lock) /\ lease' = lease
  BY DEF Dies
<1>4. CASE a \in Debuggers
  <2>1. stage' = [stage EXCEPT ![a] = "done"] /\ stage \in [Callers -> Stages]
    BY <1>4 DEF Dies, Records, Shapes, To
  <2> QED
    BY <1>2, <1>3, <2>1
<1>5. CASE a \notin Debuggers
  <2>1. stage' = stage /\ a = Production
    BY <1>5 DEF Dies, Apps
  <2>2. Production \notin Callers
    BY TakeoverAssumption DEF TakeoverAssumption, Callers
  <2> QED
    BY <1>2, <1>3, <2>1, <2>2
<1> QED
  BY <1>4, <1>5

LEMMA SessionKept ==
  ASSUME Records, SessionInv, RecoverInv, [Next]_vars
  PROVE  SessionInv'
<1> USE Names DEF Records
<1>1. CASE ProductionSide
  <2>1. /\ UNCHANGED <<stage, lock, lease>>
        /\ \A d \in Debuggers : app'[d] = app[d]
    BY <1>1, ProductionLeavesCallers
  <2>2. \A a \in Apps : asked'[a] => app'[a] = "up"
    BY <1>1 DEF ProductionSide, ProductionStep, DriverEnds, DeskChanges, PermissionChanges, LoginDone,
       Launch, RetryFires, ProductionWorkerEnded, ProductionQuits, ProductionQuitExpires, Left,
       SessionInv, Shapes, apps
  <2> QED
    BY <2>1, <2>2 DEF SessionInv
<1>2. ASSUME NEW d \in Debuggers, DebugStep(d) PROVE SessionInv'
  <2>1. CASE OpenDebug(d)
    BY <2>1 DEF OpenDebug, SessionInv, Shapes, shared, calls
  <2>2. CASE TakeLock(d)
    <3>1. /\ app[d] = "up" /\ stage[d] = "idle" /\ lock = None /\ lock' = d
          /\ stage' = [stage EXCEPT ![d] = "leasing"] /\ UNCHANGED <<lease, app, asked>>
      BY <2>2 DEF TakeLock, apps, To
    <3> QED
      BY <3>1 DEF SessionInv, Shapes, SessionStages, Stopping, Resuming
  <2>3. CASE UserStops(d) \/ KillOwn(d)
    BY <2>3 DEF UserStops, KillOwn, SessionInv, calls
  <2>4. CASE DebugQuits(d)
    BY <2>4 DEF DebugQuits, SessionInv, Shapes, SessionStages, Stopping, Resuming, To
  <2>5. CASE DebugQuitExpires(d)
    BY <2>5 DEF DebugQuitExpires, SessionInv, Shapes, SessionStages, Stopping, Resuming, To
  <2> QED
    BY <1>2, <2>1, <2>2, <2>3, <2>4, <2>5 DEF DebugStep
<1>3. ASSUME NEW d \in Debuggers, SessionProceeds(d) PROVE SessionInv'
  <2>1. CASE WriteLease(d)
    <3>1. lease' \in [pid : Debuggers, resume : BOOLEAN] /\ lease'.pid = d
      BY <2>1 DEF WriteLease, Shapes
    <3>2. lease' # None
      BY <3>1, TakeoverAssumption DEF TakeoverAssumption
    <3>3. stage[d] = "leasing" /\ stage' = [stage EXCEPT ![d] = "bootout"] /\ UNCHANGED <<lock, app, asked>>
      BY <2>1 DEF WriteLease, apps, To
    <3> QED
      BY <3>1, <3>2, <3>3 DEF SessionInv, Shapes, SessionStages, Stopping, Resuming
  <2>2. CASE Acquired(d) \/ DidStop(d) \/ LastResume(d)
    BY <2>2 DEF Acquired, DidStop, LastResume, SessionInv, Shapes, SessionStages, Stopping,
       Resuming, shared, apps, To
  <2>3. CASE HandsBack(d)
    BY <2>3 DEF HandsBack, Release, SessionInv, Shapes, SessionStages, Stopping, Resuming, apps,
       To
  <2>4. CASE Exits(d)
    BY <2>4 DEF Exits, Left, SessionInv, Shapes, SessionStages, Stopping, Resuming, To
  <2> QED
    BY <1>3, <2>1, <2>2, <2>3, <2>4 DEF SessionProceeds
<1>4. ASSUME NEW a \in Apps, Dies(a) PROVE SessionInv'
  BY <1>4, DiesMoves DEF SessionInv, SessionStages, Stopping, Resuming
<1>5. ASSUME NEW c \in Callers, Proceeds(c) \/ GivesUp(c) PROVE SessionInv'
  <2>1. CASE ForceQuit(c)
    <3>1. PICK a \in others[c] : Dies(a)
      BY <2>1 DEF ForceQuit
    <3> QED
      BY <1>4, <3>1 DEF Shapes
  <2>2. CASE Bootout(c) \/ AskDriver(c) \/ DriverStopped(c) \/ KillDriver(c) \/ GivesUp(c)
    BY <2>2 DEF Bootout, AskDriver, DriverStopped, KillDriver, GivesUp, SessionInv, Shapes,
       SessionStages, Stopping, Resuming, shared, apps, To
  <2>3. CASE Ask(c)
    BY <2>3 DEF Ask, Running, SessionInv, Shapes, SessionStages, Stopping, Resuming, shared, To
  <2>4. CASE ResumeChecks(c) \/ Bootstrap(c)
    BY <2>4 DEF ResumeChecks, Bootstrap, Resumed, Release, SessionInv, Shapes, SessionStages,
       Stopping, Resuming, apps, To
  <2> QED
    BY <1>5, <2>1, <2>2, <2>3, <2>4 DEF Proceeds
<1>6. ASSUME NEW c \in Commands, Begin(c) \/ CommandStopped(c) PROVE SessionInv'
  <2>1. CASE Begin(c)
    BY <2>1 DEF Begin, SessionInv, Shapes, SessionStages, Stopping, Resuming, shared, apps, To
  <2>2. CASE CommandStopped(c)
    <3>1. /\ UNCHANGED <<lock, app, asked>> /\ stage[c] = "end"
          /\ \A d \in Debuggers : stage'[d] = stage[d]
          /\ lease' = lease \/ c = "recover"
      BY <2>2 DEF CommandStopped, apps, To, Shapes
    <3>2. c = "recover" => Busy("recover")
      BY <3>1 DEF Busy
    <3> QED
      BY <3>1, <3>2 DEF SessionInv, RecoverInv, SessionStages
  <2> QED
    BY <1>6, <2>1, <2>2
<1>7. ASSUME NEW a \in Apps, Quit(a) \/ Crash(a) PROVE SessionInv'
  BY <1>4, <1>7 DEF Quit, Crash, SessionInv, Shapes, shared, calls
<1>8. CASE UNCHANGED vars
  BY <1>8 DEF vars, shared, apps, calls, SessionInv
<1> QED
  BY <1>1, <1>2, <1>3, <1>5, <1>6, <1>7, <1>8 DEF Next, ProductionSide

\* A session that has begun is a live one, and the only one.
LEMMA SessionIsAlone ==
  ASSUME SessionInv, NEW d \in Debuggers, stage[d] \in SessionStages \ {"leasing"}
  PROVE  /\ DevelopmentActive
         /\ \A e \in Debuggers \ {d} : stage[e] \notin SessionStages \cup Resuming
BY DEF SessionInv, SessionStages, Stopping, Resuming, DevelopmentActive

LEMMA RecoverKept ==
  ASSUME Alone, Records, SessionInv, RecoverInv, [Next]_vars
  PROVE  RecoverInv'
<1> USE Names DEF Records
<1> SUFFICES ASSUME "recover" \in Commands, Busy("recover")', NEW e \in Debuggers
             PROVE  stage'[e] \notin SessionStages
  BY DEF RecoverInv
<1>1. CASE /\ stage'["recover"] = stage["recover"]
           /\ stage'[e] \in SessionStages => stage[e] \in SessionStages
  BY <1>1 DEF RecoverInv, Busy
<1>2. CASE ProductionSide \/ UNCHANGED vars
  BY <1>1, <1>2, ProductionLeavesCallers DEF vars, calls
<1>3. ASSUME NEW d \in Debuggers, DebugStep(d) PROVE stage'[e] \notin SessionStages
  <2>1. CASE TakeLock(d)
    <3>1. ~Busy("recover") /\ stage' = [stage EXCEPT ![d] = "leasing"]
      BY <2>1 DEF TakeLock, To
    <3> QED
      BY <3>1 DEF Busy, Shapes
  <2>2. CASE DebugStep(d) /\ ~TakeLock(d)
    BY <1>1, <2>2 DEF DebugStep, OpenDebug, UserStops, KillOwn, DebugQuits, DebugQuitExpires,
       calls, To, Shapes, SessionStages, Stopping
  <2> QED
    BY <1>3, <2>1, <2>2
<1>4. ASSUME NEW d \in Debuggers, SessionProceeds(d) PROVE stage'[e] \notin SessionStages
  BY <1>1, <1>4 DEF SessionProceeds, WriteLease, Acquired, DidStop, HandsBack, LastResume, Exits,
     Release, To, Shapes, SessionStages, Stopping
<1>5. ASSUME NEW a \in Apps, Dies(a) PROVE stage'[e] \notin SessionStages
  <2>1. stage'["recover"] = stage["recover"]
    BY <1>5, DiesMoves, TakeoverAssumption DEF TakeoverAssumption, Apps, Callers
  <2>2. stage'[e] = stage[e] \/ stage'[e] = "done"
    BY <1>5, DiesMoves
  <2> QED
    BY <1>1, <2>1, <2>2 DEF SessionStages, Stopping
<1>6. ASSUME NEW c \in Callers, Proceeds(c) \/ GivesUp(c) PROVE stage'[e] \notin SessionStages
  <2>1. CASE ForceQuit(c)
    <3>1. PICK a \in others[c] : Dies(a)
      BY <2>1 DEF ForceQuit
    <3> QED
      BY <1>5, <3>1 DEF Shapes
  <2>2. CASE (Proceeds(c) \/ GivesUp(c)) /\ ~ForceQuit(c)
    <3>1. /\ \E s \in Stages : stage' = [stage EXCEPT ![c] = s] \/ stage' = stage
          /\ stage[c] \in Stopping \cup Resuming
          /\ stage'[c] \in SessionStages => stage[c] \in Stopping
      BY <2>2 DEF Proceeds, GivesUp, Bootout, Ask, AskDriver, DriverStopped, KillDriver,
         ResumeChecks, Bootstrap, Resumed, Release, To, Shapes, Stages, SessionStages, Stopping,
         Resuming, Acquiring, HandBack
    <3>2. CASE c = "recover"
      <4>1. Busy("recover")
        BY <3>1, <3>2 DEF Busy, Stopping, Resuming
      <4>2. stage \in [Callers -> Stages]
        BY DEF Shapes
      <4>3. stage'[e] = stage[e]
        BY <3>1, <3>2, <4>2, TakeoverAssumption DEF TakeoverAssumption
      <4> QED
        BY <4>1, <4>3 DEF RecoverInv
    <3>3. CASE c # "recover"
      BY <1>1, <3>1, <3>3 DEF Shapes, SessionStages
    <3> QED
      BY <3>2, <3>3
  <2> QED
    BY <1>6, <2>1, <2>2
<1>7. ASSUME NEW c \in Commands, Begin(c) \/ CommandStopped(c) PROVE stage'[e] \notin SessionStages
  <2>0. stage'[e] = stage[e] /\ (c # "recover" => stage'["recover"] = stage["recover"])
    BY <1>7 DEF Begin, CommandStopped, To, Shapes
  <2>1. CASE Begin(c) /\ c = "recover"
    <3>1. ~DevelopmentActive
      BY <2>1 DEF Begin, Busy, To, Shapes
    <3>2. stage[e] # "leasing"
      BY <2>1 DEF Begin
    <3> QED
      BY <2>0, <3>1, <3>2, SessionIsAlone
  <2>2. CASE CommandStopped(c) /\ c = "recover"
    BY <2>0, <2>2 DEF CommandStopped, Busy, RecoverInv
  <2> QED
    BY <1>1, <1>7, <2>0, <2>1, <2>2
<1>8. ASSUME NEW a \in Apps, Quit(a) \/ Crash(a) PROVE stage'[e] \notin SessionStages
  BY <1>1, <1>5, <1>8 DEF Quit, Crash, calls
<1> QED
  BY <1>2, <1>3, <1>4, <1>6, <1>7, <1>8 DEF Next, ProductionSide

\* From the moment what drove the dock is gone, nobody but the session starts a driver.
DockInv == \A d \in Debuggers :
  /\ stage[d] = "end" => driver = None
  /\ stage[d] = "driver" /\ ~signalled[d] => driver = None
  /\ stage[d] = "holding" => driver = None \/ driver.by = d

LEMMA DockKept ==
  ASSUME Records, SessionInv, DockInv, [Next]_vars
  PROVE  DockInv'
<1> USE Names DEF Records
<1>1. CASE ProductionSide
  <2>1. ASSUME NEW d \in Debuggers
        PROVE  /\ stage'[d] = "end" => driver' = None
               /\ stage'[d] = "driver" /\ ~signalled'[d] => driver' = None
               /\ stage'[d] = "holding" => driver' = None \/ driver'.by = d
    BY <1>1, <2>1, ProductionLeavesCallers, SessionIsAlone DEF DockInv, SessionStages, Stopping
  <2> QED
    BY <2>1 DEF DockInv
<1>2. ASSUME NEW d \in Debuggers, DebugStep(d) PROVE DockInv'
  <2>1. CASE OpenDebug(d) \/ TakeLock(d)
    BY <2>1 DEF OpenDebug, TakeLock, shared, calls, To, DockInv, Shapes
  <2>2. CASE UserStops(d) \/ DebugQuits(d)
    <3>1. CASE StopOwn(d)
      <4>1. driver' = driver \/ (driver # None /\ driver' # None /\ driver'.by = driver.by)
        BY <3>1, StopOwnKeeps
      <4> QED
        BY <2>2, <4>1 DEF UserStops, DebugQuits, calls, To, DockInv, Shapes
    <3>2. CASE UNCHANGED driver
      BY <2>2, <3>2 DEF UserStops, DebugQuits, calls, To, DockInv, Shapes
    <3> QED
      BY <2>2, <3>1, <3>2 DEF UserStops, DebugQuits
  <2>3. CASE KillOwn(d)
    BY <2>3 DEF KillOwn, DriverGone, DockInv
  <2>4. CASE DebugQuitExpires(d)
    BY <2>4 DEF DebugQuitExpires, To, DockInv, Shapes
  <2> QED
    BY <1>2, <2>1, <2>2, <2>3, <2>4 DEF DebugStep
<1>3. ASSUME NEW d \in Debuggers, SessionProceeds(d) PROVE DockInv'
  <2>1. CASE Acquired(d)
    <3>1. \A e \in Debuggers \ {d} : stage[e] \notin SessionStages
      BY <2>1, SessionIsAlone DEF Acquired, SessionStages, Stopping
    <3>2. /\ driver = None /\ (driver' = None \/ driver'.by = d)
          /\ \E s \in {"holding", "handback"} : stage' = [stage EXCEPT ![d] = s]
      BY <2>1 DEF Acquired, Spawn, To, DockInv
    <3> QED
      BY <3>1, <3>2 DEF DockInv, Shapes, SessionStages, Stopping
  <2>2. CASE SessionProceeds(d) /\ ~Acquired(d)
    <3>1. /\ UNCHANGED <<driver, signalled>>
          /\ \E s \in Stages \ {"end", "driver", "holding"} : stage' = [stage EXCEPT ![d] = s]
      BY <2>2 DEF SessionProceeds, WriteLease, DidStop, HandsBack, LastResume, Exits, Left,
         Release, To, Stages, Stopping, Resuming, Acquiring, HandBack, shared
    <3> QED
      BY <3>1 DEF DockInv, Shapes
  <2> QED
    BY <1>3, <2>1, <2>2
<1>4. ASSUME NEW a \in Apps, Dies(a) PROVE DockInv'
  <2>1. \/ driver' = driver
        \/ driver # None /\ driver.by = a /\ driver' # None /\ driver'.by = Orphan
    BY <1>4, DiesKeeps
  <2>2. \A d \in Debuggers : stage'[d] = IF d = a THEN "done" ELSE stage[d]
    BY <1>4, DiesMoves
  <2>3. \A d \in Debuggers \ {a} : signalled'[d] = signalled[d]
    BY <1>4 DEF Dies, Shapes
  <2> QED
    BY <2>1, <2>2, <2>3 DEF DockInv
<1>5. ASSUME NEW c \in Callers, Proceeds(c) \/ GivesUp(c) PROVE DockInv'
  <2>1. CASE ForceQuit(c)
    <3>1. PICK a \in others[c] : Dies(a)
      BY <2>1 DEF ForceQuit
    <3> QED
      BY <1>4, <3>1 DEF Shapes
  <2>2. CASE AskDriver(c)
    <3>1. CASE driver = None
      BY <2>2, <3>1 DEF AskDriver, To, DockInv, Shapes
    <3>2. CASE driver # None
      <4>1. driver' # None /\ driver'.by = driver.by
        BY <2>2, <3>2, DriverAsked DEF AskDriver, Shapes
      <4>2. stage' = [stage EXCEPT ![c] = "driver"] /\ signalled' = [signalled EXCEPT ![c] = TRUE]
        BY <2>2, <3>2 DEF AskDriver, To
      <4> QED
        BY <3>2, <4>1, <4>2 DEF DockInv, Shapes
    <3> QED
      BY <3>1, <3>2
  <2>3. CASE DriverStopped(c)
    BY <2>3 DEF DriverStopped, shared, To, DockInv, Shapes
  <2>4. CASE KillDriver(c)
    BY <2>4 DEF KillDriver, DriverGone, DockInv
  <2>5. CASE (Proceeds(c) \/ GivesUp(c)) /\ ~(ForceQuit(c) \/ AskDriver(c) \/ DriverStopped(c) \/ KillDriver(c))
    <3>1. /\ UNCHANGED <<driver, signalled>>
          /\ \E s \in Stages \ {"end", "driver", "holding"} : stage' = [stage EXCEPT ![c] = s]
      BY <2>5 DEF Proceeds, GivesUp, Bootout, Ask, ResumeChecks, Bootstrap, Resumed, Release, To,
         Stages, Stopping, Resuming, Acquiring, HandBack, shared
    <3> QED
      BY <3>1 DEF DockInv, Shapes
  <2> QED
    BY <1>5, <2>1, <2>2, <2>3, <2>4, <2>5
<1>6. ASSUME NEW c \in Commands, Begin(c) \/ CommandStopped(c) PROVE DockInv'
  BY <1>6 DEF Begin, CommandStopped, shared, To, DockInv, Shapes
<1>7. ASSUME NEW a \in Apps, Quit(a) \/ Crash(a) PROVE DockInv'
  BY <1>4, <1>7 DEF Quit, Crash, shared, calls, DockInv
<1>8. CASE UNCHANGED vars
  BY <1>8 DEF vars, shared, calls, DockInv
<1> QED
  BY <1>1, <1>2, <1>3, <1>5, <1>6, <1>7, <1>8 DEF Next, ProductionSide

LEMMA SessionsBegin == Init => SessionInv /\ RecoverInv /\ DockInv
BY Names DEF Init, SessionInv, RecoverInv, DockInv, SessionStages, Stopping, Resuming, Busy

LEMMA SessionsAlways == ASSUME Alone PROVE Spec => [](SessionInv /\ RecoverInv /\ DockInv)
<1>1. Records /\ SessionInv /\ RecoverInv /\ DockInv /\ [Next]_vars
        => SessionInv' /\ RecoverInv' /\ DockInv'
  BY SessionKept, RecoverKept, DockKept
<1> QED
  BY <1>1, SessionsBegin, RecordsAlways, PTL DEF Spec

\* While commands are given one at a time, a session that has the dock shares it with no other
\* driver, and keeps its lease and its lock from the first stop until it hands back.
THEOREM TheDockIsTheSessions == ASSUME Alone PROVE Spec => []SessionHasTheDock
<1>1. SessionInv /\ DockInv => SessionHasTheDock
  BY DEF SessionInv, DockInv, SessionHasTheDock, SessionStages, Stopping
<1> QED
  BY <1>1, SessionsAlways, PTL

-----------------------------------------------------------------------------
(* What a session unloaded is owed. *)

\* Commands are given one at a time.
OneCommand == \A c, other \in Commands : Busy(c) /\ Busy(other) => c = other

\* A restart waits for every app it asked to quit: it does not get past a session that was on
\* when it began.
RestartInv ==
  "restart" \in Commands => \A d \in Debuggers : stage[d] \in SessionStages =>
    /\ stage["restart"] = "wait" => d \in others["restart"]
    /\ stage["restart"] \notin {"driver", "end"} \cup Resuming

LEMMA OneCommandKept ==
  ASSUME Alone, Records, OneCommand, [Next]_vars
  PROVE  OneCommand'
<1> USE Names DEF Records
<1>1. CASE \A c \in Commands : stage'[c] = stage[c] \/ stage'[c] = "done" \/ Busy(c)
  BY <1>1 DEF OneCommand, Busy
<1>2. CASE ProductionSide \/ UNCHANGED vars
  BY <1>1, <1>2, ProductionLeavesCallers DEF vars, calls
<1>3. ASSUME NEW d \in Debuggers, DebugStep(d) \/ SessionProceeds(d) PROVE OneCommand'
  <2>1. \E s : stage' = [stage EXCEPT ![d] = s] \/ stage' = stage
    BY <1>3 DEF DebugStep, OpenDebug, TakeLock, UserStops, KillOwn, DebugQuits, DebugQuitExpires,
       SessionProceeds, WriteLease, Acquired, DidStop, HandsBack, LastResume, Exits, Release,
       calls, To
  <2> QED
    BY <1>1, <2>1 DEF Shapes
<1>4. ASSUME NEW a \in Apps, Dies(a) PROVE OneCommand'
  BY <1>1, <1>4, DiesMoves
<1>5. ASSUME NEW c \in Callers, Proceeds(c) \/ GivesUp(c) PROVE OneCommand'
  <2>1. CASE ForceQuit(c)
    <3>1. PICK a \in others[c] : Dies(a)
      BY <2>1 DEF ForceQuit
    <3> QED
      BY <1>4, <3>1 DEF Shapes
  <2>2. CASE (Proceeds(c) \/ GivesUp(c)) /\ ~ForceQuit(c)
    <3>1. (\E s : stage' = [stage EXCEPT ![c] = s] \/ stage' = stage) /\ Busy(c)
      BY <2>2 DEF Proceeds, GivesUp, Bootout, Ask, AskDriver, DriverStopped, KillDriver,
         ResumeChecks, Bootstrap, Resumed, Release, To, Busy
    <3> QED
      BY <1>1, <3>1 DEF Shapes
  <2> QED
    BY <1>5, <2>1, <2>2
<1>6. ASSUME NEW c \in Commands, Begin(c) PROVE OneCommand'
  <2>1. \A other \in Commands : ~Busy(other)
    BY <1>6 DEF Begin
  <2>2. \A other \in Commands \ {c} : stage'[other] = stage[other]
    BY <1>6 DEF Begin, To, Shapes
  <2> QED
    BY <2>1, <2>2 DEF OneCommand, Busy
<1>7. ASSUME NEW c \in Commands, CommandStopped(c) PROVE OneCommand'
  BY <1>1, <1>7 DEF CommandStopped, To, Shapes, Busy
<1>8. ASSUME NEW a \in Apps, Quit(a) \/ Crash(a) PROVE OneCommand'
  BY <1>1, <1>4, <1>8 DEF Quit, Crash, calls
<1> QED
  BY <1>2, <1>3, <1>5, <1>6, <1>7, <1>8 DEF Next, ProductionSide

LEMMA RestartKept ==
  ASSUME Alone, Records, SessionInv, RestartInv, [Next]_vars
  PROVE  RestartInv'
<1> USE Names DEF Records
<1> SUFFICES ASSUME "restart" \in Commands, NEW e \in Debuggers, stage'[e] \in SessionStages
             PROVE  /\ stage'["restart"] = "wait" => e \in others'["restart"]
                    /\ stage'["restart"] \notin {"driver", "end"} \cup Resuming
  BY DEF RestartInv
<1> DEFINE Goal == /\ stage'["restart"] = "wait" => e \in others'["restart"]
                   /\ stage'["restart"] \notin {"driver", "end"} \cup Resuming
<1> SUFFICES Goal
  OBVIOUS
<1>1. CASE /\ stage'["restart"] = stage["restart"] /\ stage[e] \in SessionStages
           /\ e \in others["restart"] => e \in others'["restart"]
  BY <1>1 DEF RestartInv
<1>2. CASE ProductionSide \/ UNCHANGED vars
  BY <1>1, <1>2, ProductionLeavesCallers DEF vars, calls
<1>3. ASSUME NEW d \in Debuggers, DebugStep(d) PROVE Goal
  <2>1. CASE TakeLock(d)
    <3>1. ~Busy("restart") /\ stage' = [stage EXCEPT ![d] = "leasing"]
      BY <2>1 DEF TakeLock, To
    <3> QED
      BY <3>1 DEF Busy, Shapes, Resuming
  <2>2. CASE DebugStep(d) /\ ~TakeLock(d)
    BY <1>1, <2>2 DEF DebugStep, OpenDebug, UserStops, KillOwn, DebugQuits, DebugQuitExpires,
       calls, To, Shapes, SessionStages, Stopping
  <2> QED
    BY <1>3, <2>1, <2>2
<1>4. ASSUME NEW d \in Debuggers, SessionProceeds(d) PROVE Goal
  <2>1. CASE Exits(d)
    <3>1. /\ others' = [c \in Callers |-> others[c] \ {d}] /\ stage' = [stage EXCEPT ![d] = "done"]
      BY <2>1 DEF Exits, Left, To
    <3> QED
      BY <1>1, <3>1 DEF Shapes, SessionStages, Stopping
  <2>2. CASE SessionProceeds(d) /\ ~Exits(d)
    BY <1>1, <2>2 DEF SessionProceeds, WriteLease, Acquired, DidStop, HandsBack, LastResume,
       Release, To, Shapes, SessionStages, Stopping, calls
  <2> QED
    BY <1>4, <2>1, <2>2
<1>5. ASSUME NEW a \in Apps, Dies(a) PROVE Goal
  <2>1. stage'["restart"] = stage["restart"]
    BY <1>5, DiesMoves, TakeoverAssumption DEF TakeoverAssumption, Apps, Callers
  <2>2. stage'[e] = stage[e] /\ e # a
    BY <1>5, DiesMoves DEF SessionStages, Stopping
  <2>3. others' = [c \in Callers |-> others[c] \ {a}]
    BY <1>5 DEF Dies, Left
  <2> QED
    BY <1>1, <2>1, <2>2, <2>3
<1>6. ASSUME NEW c \in Callers, Proceeds(c) \/ GivesUp(c) PROVE Goal
  <2>1. CASE ForceQuit(c)
    <3>1. PICK a \in others[c] : Dies(a)
      BY <2>1 DEF ForceQuit
    <3> QED
      BY <1>5, <3>1 DEF Shapes
  <2>2. CASE Ask(c)
    <3>1. CASE c = "restart"
      <4>1. stage[e] \in SessionStages /\ app[e] = "up" /\ e # c
        BY <2>2, <3>1 DEF Ask, To, Shapes, SessionInv, SessionStages, Stopping
      <4>2. e \in Running(c)
        BY <3>1, <4>1 DEF Running, IncludesDebug
      <4> QED
        BY <2>2, <3>1, <4>2 DEF Ask, To, Shapes, Resuming
    <3>2. CASE c # "restart"
      BY <1>1, <2>2, <3>2 DEF Ask, To, Shapes, SessionStages, Stopping
    <3> QED
      BY <3>1, <3>2
  <2>3. CASE (Proceeds(c) \/ GivesUp(c)) /\ ~ForceQuit(c) /\ ~Ask(c)
    <3>1. /\ \E s \in Stages : stage' = [stage EXCEPT ![c] = s] \/ stage' = stage
          /\ UNCHANGED others
          /\ stage'[c] \in SessionStages => stage[c] \in Stopping
      BY <2>3 DEF Proceeds, GivesUp, Bootout, AskDriver, DriverStopped, KillDriver, ResumeChecks,
         Bootstrap, Resumed, Release, To, Shapes, Stages, SessionStages, Stopping, Resuming,
         Acquiring, HandBack
    <3>2. CASE c # "restart"
      BY <1>1, <3>1, <3>2 DEF Shapes, SessionStages
    <3>3. CASE c = "restart"
      <4>1. stage[e] \in SessionStages
        BY <3>1, <3>3 DEF Shapes
      <4>2. ~(AskDriver(c) \/ DriverStopped(c) \/ KillDriver(c) \/ ResumeChecks(c) \/ Bootstrap(c))
        BY <3>3, <4>1 DEF RestartInv, AskDriver, DriverStopped, KillDriver, ResumeChecks,
           Bootstrap, Resuming
      <4> QED
        BY <2>3, <3>3, <4>2 DEF Proceeds, Bootout, GivesUp, To, Shapes, Resuming
    <3> QED
      BY <3>2, <3>3
  <2> QED
    BY <1>6, <2>1, <2>2, <2>3
<1>7. ASSUME NEW c \in Commands, Begin(c) \/ CommandStopped(c) PROVE Goal
  <2>0. /\ stage'[e] = stage[e] /\ UNCHANGED others
        /\ c # "restart" => stage'["restart"] = stage["restart"]
    BY <1>7 DEF Begin, CommandStopped, To, Shapes, calls
  <2>1. CASE c = "restart" /\ Begin(c)
    BY <2>0, <2>1 DEF Begin, To, Shapes, Resuming
  <2>2. CASE c = "restart" /\ CommandStopped(c)
    BY <2>0, <2>2 DEF CommandStopped, RestartInv
  <2> QED
    BY <1>1, <1>7, <2>0, <2>1, <2>2
<1>8. ASSUME NEW a \in Apps, Quit(a) \/ Crash(a) PROVE Goal
  BY <1>1, <1>5, <1>8 DEF Quit, Crash, calls
<1> QED
  BY <1>2, <1>3, <1>4, <1>6, <1>7, <1>8 DEF Next, ProductionSide

\* A debug app owes production only while it resumes it, with its lease gone; and a session
\* about to unload the login service has written down what it will owe.
SessionDuty == \A d \in Debuggers :
  /\ duty[d] => stage[d] \in Resuming
  /\ stage[d] \in Resuming => lease = None
  /\ stage[d] = "bootout" /\ wanted => dropped \/ lease.resume

\* Of the commands only recover-debug owes production: what the lease said when it began, for
\* as long as it runs.  stop and restart unload what the user no longer wants.
CommandDuty ==
  /\ \A c \in Commands : duty[c] => c = "recover"
  /\ \A c \in Commands \cap {"stop", "restart"} : Busy(c) => ~wanted
  /\ "recover" \in Commands =>
       /\ stage["recover"] \in Stopping => lease # None /\ (lease.resume <=> duty["recover"])
       /\ stage["recover"] \in Resuming => lease = None
       /\ Busy("recover") /\ wanted => dropped \/ duty["recover"]

DutyInv == SessionDuty /\ CommandDuty /\ SomeoneOwesProduction

Before == Records /\ SessionInv /\ RecoverInv /\ OneCommand /\ RestartInv /\ DutyInv

\* A session's steps between taking the lock and handing back leave what is owed alone.
LEMMA DutyOnTheWay ==
  ASSUME Before, NEW d \in Debuggers, NEW s \in Stages, stage[d] \notin Resuming,
         s \notin Resuming \cup {"bootout"}, stage' = [stage EXCEPT ![d] = s],
         UNCHANGED <<lease, duty, wanted, dropped>>, loaded' = loaded \/ loaded'
  PROVE  DutyInv'
<1> USE Names DEF Before, Records, DutyInv
<1>1. \A c \in Callers \ {d} : stage'[c] = stage[c]
  BY DEF Shapes
<1>2. stage'[d] = s /\ ~duty[d]
  BY DEF Shapes, SessionDuty
<1>3. SessionDuty'
  BY <1>1, <1>2 DEF SessionDuty
<1>4. CommandDuty'
  BY <1>1, TakeoverAssumption DEF CommandDuty, Busy, TakeoverAssumption
<1>5. SomeoneOwesProduction'
  BY <1>1, <1>2 DEF SomeoneOwesProduction, Busy
<1> QED
  BY <1>3, <1>4, <1>5

\* The lease takes over what is owed, whoever owed it.
LEMMA DutyWritten ==
  ASSUME Before, NEW d \in Debuggers, WriteLease(d)
  PROVE  DutyInv'
<1> USE Names DEF Before, Records, DutyInv
<1>1. /\ stage[d] = "leasing" /\ stage' = [stage EXCEPT ![d] = "bootout"]
      /\ UNCHANGED <<loaded, lock, duty, wanted, dropped>> /\ lock = d
      /\ lease' = [pid |-> d, resume |-> loaded \/ (lease # None /\ lease.resume)]
  BY DEF WriteLease, To, calls, hist, SessionInv, SessionStages
<1>2. \A c \in Callers \ {d} : stage'[c] = stage[c]
  BY <1>1 DEF Shapes
<1>3. stage'[d] = "bootout" /\ ~duty[d]
  BY <1>1 DEF Shapes, SessionDuty, Resuming
<1>4. lease' # None /\ lease'.resume = (loaded \/ (lease # None /\ lease.resume))
  <2>1. lease' \in [pid : Debuggers, resume : BOOLEAN]
    BY <1>1 DEF Shapes
  <2> QED
    BY <1>1, <2>1, TakeoverAssumption DEF TakeoverAssumption
<1>5. "recover" \in Commands => ~Busy("recover") /\ ~(Busy("recover"))'
  BY <1>1, <1>2, TakeoverAssumption DEF RecoverInv, SessionStages, Busy, TakeoverAssumption
<1>6. \A e \in Debuggers \ {d} : stage[e] \notin Resuming
  BY <1>1 DEF SessionInv
<1>7. wanted => dropped \/ lease'.resume
  <2>1. ASSUME NEW c \in Callers, duty[c], Busy(c) PROVE FALSE
    BY <1>3, <1>5, <1>6, <2>1 DEF SessionDuty, CommandDuty, Callers
  <2> QED
    BY <1>4, <2>1 DEF SomeoneOwesProduction
<1>8. SessionDuty'
  BY <1>1, <1>2, <1>3, <1>6, <1>7 DEF SessionDuty, Resuming
<1>9. CommandDuty'
  BY <1>1, <1>2, <1>5, TakeoverAssumption DEF CommandDuty, Busy, Stopping, Resuming,
     TakeoverAssumption
<1>10. SomeoneOwesProduction'
  BY <1>1, <1>4, <1>7 DEF SomeoneOwesProduction
<1> QED
  BY <1>8, <1>9, <1>10

\* The lease goes, and the duty with its owner.
LEMMA DutyHandedBack ==
  ASSUME Before, NEW d \in Debuggers, HandsBack(d)
  PROVE  DutyInv'
<1> USE Names DEF Before, Records, DutyInv
<1>1. /\ stage[d] = "handback" /\ lock = d /\ lease # None /\ lease.pid = d
      /\ lease' = None /\ duty' = [duty EXCEPT ![d] = lease.resume]
      /\ UNCHANGED <<loaded, wanted, dropped>>
      /\ IF lease.resume THEN stage' = [stage EXCEPT ![d] = "resume"]
                         ELSE stage' = [stage EXCEPT ![d] = IF closing[d] THEN "last" ELSE "idle"]
  <2>1. /\ stage[d] = "handback" /\ lock = d /\ lease # None /\ lease.pid = d
        /\ lease.resume \in BOOLEAN
    BY DEF HandsBack, SessionInv, SessionStages, Shapes
  <2>2. lease' = None /\ UNCHANGED <<loaded, wanted, dropped>>
    BY <2>1 DEF HandsBack, hist
  <2>3. CASE lease.resume
    BY <2>1, <2>2, <2>3 DEF HandsBack, To
  <2>4. CASE ~lease.resume
    <3>1. duty' = [duty EXCEPT ![d] = FALSE] /\ Release(d)
      BY <2>1, <2>4 DEF HandsBack
    <3>2. lease.resume = FALSE
      BY <2>1, <2>4
    <3> QED
      BY <2>1, <2>2, <3>1, <3>2 DEF Release, To
  <2> QED
    BY <2>3, <2>4
<1>2. \A c \in Callers \ {d} : stage'[c] = stage[c] /\ duty'[c] = duty[c]
  BY <1>1 DEF Shapes
<1>3. /\ duty'[d] = lease.resume
      /\ stage'[d] = IF lease.resume THEN "resume" ELSE IF closing[d] THEN "last" ELSE "idle"
  BY <1>1 DEF Shapes
<1>4. "recover" \in Commands => ~Busy("recover") /\ ~(Busy("recover"))'
  BY <1>1, <1>2, TakeoverAssumption DEF RecoverInv, SessionStages, Busy, TakeoverAssumption
<1>5. \A e \in Debuggers \ {d} : stage[e] \notin Resuming \cup {"bootout"}
  BY <1>1 DEF SessionInv, SessionStages, Stopping
<1>6. SessionDuty'
  BY <1>1, <1>2, <1>3, <1>5 DEF SessionDuty, Resuming
<1>7. CommandDuty'
  BY <1>1, <1>2, <1>4, TakeoverAssumption DEF CommandDuty, Busy, Stopping, Resuming,
     TakeoverAssumption
<1>8. SomeoneOwesProduction'
  <2>1. CASE lease.resume
    BY <1>3, <2>1 DEF SomeoneOwesProduction, Busy
  <2>2. CASE ~lease.resume
    <3>1. stage[d] \notin Resuming => ~duty[d]
      BY DEF SessionDuty
    <3> QED
      BY <1>1, <1>2, <2>2, <3>1 DEF SomeoneOwesProduction, Busy, Resuming
  <2> QED
    BY <2>1, <2>2
<1> QED
  BY <1>6, <1>7, <1>8

\* An app that dies while it owes production is remembered.
LEMMA DutyDropped ==
  ASSUME Before, NEW a \in Apps, Dies(a)
  PROVE  DutyInv'
<1> USE Names DEF Before, Records, DutyInv
<1>1. UNCHANGED <<loaded, lease, wanted>>
  BY DEF Dies
<1>2. CASE a \in Debuggers
  <2>1. /\ stage' = [stage EXCEPT ![a] = "done"] /\ duty' = [duty EXCEPT ![a] = FALSE]
        /\ dropped' = (dropped \/ (stage[a] \in Resuming /\ duty[a]))
    BY <1>2 DEF Dies, To
  <2>2. \A c \in Callers \ {a} : stage'[c] = stage[c] /\ duty'[c] = duty[c]
    BY <2>1 DEF Shapes
  <2>3. stage'[a] = "done" /\ ~duty'[a]
    BY <1>2, <2>1 DEF Shapes
  <2>4. SessionDuty'
    BY <1>1, <2>1, <2>2, <2>3 DEF SessionDuty, Resuming
  <2>5. CommandDuty'
    BY <1>1, <1>2, <2>1, <2>2, TakeoverAssumption, ZenonT(40) DEF CommandDuty, Busy, TakeoverAssumption
  <2>6. SomeoneOwesProduction'
    BY <1>1, <1>2, <2>1, <2>2 DEF SomeoneOwesProduction, SessionDuty, Busy
  <2> QED
    BY <2>4, <2>5, <2>6
<1>3. CASE a \notin Debuggers
  BY <1>1, <1>3 DEF Dies, SessionDuty, CommandDuty, SomeoneOwesProduction, Busy
<1> QED
  BY <1>2, <1>3

\* A caller that stops things has told the lease, or owes it itself.
LEMMA DutyWhileStopping ==
  ASSUME "start" \notin Commands, Before, NEW c \in Callers, NEW s \in Stages, stage[c] \in Stopping,
         s \in (Stopping \cup {"handback", "failed"}) \ {"bootout"}, stage' = [stage EXCEPT ![c] = s],
         UNCHANGED <<lease, duty, wanted, dropped>>,
         loaded' = loaded \/ (stage[c] = "bootout" /\ ~loaded'),
         c \in Commands => s # "handback"
  PROVE  DutyInv'
<1> USE Names DEF Before, Records, DutyInv
<1>1. \A b \in Callers \ {c} : stage'[b] = stage[b]
  BY DEF Shapes
<1>2. stage'[c] = s
  BY DEF Shapes
<1>3. SessionDuty'
  BY <1>1, <1>2 DEF SessionDuty, Stopping, Resuming
<1>4. CommandDuty'
  BY <1>1, <1>2 DEF CommandDuty, Busy, Stopping, Resuming
<1>5. SomeoneOwesProduction'
  <2>1. CASE loaded' = loaded
    <3>1. c \in Debuggers => ~duty[c]
      BY DEF SessionDuty, Stopping, Resuming
    <3>2. c \in Commands /\ duty[c] => lease # None /\ lease.resume
      BY DEF CommandDuty
    <3> QED
      BY <1>1, <2>1, <3>1, <3>2 DEF SomeoneOwesProduction, Busy, Callers
  <2>2. CASE stage[c] = "bootout" /\ c \in Debuggers
    <3>1. lease # None
      BY <2>2 DEF SessionInv, SessionStages, Stopping
    <3> QED
      BY <2>2, <3>1 DEF SessionDuty, SomeoneOwesProduction
  <2>3. CASE stage[c] = "bootout" /\ c \in Commands
    <3>1. c \in {"stop", "restart", "recover"} /\ Busy(c)
      BY <2>3, TakeoverAssumption DEF TakeoverAssumption, Busy
    <3>2. CASE c = "recover"
      <4>1. lease # None /\ (lease.resume <=> duty[c]) /\ (wanted => dropped \/ duty[c])
        BY <2>3, <3>1, <3>2 DEF CommandDuty, Stopping
      <4> QED
        BY <4>1 DEF SomeoneOwesProduction
    <3>3. CASE c # "recover"
      BY <2>3, <3>1, <3>3 DEF CommandDuty, SomeoneOwesProduction
    <3> QED
      BY <3>2, <3>3
  <2> QED
    BY <2>1, <2>2, <2>3 DEF Callers
<1> QED
  BY <1>3, <1>4, <1>5

\* What is owed is done: the login service is loaded again, or a session has the dock.
LEMMA DutyDone ==
  ASSUME "start" \notin Commands, Before, NEW c \in Callers, ResumeChecks(c) \/ Bootstrap(c)
  PROVE  DutyInv'
<1> USE Names DEF Before, Records, DutyInv
<1>1. stage[c] \in Resuming /\ UNCHANGED <<lease, dropped>> /\ Busy(c)
  BY DEF ResumeChecks, Bootstrap, Resuming, Busy
<1>2. CASE stage' = [stage EXCEPT ![c] = "bootstrap"] /\ UNCHANGED <<loaded, duty, wanted>>
  <2>1. /\ \A b \in Callers \ {c} : stage'[b] = stage[b]
        /\ stage'[c] = "bootstrap"
    BY <1>2 DEF Shapes
  <2>2. SessionDuty'
    BY <1>1, <1>2, <2>1 DEF SessionDuty, Resuming
  <2>3. CommandDuty'
    BY <1>1, <1>2, <2>1 DEF CommandDuty, Busy, Stopping, Resuming
  <2>4. SomeoneOwesProduction'
    BY <1>1, <1>2, <2>1 DEF SomeoneOwesProduction, Busy
  <2> QED
    BY <2>2, <2>3, <2>4
<1>3. CASE Resumed(c) /\ (loaded' \/ (UNCHANGED loaded /\ DevelopmentActive))
  <2>1. /\ duty' = [duty EXCEPT ![c] = FALSE]
        /\ wanted' = (wanted \/ (c \in {"start", "restart"} /\ loaded'))
        /\ \E s \in {"last", "idle", "done"} :
             stage' = [stage EXCEPT ![c] = s] /\ (c \in Commands => s = "done")
    BY <1>3 DEF Resumed, Release, To
  <2>2. /\ \A b \in Callers \ {c} : stage'[b] = stage[b] /\ duty'[b] = duty[b]
        /\ stage'[c] \in {"last", "idle", "done"} /\ ~duty'[c]
        /\ c \in Commands => stage'[c] = "done"
    <3>1. PICK s \in {"last", "idle", "done"} :
            stage' = [stage EXCEPT ![c] = s] /\ (c \in Commands => s = "done")
      BY <2>1
    <3>2. stage'[c] = s /\ \A b \in Callers \ {c} : stage'[b] = stage[b]
      BY <3>1 DEF Shapes
    <3>3. ~duty'[c] /\ \A b \in Callers \ {c} : duty'[b] = duty[b]
      BY <2>1 DEF Shapes
    <3> QED
      BY <3>1, <3>2, <3>3
  <2>0. c # "start" /\ (c \notin Commands => c # "restart")
    <3>1. CASE c \in Debuggers
      BY <3>1, TakeoverAssumption DEF TakeoverAssumption
    <3>2. CASE c \in Commands
      BY <3>2
    <3> QED
      BY <3>1, <3>2 DEF Callers
  <2>3. wanted' = wanted \/ c = "restart"
    <3>1. CASE c = "restart"
      BY <3>1
    <3>2. CASE c # "restart"
      <4>1. c \notin {"start", "restart"}
        BY <2>0, <3>2
      <4> QED
        BY <2>1, <4>1 DEF Shapes
    <3> QED
      BY <3>1, <3>2
  <2>4. \A d \in Debuggers : c = "restart" => stage[d] \notin SessionStages
    BY <1>1, <2>0 DEF RestartInv
  <2>5. SessionDuty'
    BY <1>1, <2>2, <2>3, <2>4 DEF SessionDuty, SessionStages, Stopping, Resuming
  <2>6. \A other \in Commands \ {c} : c \in Commands => ~Busy(other)
    BY <1>1 DEF OneCommand
  <2>7. CommandDuty'
    <3>1. \A other \in Commands : duty'[other] => other = "recover"
      BY <2>2 DEF CommandDuty
    <3>2. ASSUME NEW other \in Commands \cap {"stop", "restart"}, Busy(other)'
          PROVE  ~wanted'
      <4>1. other # c /\ Busy(other)
        <5>1. stage'[other] \notin {"idle", "done", "failed"}
          BY <3>2 DEF Busy
        <5>2. other # c
          BY <2>2, <5>1
        <5> QED
          BY <2>2, <5>1, <5>2 DEF Busy
      <4>2. c \notin Commands
        BY <2>6, <4>1
      <4>3. c # "restart"
        BY <4>2, <2>0
      <4> QED
        BY <2>3, <4>1, <4>3 DEF CommandDuty
    <3>3. ASSUME "recover" \in Commands
          PROVE  /\ stage'["recover"] \in Stopping => lease' # None /\ (lease'.resume <=> duty'["recover"])
                 /\ stage'["recover"] \in Resuming => lease' = None
                 /\ Busy("recover")' /\ wanted' => dropped' \/ duty'["recover"]
      <4>1. CASE c = "recover"
        BY <2>2, <3>3, <4>1 DEF Busy, Stopping, Resuming
      <4>2. CASE c # "recover"
        <5>1. /\ stage'["recover"] = stage["recover"] /\ duty'["recover"] = duty["recover"]
          BY <2>2, <3>3, <4>2
        <5>2. Busy("recover") => c \notin Commands
          BY <2>6, <3>3, <4>2
        <5>3. Busy("recover") => wanted' = wanted
          BY <2>0, <2>3, <5>2
        <5> QED
          BY <1>1, <3>3, <5>1, <5>3 DEF CommandDuty, Busy
      <4> QED
        BY <4>1, <4>2
    <3> QED
      BY <3>1, <3>2, <3>3 DEF CommandDuty
  <2>8. SomeoneOwesProduction'
    <3>1. CASE loaded'
      BY <3>1 DEF SomeoneOwesProduction
    <3>2. CASE UNCHANGED loaded /\ DevelopmentActive /\ ~loaded'
      <4>1. lease # None
        BY <3>2 DEF DevelopmentActive
      <4>2. ~duty[c]
        <5>1. CASE c \in Debuggers
          BY <1>1, <4>1, <5>1 DEF SessionDuty
        <5>2. CASE c \in Commands
          BY <1>1, <4>1, <5>2 DEF CommandDuty
        <5> QED
          BY <5>1, <5>2 DEF Callers
      <4>3. wanted' = wanted
        BY <2>1, <3>2 DEF Shapes
      <4> QED
        BY <1>1, <2>2, <3>2, <4>2, <4>3 DEF SomeoneOwesProduction, Busy
    <3> QED
      BY <1>3, <3>1, <3>2
  <2> QED
    BY <2>5, <2>7, <2>8
<1> QED
  BY <1>2, <1>3 DEF ResumeChecks, Bootstrap, To

\* recover-debug takes over what a dead session owed.
LEMMA DutyBegun ==
  ASSUME Alone, "start" \notin Commands, Before, NEW c \in Commands, Begin(c)
  PROVE  DutyInv'
<1> USE Names DEF Before, Records, DutyInv
<1>1. /\ stage[c] = "idle" /\ UNCHANGED <<loaded, lease, dropped>>
      /\ \A other \in Commands : ~Busy(other)
      /\ c \in {"stop", "restart", "recover"}
  BY TakeoverAssumption DEF Begin, shared, TakeoverAssumption
<1>2. \A b \in Callers \ {c} : stage'[b] = stage[b] /\ duty'[b] = duty[b]
  BY DEF Begin, To, Shapes
<1>3. \A other \in Commands \ {c} : ~Busy(other)'
  BY <1>1, <1>2 DEF Busy
<1>4. CASE c # "recover"
  <2>1. ~wanted' /\ duty' = duty /\ stage'[c] = "bootout"
    BY <1>1, <1>4 DEF Begin, To, Shapes
  <2>2. SessionDuty' /\ SomeoneOwesProduction'
    BY <1>1, <1>2, <2>1 DEF SessionDuty, SomeoneOwesProduction
  <2>3. CommandDuty'
    BY <1>1, <1>2, <1>3, <1>4, <2>1 DEF CommandDuty, Busy, Stopping, Resuming
  <2> QED
    BY <2>2, <2>3
<1>5. CASE c = "recover" /\ (lease = None \/ DevelopmentActive)
  <2>1. wanted' = wanted /\ duty' = duty /\ stage'[c] = "done"
    BY <1>5 DEF Begin, To, Shapes
  <2>2. SessionDuty'
    BY <1>1, <1>2, <2>1 DEF SessionDuty
  <2>3. CommandDuty'
    BY <1>1, <1>3, <1>5, <2>1 DEF CommandDuty, Busy, Stopping, Resuming
  <2>4. SomeoneOwesProduction'
    BY <1>1, <1>2, <2>1 DEF SomeoneOwesProduction, Busy
  <2> QED
    BY <2>2, <2>3, <2>4
<1>6. CASE c = "recover" /\ ~(lease = None \/ DevelopmentActive)
  <2>1. /\ wanted' = wanted /\ duty' = [duty EXCEPT ![c] = lease.resume] /\ stage'[c] = "bootout"
        /\ lease # None /\ (lease.resume \/ ~loaded)
    BY <1>6 DEF Begin, To, Shapes
  <2>2. duty'[c] = lease.resume
    BY <2>1 DEF Shapes
  <2>3. wanted => dropped \/ lease.resume
    <3>1. ASSUME NEW b \in Callers, duty[b], Busy(b) PROVE FALSE
      BY <1>1, <2>1, <3>1 DEF SessionDuty, Callers
    <3> QED
      BY <2>1, <3>1 DEF SomeoneOwesProduction
  <2>4. SessionDuty'
    BY <1>1, <1>2, <2>1 DEF SessionDuty
  <2>5. CommandDuty'
    BY <1>1, <1>2, <1>3, <1>6, <2>1, <2>2, <2>3 DEF CommandDuty, Busy, Stopping, Resuming
  <2>6. SomeoneOwesProduction'
    BY <1>1, <2>1, <2>3 DEF SomeoneOwesProduction
  <2> QED
    BY <2>4, <2>5, <2>6
<1> QED
  BY <1>4, <1>5, <1>6

\* It removes the lease when everything is stopped, and resumes.
LEMMA DutyAtTheEnd ==
  ASSUME "start" \notin Commands, Before, NEW c \in Commands, CommandStopped(c)
  PROVE  DutyInv'
<1> USE Names DEF Before, Records, DutyInv
<1>1. /\ stage[c] = "end" /\ UNCHANGED <<loaded, duty, wanted, dropped>> /\ Busy(c)
      /\ c \in {"stop", "restart", "recover"}
  BY TakeoverAssumption DEF CommandStopped, hist, Busy, TakeoverAssumption
<1>2. \A b \in Callers \ {c} : stage'[b] = stage[b]
  BY DEF CommandStopped, To, Shapes
<1>3. \A other \in Commands \ {c} : ~Busy(other) /\ ~Busy(other)'
  BY <1>1, <1>2 DEF OneCommand, Busy
<1>4. CASE c # "recover"
  <2>1. ~wanted' /\ lease' = lease
    BY <1>1, <1>4 DEF CommandStopped, CommandDuty
  <2>2. SessionDuty' /\ SomeoneOwesProduction'
    BY <1>1, <1>2, <2>1 DEF SessionDuty, SomeoneOwesProduction
  <2>3. CommandDuty'
    BY <1>1, <1>3, <1>4, <2>1 DEF CommandDuty, Busy, Stopping, Resuming
  <2> QED
    BY <2>2, <2>3
<1>5. CASE c = "recover"
  <2>1. lease' = None /\ stage'[c] = IF duty[c] THEN "resume" ELSE "done"
    BY <1>5 DEF CommandStopped, To, Shapes
  <2>2. lease # None /\ (lease.resume <=> duty[c])
    BY <1>1, <1>5 DEF CommandDuty, Stopping
  <2>3. \A d \in Debuggers : stage[d] \notin SessionStages
    BY <1>1, <1>5 DEF RecoverInv
  <2>4. SessionDuty'
    BY <1>1, <1>2, <2>1, <2>3 DEF SessionDuty, SessionStages, Stopping
  <2>5. CommandDuty'
    BY <1>1, <1>3, <1>5, <2>1 DEF CommandDuty, Busy, Stopping, Resuming
  <2>6. SomeoneOwesProduction'
    BY <1>1, <1>2, <2>1, <2>2 DEF SomeoneOwesProduction, Busy
  <2> QED
    BY <2>4, <2>5, <2>6
<1> QED
  BY <1>4, <1>5

LEMMA DutyKept ==
  ASSUME Alone, "start" \notin Commands, Before, [Next]_vars
  PROVE  DutyInv'
<1> USE Names DEF Before, Records
<1>1. CASE UNCHANGED <<loaded, lease, stage, duty, wanted, dropped>>
  BY <1>1 DEF DutyInv, SessionDuty, CommandDuty, SomeoneOwesProduction, Busy
<1>2. CASE ProductionSide \/ UNCHANGED vars
  BY <1>1, <1>2, ProductionLeavesCallers DEF vars, shared, calls, hist
<1>3. ASSUME NEW d \in Debuggers, DebugStep(d) \/ SessionProceeds(d) PROVE DutyInv'
  <2>1. CASE OpenDebug(d) \/ UserStops(d) \/ KillOwn(d)
    BY <1>1, <2>1 DEF OpenDebug, UserStops, KillOwn, shared, calls, hist
  <2>2. CASE WriteLease(d)
    BY <2>2, DutyWritten
  <2>3. CASE HandsBack(d)
    BY <2>3, DutyHandedBack
  <2>4. CASE \/ TakeLock(d) \/ DebugQuits(d) \/ DebugQuitExpires(d) \/ Acquired(d) \/ DidStop(d)
             \/ LastResume(d) \/ Exits(d)
    <3>1. CASE UNCHANGED <<loaded, lease, stage, duty, wanted, dropped>>
      BY <1>1, <3>1
    <3>2. CASE stage' # stage
      <4>1. PICK s \in {"leasing", "last", "handback", "holding", "lastboot", "done"} :
              stage' = [stage EXCEPT ![d] = s]
        BY <2>4, <3>2 DEF TakeLock, DebugQuits, DebugQuitExpires, Acquired, DidStop, LastResume,
           Exits, To
      <4>2. /\ UNCHANGED <<lease, duty, wanted, dropped>> /\ (loaded' = loaded \/ loaded')
            /\ stage[d] \notin Resuming
        BY <2>4, <3>2 DEF TakeLock, DebugQuits, DebugQuitExpires, Acquired, DidStop, LastResume,
           Exits, Resuming, shared, calls, hist
      <4>3. s \in Stages /\ s \notin Resuming \cup {"bootout"}
        BY <4>1 DEF Stages, Resuming, Acquiring, HandBack
      <4> QED
        BY <4>1, <4>2, <4>3, DutyOnTheWay
    <3>3. stage' = stage => UNCHANGED <<loaded, lease, duty, wanted, dropped>>
      BY <2>4 DEF TakeLock, DebugQuits, DebugQuitExpires, Acquired, DidStop, LastResume, Exits,
         To, Shapes, shared, calls, hist
    <3> QED
      BY <3>1, <3>2, <3>3
  <2> QED
    BY <1>3, <2>1, <2>2, <2>3, <2>4 DEF DebugStep, SessionProceeds
<1>4. ASSUME NEW c \in Callers, Proceeds(c) \/ GivesUp(c) PROVE DutyInv'
  <2>1. CASE ForceQuit(c)
    <3>1. PICK a \in others[c] : Dies(a)
      BY <2>1 DEF ForceQuit
    <3> QED
      BY <3>1, DutyDropped DEF Shapes
  <2>2. CASE KillDriver(c)
    BY <1>1, <2>2 DEF KillDriver, hist
  <2>3. CASE ResumeChecks(c) \/ Bootstrap(c)
    BY <2>3, DutyDone
  <2>4. CASE Bootout(c) \/ Ask(c) \/ AskDriver(c) \/ DriverStopped(c) \/ GivesUp(c)
    <3>1. PICK s \in {"ask", "wait", "driver", "end", "handback", "failed"} :
            stage' = [stage EXCEPT ![c] = s] /\ (c \in Commands => s # "handback")
      BY <2>4 DEF Bootout, Ask, AskDriver, DriverStopped, GivesUp, To
    <3>2. /\ stage[c] \in Stopping /\ UNCHANGED <<lease, duty, wanted, dropped>>
          /\ (loaded' = loaded \/ (stage[c] = "bootout" /\ ~loaded'))
      BY <2>4 DEF Bootout, Ask, AskDriver, DriverStopped, GivesUp, Stopping, shared, calls, hist
    <3>3. s \in Stages /\ s \in (Stopping \cup {"handback", "failed"}) \ {"bootout"}
      BY <3>1 DEF Stages, Stopping, Acquiring, HandBack
    <3> QED
      BY <3>1, <3>2, <3>3, DutyWhileStopping
  <2> QED
    BY <1>4, <2>1, <2>2, <2>3, <2>4 DEF Proceeds
<1>5. ASSUME NEW c \in Commands, Begin(c) \/ CommandStopped(c) PROVE DutyInv'
  BY <1>5, DutyBegun, DutyAtTheEnd
<1>6. ASSUME NEW a \in Apps, Quit(a) \/ Crash(a) PROVE DutyInv'
  BY <1>1, <1>6, DutyDropped DEF Quit, Crash, shared, calls
<1> QED
  BY <1>2, <1>3, <1>4, <1>5, <1>6 DEF Next, ProductionSide

\* While commands are given one at a time, and none of them is `start`, a login service that a
\* session unloaded is owed by the lease on disk or by a process at work, or was dropped by an
\* app that died between giving up its lease and resuming.
THEOREM ProductionIsOwed ==
  ASSUME Alone, "start" \notin Commands
  PROVE  Spec => []SomeoneOwesProduction
<1>1. Init => OneCommand /\ RestartInv /\ DutyInv
  BY Names DEF Init, OneCommand, RestartInv, DutyInv, SessionDuty, CommandDuty,
     SomeoneOwesProduction, Busy, SessionStages, Stopping, Resuming
<1>2. /\ Records /\ SessionInv /\ RecoverInv /\ DockInv /\ OneCommand /\ RestartInv /\ DutyInv
      /\ [Next]_vars
      => OneCommand' /\ RestartInv' /\ DutyInv'
  BY OneCommandKept, RestartKept, DutyKept DEF Before
<1>3. DutyInv => SomeoneOwesProduction
  BY DEF DutyInv
<1> QED
  BY <1>1, <1>2, <1>3, RecordsAlways, SessionsAlways, PTL DEF Spec


-----------------------------------------------------------------------------
(* Nothing waits for nothing.                                              *)

LEMMA ReconcileKeepsWorker ==
  ASSUME Shapes, NEW u, Reconcile(u), worker[Production] # "none"
  PROVE  worker'[Production] # "none"
BY Names DEF Reconcile, StopWorker, Shapes

LEMMA AwaitKept == Records /\ QuitIsAwaited /\ [Next]_vars => QuitIsAwaited'
<1> SUFFICES ASSUME Shapes, QuitIsAwaited, [Next]_vars PROVE QuitIsAwaited'
  BY DEF Records
<1> USE Names
<1>1. CASE /\ closing'[Production] = closing[Production] /\ app'[Production] = app[Production]
           /\ worker[Production] # "none" => worker'[Production] # "none"
  BY <1>1 DEF QuitIsAwaited
<1>2. ASSUME NEW a \in Apps, NEW drv, Left(a, drv) PROVE QuitIsAwaited'
  <2>1. CASE a = Production
    BY <1>2, <2>1 DEF Left, Shapes, QuitIsAwaited
  <2>2. CASE a # Production
    BY <1>1, <1>2, <2>2 DEF Left, Shapes
  <2> QED
    BY <2>1, <2>2
<1>3. ASSUME DriverGone, UNCHANGED <<app, closing>> PROVE QuitIsAwaited'
  BY <1>1, <1>3 DEF DriverGone, Shapes
<1>4. CASE DriverEnds
  BY <1>3, <1>4 DEF DriverEnds
<1>5. CASE DeskChanges
  <2>1. UNCHANGED <<app, closing>>
    BY <1>5 DEF DeskChanges
  <2>2. CASE app[Production] = "up" /\ ~closing[Production]
    BY <1>1, <1>5, <2>1, <2>2, ReconcileKeepsWorker DEF DeskChanges
  <2>3. CASE ~(app[Production] = "up" /\ ~closing[Production])
    BY <1>1, <1>5, <2>1, <2>3 DEF DeskChanges
  <2> QED
    BY <2>2, <2>3
<1>6. CASE Launch
  BY <1>6 DEF Launch, QuitIsAwaited
<1>7. CASE RetryFires
  BY <1>1, <1>7, ReconcileKeepsWorker DEF RetryFires
<1>8. CASE ProductionWorkerEnded
  <2>1. CASE closing[Production]
    BY <1>2, <1>8, <2>1 DEF ProductionWorkerEnded
  <2>2. CASE ~closing[Production]
    BY <1>8, <2>2 DEF ProductionWorkerEnded, QuitIsAwaited
  <2> QED
    BY <2>1, <2>2
<1>9. CASE ProductionQuits
  <2>1. CASE worker[Production] = "live"
    BY <1>9, <2>1 DEF ProductionQuits, StopWorker, QuitIsAwaited
  <2>2. CASE worker[Production] # "live"
    BY <1>2, <1>9, <2>2 DEF ProductionQuits
  <2> QED
    BY <2>1, <2>2
<1>10. CASE ProductionQuitExpires
  BY <1>2, <1>10 DEF ProductionQuitExpires
<1>11. ASSUME NEW a \in Apps, Dies(a) PROVE QuitIsAwaited'
  BY <1>2, <1>11 DEF Dies
<1>12. ASSUME NEW d \in Debuggers, DebugStep(d) \/ SessionProceeds(d) PROVE QuitIsAwaited'
  <2>1. CASE Exits(d)
    BY <1>2, <2>1 DEF Exits
  <2>2. CASE KillOwn(d)
    BY <1>3, <2>2 DEF KillOwn
  <2>3. CASE Acquired(d)
    BY <1>1, <2>3 DEF Acquired, Spawn, Shapes
  <2>4. CASE DebugStep(d) /\ ~KillOwn(d)
    BY <1>1, <2>4 DEF DebugStep, OpenDebug, TakeLock, UserStops, DebugQuits, DebugQuitExpires,
       apps, Shapes
  <2>5. CASE SessionProceeds(d) /\ ~Acquired(d) /\ ~Exits(d)
    BY <1>1, <2>5 DEF SessionProceeds, WriteLease, DidStop, HandsBack, LastResume, apps, Shapes
  <2> QED
    BY <1>12, <2>1, <2>2, <2>3, <2>4, <2>5 DEF DebugStep, SessionProceeds
<1>13. ASSUME NEW c \in Callers, Proceeds(c) \/ GivesUp(c) PROVE QuitIsAwaited'
  <2>1. CASE ForceQuit(c)
    <3>1. PICK a \in others[c] : Dies(a)
      BY <2>1 DEF ForceQuit
    <3> QED
      BY <1>11, <3>1 DEF Shapes
  <2>2. CASE KillDriver(c)
    BY <1>3, <2>2 DEF KillDriver
  <2>3. CASE (Proceeds(c) \/ GivesUp(c)) /\ ~ForceQuit(c) /\ ~KillDriver(c)
    BY <1>1, <2>3 DEF Proceeds, GivesUp, Bootout, Ask, AskDriver, DriverStopped, ResumeChecks,
       Bootstrap, shared, apps
  <2> QED
    BY <1>13, <2>1, <2>2, <2>3
<1>14. ASSUME NEW c \in Commands, Begin(c) \/ CommandStopped(c) PROVE QuitIsAwaited'
  BY <1>1, <1>14 DEF Begin, CommandStopped, apps
<1>15. ASSUME NEW a \in Apps, Quit(a) \/ Crash(a) PROVE QuitIsAwaited'
  BY <1>1, <1>11, <1>15 DEF Quit, Crash
<1>16. CASE PermissionChanges \/ LoginDone \/ UNCHANGED vars
  BY <1>1, <1>16 DEF PermissionChanges, LoginDone, vars, apps
<1> QED
  BY <1>4, <1>5, <1>6, <1>7, <1>8, <1>9, <1>10, <1>12, <1>13, <1>14, <1>15, <1>16
     DEF Next, ProductionStep

\* Whatever happens to its driver, its desk and its sessions: a production app that has put its
\* quit off has an end or a deadline to come.
THEOREM QuitsAreAwaited == Spec => []QuitIsAwaited
<1>1. Init => QuitIsAwaited
  BY Names DEF Init, QuitIsAwaited
<1> QED
  BY <1>1, AwaitKept, RecordsAlways, PTL DEF Spec

-----------------------------------------------------------------------------
(* A takeover goes one way.                                                *)

Waits(d) ==
  /\ stage'[d] = stage[d] /\ others'[d] \subseteq others[d] /\ (signalled'[d] => signalled[d])

LEMMA LeavingShortensWaits ==
  ASSUME Shapes, NEW a, NEW drv, Left(a, drv), NEW c \in Callers
  PROVE  others'[c] = others[c] \ {a}
BY DEF Left, Shapes

\* Its own steps.
LEMMA TakeoverSteps ==
  ASSUME Records, NEW d \in Debuggers, stage[d] \in Acquiring, Proceeds(d) \/ SessionProceeds(d)
  PROVE  \/ Remaining(stage'[d]) < Remaining(stage[d])
         \/ others'[d] # others[d] \/ signalled'[d] # signalled[d]
<1> USE Names DEF Records, To
<1>0. stage \in [Callers -> Stages] /\ d \in Callers
  BY DEF Shapes
<1>1. CASE WriteLease(d) \/ Bootout(d) \/ Ask(d) \/ DriverStopped(d)
  BY <1>0, <1>1 DEF WriteLease, Bootout, Ask, DriverStopped, Remaining
<1>2. CASE AskDriver(d)
  <2>1. stage[d] = "wait" /\ stage'[d] \in {"end", "driver"}
    BY <1>0, <1>2 DEF AskDriver
  <2> QED
    BY <2>1 DEF Remaining
<1>3. CASE KillDriver(d)
  BY <1>0, <1>3 DEF KillDriver, DriverGone
<1>4. CASE ForceQuit(d)
  <2>1. PICK a \in others[d] : Dies(a)
    BY <1>4 DEF ForceQuit
  <2>2. others'[d] = others[d] \ {a}
    BY <1>0, <2>1, LeavingShortensWaits DEF Dies
  <2> QED
    BY <2>1, <2>2
<1>5. CASE Acquired(d)
  <2>1. stage[d] = "end" /\ stage'[d] \in {"holding", "handback"}
    BY <1>0, <1>5 DEF Acquired
  <2> QED
    BY <2>1 DEF Remaining
<1>6. ~(ResumeChecks(d) \/ Bootstrap(d) \/ DidStop(d) \/ HandsBack(d) \/ LastResume(d) \/ Exits(d))
  BY DEF ResumeChecks, Bootstrap, DidStop, HandsBack, LastResume, Exits, Acquiring, Stopping
<1> QED
  BY <1>1, <1>2, <1>3, <1>4, <1>5, <1>6 DEF Proceeds, SessionProceeds

\* The death of any app ends a takeover or one of the things it waits for.
LEMMA DeathsGoOneWay ==
  ASSUME Records, NEW a, Dies(a), NEW d \in Debuggers, stage[d] \in Acquiring
  PROVE  Waits(d) \/ Remaining(stage'[d]) < Remaining(stage[d])
<1> USE Names DEF Records, To
<1>0. d \in Callers /\ stage \in [Callers -> Stages] /\ signalled \in [Callers -> BOOLEAN]
  BY DEF Shapes
<1>1. others'[d] = others[d] \ {a}
  BY <1>0, LeavingShortensWaits DEF Dies
<1>2. CASE a = d
  <2>1. stage'[d] = "done"
    BY <1>0, <1>2 DEF Dies
  <2> QED
    BY <2>1 DEF Remaining, Acquiring, Stopping
<1>3. CASE a # d
  BY <1>0, <1>1, <1>3 DEF Dies, Waits
<1> QED
  BY <1>2, <1>3

\* What one caller does leaves another's stage as it is, and can only shorten its waits.
LEMMA OthersWait ==
  ASSUME Records, NEW c \in Callers, NEW d \in Debuggers \ {c}, ~ForceQuit(c),
         \/ Proceeds(c) \/ GivesUp(c) \/ SessionProceeds(c) \/ Begin(c) \/ CommandStopped(c)
         \/ c \in Debuggers /\ DebugStep(c)
  PROVE  Waits(d)
<1> USE DEF Records, To, Waits
<1>0. /\ d \in Callers /\ stage \in [Callers -> Stages] /\ others \in [Callers -> SUBSET Apps]
      /\ signalled \in [Callers -> BOOLEAN]
  BY Names DEF Shapes
<1>2. CASE Bootout(c) \/ Ask(c) \/ DriverStopped(c) \/ GivesUp(c) \/ WriteLease(c)
  BY <1>0, <1>2 DEF Bootout, Ask, DriverStopped, GivesUp, WriteLease
<1>3. CASE AskDriver(c)
  <2>1. stage'[d] = stage[d] /\ others' = others /\ signalled'[d] = signalled[d]
    BY <1>0, <1>3 DEF AskDriver
  <2> QED
    BY <2>1
<1>4. CASE KillDriver(c) \/ (c \in Debuggers /\ KillOwn(c))
  BY <1>0, <1>4 DEF KillDriver, KillOwn, DriverGone
<1>5. CASE ResumeChecks(c) \/ Bootstrap(c)
  <2>1. others' = others /\ signalled' = signalled
    BY <1>5 DEF ResumeChecks, Bootstrap
  <2>2. stage'[d] = stage[d]
    BY <1>0, <1>5 DEF ResumeChecks, Bootstrap, Resumed, Release
  <2> QED
    BY <2>1, <2>2
<1>6. CASE Acquired(c) \/ DidStop(c) \/ LastResume(c)
  BY <1>0, <1>6 DEF Acquired, DidStop, LastResume
<1>7. CASE HandsBack(c)
  <2>1. others' = others /\ signalled' = signalled
    BY <1>7 DEF HandsBack
  <2>2. stage'[d] = stage[d]
    BY <1>0, <1>7 DEF HandsBack, Release
  <2> QED
    BY <2>1, <2>2
<1>8. CASE Exits(c)
  <2>1. others'[d] = others[d] \ {c}
    BY <1>0, <1>8, LeavingShortensWaits DEF Exits
  <2>2. stage' = [stage EXCEPT ![c] = "done"] /\ signalled' = signalled
    BY <1>8 DEF Exits
  <2>3. stage'[d] = stage[d]
    BY <1>0, <2>2
  <2> QED
    BY <2>1, <2>2, <2>3
<1>9. CASE Begin(c) \/ CommandStopped(c)
  <2>1. others' = others /\ signalled' = signalled
    BY <1>9 DEF Begin, CommandStopped
  <2>2. stage'[d] = stage[d]
    BY <1>0, <1>9 DEF Begin, CommandStopped
  <2> QED
    BY <2>1, <2>2
<1>10. CASE OpenDebug(c) \/ TakeLock(c) \/ UserStops(c)
  BY <1>0, <1>10 DEF OpenDebug, TakeLock, UserStops, calls
<1>11. CASE DebugQuits(c)
  <2>1. others' = others /\ signalled' = signalled
    BY <1>11 DEF DebugQuits
  <2>2. stage'[d] = stage[d]
    BY <1>0, <1>11 DEF DebugQuits
  <2> QED
    BY <2>1, <2>2
<1>12. CASE DebugQuitExpires(c)
  <2>1. others' = others /\ (signalled'[d] => signalled[d])
    BY <1>0, <1>12 DEF DebugQuitExpires
  <2>2. stage'[d] = stage[d]
    BY <1>0, <1>12 DEF DebugQuitExpires
  <2> QED
    BY <2>1, <2>2
<1> QED
  BY <1>2, <1>3, <1>4, <1>5, <1>6, <1>7, <1>8, <1>9, <1>10, <1>11, <1>12
     DEF Proceeds, SessionProceeds, DebugStep

LEMMA StepsGoOneWay ==
  ASSUME Records, [Next]_vars, NEW d \in Debuggers, stage[d] \in Acquiring
  PROVE  Waits(d) \/ Remaining(stage'[d]) < Remaining(stage[d])
<1> USE Names DEF Records
<1>0. d \in Callers /\ d \in Apps
  OBVIOUS
<1>1. ASSUME NEW drv, Left(Production, drv), stage' = stage, signalled'[d] => signalled[d]
      PROVE  Waits(d)
  BY <1>0, <1>1, LeavingShortensWaits DEF Waits
<1>2. CASE DriverEnds \/ DeskChanges \/ PermissionChanges \/ LoginDone \/ Launch \/ RetryFires \/ UNCHANGED vars
  BY <1>0, <1>2 DEF DriverEnds, DriverGone, DeskChanges, PermissionChanges, LoginDone, Launch, RetryFires, vars,
     calls, Waits
<1>3. CASE ProductionWorkerEnded \/ ProductionQuits \/ ProductionQuitExpires
  <2>1. stage' = stage /\ (signalled'[d] => signalled[d])
    BY <1>0, <1>3 DEF ProductionWorkerEnded, ProductionQuits, ProductionQuitExpires
  <2>2. others' = others \/ Left(Production, driver) \/ Left(Production, None)
    BY <1>3 DEF ProductionWorkerEnded, ProductionQuits, ProductionQuitExpires
  <2> QED
    BY <1>1, <2>1, <2>2 DEF Waits
<1>4. ASSUME NEW c \in Callers, ForceQuit(c) PROVE Waits(d) \/ Remaining(stage'[d]) < Remaining(stage[d])
  BY <1>4, DeathsGoOneWay DEF ForceQuit
<1>5. ASSUME NEW c \in Callers, c # d, ~ForceQuit(c),
             \/ Proceeds(c) \/ GivesUp(c) \/ SessionProceeds(c) \/ Begin(c) \/ CommandStopped(c)
             \/ c \in Debuggers /\ DebugStep(c)
      PROVE  Waits(d)
  BY <1>5, OthersWait
<1>6. CASE GivesUp(d)
  <2>1. stage'[d] = "handback"
    BY <1>0, <1>6 DEF GivesUp, To, Shapes
  <2> QED
    BY <2>1 DEF Remaining, Acquiring, Stopping
<1>7. CASE DebugStep(d)
  <2>1. KillOwn(d) \/ UserStops(d) \/ OpenDebug(d)
    BY <1>7 DEF DebugStep, TakeLock, DebugQuits, DebugQuitExpires, Acquiring, Stopping
  <2> QED
    BY <1>0, <2>1 DEF KillOwn, UserStops, OpenDebug, DriverGone, calls, Waits
<1>8. CASE (Proceeds(d) \/ SessionProceeds(d)) /\ ~ForceQuit(d)
  <2>1. CASE KillDriver(d)
    BY <1>0, <2>1 DEF KillDriver, DriverGone, Waits
  <2>2. CASE ~KillDriver(d)
    <3>1. ~(others'[d] # others[d]) \/ Ask(d)
      BY <1>8, <2>2 DEF Proceeds, SessionProceeds, Bootout, AskDriver, DriverStopped, ResumeChecks,
         Bootstrap, WriteLease, Acquired, DidStop, HandsBack, LastResume, Exits, Acquiring, Stopping
    <3>2. ~(signalled'[d] # signalled[d]) \/ AskDriver(d)
      BY <1>8, <2>2 DEF Proceeds, SessionProceeds, Bootout, Ask, DriverStopped, ResumeChecks,
         Bootstrap, WriteLease, Acquired, DidStop, HandsBack, LastResume, Exits, Acquiring, Stopping
    <3>3. Ask(d) \/ AskDriver(d) => Remaining(stage'[d]) < Remaining(stage[d])
      <4>1. Ask(d) => stage[d] = "ask" /\ stage'[d] = "wait"
        BY <1>0 DEF Ask, To, Shapes
      <4>2. AskDriver(d) => stage[d] = "wait" /\ stage'[d] \in {"end", "driver"}
        BY <1>0 DEF AskDriver, To, Shapes
      <4> QED
        BY <4>1, <4>2 DEF Remaining
    <3> QED
      BY <1>8, <3>1, <3>2, <3>3, TakeoverSteps
  <2> QED
    BY <2>1, <2>2
<1>9. ASSUME NEW a \in Apps, Quit(a) \/ Crash(a)
      PROVE  Waits(d) \/ Remaining(stage'[d]) < Remaining(stage[d])
  BY <1>9, DeathsGoOneWay DEF Quit, Crash, calls, Waits
<1>10. \A e \in Debuggers : e \in Callers
  OBVIOUS
<1>11. \A c \in Commands : c \in Callers /\ c # d
  OBVIOUS
<1> QED
  BY <1>2, <1>3, <1>4, <1>5, <1>6, <1>7, <1>8, <1>9, <1>10, <1>11 DEF Next, ProductionStep

\* For any number of debug apps, commands and deaths, one at a time or not: a takeover is never
\* set back, nor given more to wait for, and each step of its own takes something off.
THEOREM TakeoversGoOneWay == Spec => TakeoverGoesOneWay
<1>1. Records /\ [Next]_vars =>
        [\A d \in Debuggers : stage[d] \in Acquiring =>
           \/ Remaining(stage'[d]) < Remaining(stage[d])
           \/ /\ stage'[d] = stage[d]
              /\ others'[d] \subseteq others[d] /\ (signalled'[d] => signalled[d])
              /\ Proceeds(d) \/ SessionProceeds(d) =>
                   others'[d] # others[d] \/ signalled'[d] # signalled[d]]_vars
  BY StepsGoOneWay, TakeoverSteps DEF Waits
<1> QED
  BY <1>1, RecordsAlways, PTL DEF Spec, TakeoverGoesOneWay
=============================================================================
