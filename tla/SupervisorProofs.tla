--------------------------- MODULE SupervisorProofs ---------------------------
(***************************************************************************)
(* The supervisor's safety, for all deadlines and any number of workers,   *)
(* supervisors killed and seconds counted.                                 *)
(***************************************************************************)
EXTENDS Supervisor, TLAPS

Conditions == {"none", "starting", "serving", "shutting", "zombie"}
Hangs == {"none", "queue", "main"}

\* TypeOK, one variable at a time.
Longest == StartupSeconds + HeartbeatSeconds + StopSeconds + MaxBackoff

Typed ==
    /\ pc \in Places /\ status \in Phases
    /\ stopping \in BOOLEAN /\ restore_vendor \in BOOLEAN /\ claimed \in BOOLEAN
    /\ polled \in BOOLEAN /\ heard \in BOOLEAN /\ dock \in BOOLEAN /\ vendor \in BOOLEAN
    /\ opened \in BOOLEAN
    /\ backoff \in 1 .. MaxBackoff /\ failures \in 0 .. MaxFailures
    /\ child \in {Nobody} \cup Workers /\ holder \in {Nobody} \cup Workers
    /\ left \in 0 .. Longest /\ ready \in {Unheard} \cup 0 .. StableSeconds
    /\ stage \in [Workers -> Conditions] /\ hang \in [Workers -> Hangs]
    /\ age \in [Workers -> 0 .. StallSeconds + 1] /\ since \in [Workers -> 0 .. MaxAge]
    /\ term \subseteq Workers /\ due \subseteq Workers
    /\ stop_age \in 0 .. KillGrace /\ crashes \in 0 .. MaxCrashes

\* Where the supervisor is when it has a worker, and what its death forgets.
PlaceInv ==
    /\ pc \in {"monitor", "stop_worker"} => child \in Workers
    /\ pc \notin {"monitor", "stop_worker"} => child = Nobody
    /\ pc = "off" => ~stopping

\* From the first claim of the dock on, DisplayLink runs only if somebody else opened it since.
VendorInv ==
    /\ pc \in {"spawn", "monitor", "stop_worker", "decide", "backoff"} => claimed
    /\ pc # "off" /\ claimed => (vendor => opened)

\* A service that is to hand back and goes on has not had enough losses for it.
LossInv ==
    /\ pc # "off" /\ restore_vendor => AllowDisplayLink
    /\ pc \notin {"off", "finish", "restore"} /\ restore_vendor => failures < MaxFailures

\* A stop is noticed within the second after it was asked for; from then on what is left of
\* the worker's deadline is what is left of the stop.
StopInv ==
    /\ ~stopping => stop_age = 0
    /\ stop_age <= StopSeconds + 1
    /\ pc \in {"look", "waiting", "spawn", "monitor", "backoff"} => stop_age <= 1
    /\ pc \in {"waiting", "monitor", "backoff"} /\ polled => stop_age = 0
    /\ pc = "stop_worker" => /\ left <= StopSeconds /\ stop_age + left <= StopSeconds + 1
                             /\ polled => left > 0

\* The watchdog counts the seconds of a silent worker queue from when it fell silent.
AgeInv ==
    /\ \A w \in Workers : hang[w] # "queue" => age[w] = 0
    /\ \A w \in Workers : hang[w] = "queue" /\ stage[w] = "serving" =>
           age[w] > StallSeconds \/ since[w] <= age[w]

\* While a worker has not been heard, every second of it is taken off the deadline.  One
\* that was heard and hangs keeps beating for StallSeconds at most, and the beat of the last
\* of those seconds is read in the next.
HangInv ==
    /\ pc = "monitor" =>
        /\ polled => left > 0
        /\ ready = Unheard => since[child] + left <= StartupSeconds
        /\ ready # Unheard => left <= HeartbeatSeconds
        /\ hang[child] # "none" /\ ready # Unheard =>
               since[child] + left <= StallSeconds + 1 + HeartbeatSeconds
        /\ hang[child] # "none" /\ heard =>
               since[child] <= StallSeconds + IF polled THEN 0 ELSE 1
    /\ pc = "stop_worker" /\ hang[child] # "none" =>
        since[child] + left <= StopSeconds + IF ready = Unheard THEN StartupSeconds
                                             ELSE StallSeconds + 1 + HeartbeatSeconds

\* A worker whose calls return writes a heartbeat in each second, and the supervisor reads
\* it in that second or in the next.
BeatInv ==
    pc = "monitor" /\ stage[child] = "serving" /\ hang[child] = "none" =>
        /\ since[child] >= 1 /\ child \notin due => heard \/ left = HeartbeatSeconds
        /\ since[child] >= 2 => heard \/ left >= HeartbeatSeconds - 1

IInv == Typed /\ PlaceInv /\ VendorInv /\ LossInv /\ StopInv /\ AgeInv /\ HangInv /\ BeatInv

-----------------------------------------------------------------------------
(* The constants, and what a step of a worker leaves alone.                *)

LEMMA Constants ==
    /\ StartupSeconds \in Nat \ {0} /\ HeartbeatSeconds \in Nat \ {0} /\ StopSeconds \in Nat \ {0}
    /\ StallSeconds \in Nat \ {0} /\ StableSeconds \in Nat \ {0} /\ MaxBackoff \in Nat \ {0}
    /\ MaxFailures \in Nat \ {0} /\ KillGrace \in Nat \ {0} /\ Slots \in Nat \ {0}
    /\ MaxAge \in Nat \ {0} /\ MaxCrashes \in Nat /\ AllowDisplayLink \in BOOLEAN
    /\ Nobody \notin Workers /\ Unheard \notin Nat
<1>1. \A x \in {StartupSeconds, HeartbeatSeconds, StopSeconds, StallSeconds, StableSeconds,
                MaxBackoff, MaxFailures, KillGrace, Slots, MaxAge} : x \in Nat \ {0}
    BY SupervisorAssumption
<1> QED BY <1>1, SupervisorAssumption DEF Workers, Nobody, Unheard

LEMMA Types == Typed <=> TypeOK
<1>1. {stopping, restore_vendor, claimed, polled, heard, dock, vendor, opened} \subseteq BOOLEAN
      <=> /\ stopping \in BOOLEAN /\ restore_vendor \in BOOLEAN /\ claimed \in BOOLEAN
          /\ polled \in BOOLEAN /\ heard \in BOOLEAN /\ dock \in BOOLEAN /\ vendor \in BOOLEAN
          /\ opened \in BOOLEAN
    OBVIOUS
<1>2. {child, holder} \subseteq {Nobody} \cup Workers
      <=> child \in {Nobody} \cup Workers /\ holder \in {Nobody} \cup Workers
    OBVIOUS
<1> QED BY <1>1, <1>2 DEF TypeOK, Typed, Conditions, Hangs, Longest

LEMMA LongEnough ==
    /\ {StartupSeconds, HeartbeatSeconds, StopSeconds} \cup 1 .. MaxBackoff \subseteq 0 .. Longest
    /\ Longest \in Nat
BY Constants DEF Longest

\* What a worker does by itself, and what befalls it.
WorkerMoves(w) == Claim(w) \/ WorkerStep(w) \/ Hang(w) \/ Resume(w)

LEMMA WorkersMoveAlone ==
    ASSUME NEW w \in Workers, WorkerMoves(w)
    PROVE  UNCHANGED <<super, dock, vendor, history>>
BY DEF WorkerMoves, WorkerStep, Claim, Serve, StartFails, HandleTerm, WatchdogFails, WatchdogBeats,
       ShutdownEnds, Hang, Resume, world, history, workers

-----------------------------------------------------------------------------
(* Types.                                                                  *)

LEMMA CappedIsSmall ==
    ASSUME NEW n \in Nat, NEW cap \in Nat
    PROVE  Capped(n, cap) \in 0 .. cap /\ Capped(n, cap) <= n
BY DEF Capped

LEMMA GoneTypes ==
    ASSUME Typed, NEW w \in Workers, NEW remains \in {"none", "zombie"}, Gone(w, remains)
    PROVE  /\ stage' \in [Workers -> Conditions] /\ hang' \in [Workers -> Hangs]
           /\ age' \in [Workers -> 0 .. StallSeconds + 1] /\ since' \in [Workers -> 0 .. MaxAge]
           /\ term' \subseteq Workers /\ due' \subseteq Workers
           /\ holder' \in {Nobody} \cup Workers
<1>1. 0 \in 0 .. StallSeconds + 1 /\ 0 \in 0 .. MaxAge
    BY Constants
<1> QED BY <1>1 DEF Typed, Gone, Conditions, Hangs

LEMMA SuperTypes ==
    ASSUME Typed, PlaceInv, StartService \/ SupervisorStep \/ RequestStop \/ SupervisorDies
    PROVE  Typed'
<1> USE Constants, LongEnough DEF Typed, Places, Sleeping, Phases
<1>1. CASE StartService
    <2>1. restore_vendor' \in BOOLEAN /\ stopping' \in BOOLEAN /\ claimed' \in BOOLEAN
        BY <1>1, Zenon DEF StartService
    <2>2. /\ UNCHANGED <<child, left, ready, polled, stage, hang, age, term, due, heard, since>>
          /\ UNCHANGED <<dock, holder, vendor, stop_age, crashes, opened>>
          /\ pc' = "look" /\ backoff' = 1 /\ failures' = 0 /\ status' = "waiting"
        BY <1>1 DEF StartService, workers, world, history
    <2> QED BY <2>1, <2>2
<1>2. CASE Look
    <2>1. vendor' \in BOOLEAN /\ opened' \in BOOLEAN /\ claimed' \in BOOLEAN /\ polled' \in BOOLEAN
        BY <1>2, Zenon DEF Look
    <2>2. pc' \in Places /\ left' \in 0 .. Longest /\ status' \in Phases
        BY <1>2 DEF Look
    <2>3. /\ UNCHANGED <<stopping, restore_vendor, backoff, failures, child, ready, dock, holder>>
          /\ UNCHANGED <<stage, hang, age, term, due, heard, since, stop_age, crashes>>
        BY <1>2 DEF Look, workers, history
    <2> QED BY <2>1, <2>2, <2>3
<1>3. CASE Wait
    BY <1>3 DEF Wait, loop, workers, world, history
<1>4. CASE Spawn
    <2>1. PICK w \in Workers : /\ child' = w /\ stage' = [stage EXCEPT ![w] = "starting"]
                               /\ since' = [since EXCEPT ![w] = 0]
        BY <1>4 DEF Spawn, FreeSlots
    <2>2. /\ child' \in Workers /\ stage' \in [Workers -> Conditions]
          /\ since' \in [Workers -> 0 .. MaxAge]
        BY <2>1 DEF Conditions
    <2> QED BY <1>4, <2>2 DEF Spawn, Conditions, world, history
<1>5. CASE SpawnFails
    BY <1>5 DEF SpawnFails, loop, workers, world, history
<1>6. CASE MonitorReaps
    <2>1. child \in Workers /\ Gone(child, "none") /\ child' = Nobody
        BY <1>6 DEF MonitorReaps, PlaceInv, Reap
    <2>2. ready' \in {Unheard} \cup 0 .. StableSeconds
        BY <1>6 DEF MonitorReaps
    <2> QED BY <1>6, <2>1, <2>2, GoneTypes DEF MonitorReaps, Conditions, Hangs, history
<1>7. CASE MonitorGivesUp
    <2>1. child \in Workers
        BY <1>7 DEF MonitorGivesUp, PlaceInv
    <2>2. ready' \in {Unheard} \cup 0 .. StableSeconds
        BY <1>7 DEF MonitorGivesUp
    <2>3. CASE Gone(child, "zombie")
        BY <1>7, <2>1, <2>2, <2>3, GoneTypes DEF MonitorGivesUp, Conditions, Hangs, history
    <2>4. CASE /\ term' \in {term, term \cup {child}}
               /\ UNCHANGED <<stage, hang, age, since, due, holder>>
        BY <1>7, <2>1, <2>2, <2>4 DEF MonitorGivesUp, history
    <2> QED BY <1>7, <2>3, <2>4 DEF MonitorGivesUp, Terminate
<1>8. CASE MonitorGoesOn
    <2>1. left' \in 0 .. Longest /\ ready' \in {Unheard} \cup 0 .. StableSeconds /\ status' \in Phases
        BY <1>8 DEF MonitorGoesOn, Heed
    <2>2. /\ UNCHANGED <<pc, stopping, restore_vendor, claimed, backoff, failures, child, vendor>>
          /\ UNCHANGED <<stage, hang, age, term, due, since, dock, holder, stop_age, crashes, opened>>
          /\ heard' = FALSE /\ polled' = TRUE
        BY <1>8 DEF MonitorGoesOn, Heed, world, history
    <2> QED BY <2>1, <2>2, ZenonT(40)
<1>9. CASE StopWorker
    <2>1. child \in Workers
        BY <1>9 DEF StopWorker, PlaceInv
    <2>2. CASE Gone(child, "none") /\ child' = Nobody /\ pc' = "decide" /\ heard' = FALSE
        BY <1>9, <2>1, <2>2, GoneTypes, ZenonT(40) DEF StopWorker, Conditions, Hangs, history
    <2>3. CASE UNCHANGED <<pc, child, stage, hang, age, since, term, due, holder, heard>>
        BY <1>9, <2>3 DEF StopWorker, history
    <2> QED BY <1>9, <2>2, <2>3 DEF StopWorker, Reap
<1>10. CASE Decide
    <2>1. Failed \in Nat
        BY DEF Failed
    <2>2. failures' \in 0 .. MaxFailures
        <3>1. Capped(Failed, MaxFailures) \in 0 .. MaxFailures
            BY <2>1, CappedIsSmall
        <3>2. failures' = failures \/ failures' = Capped(Failed, MaxFailures)
            BY <1>10 DEF Decide
        <3> QED BY <3>1, <3>2
    <2>3. backoff' \in 1 .. MaxBackoff /\ left' \in 0 .. Longest
        BY <1>10 DEF Decide
    <2>4. polled' \in BOOLEAN
        BY <1>10, Zenon DEF Decide
    <2>5. pc' \in {"finish", "backoff"} /\ ready' = Unheard
        BY <1>10 DEF Decide
    <2>6. /\ UNCHANGED <<stopping, restore_vendor, claimed, child, status, vendor>>
          /\ UNCHANGED <<stage, hang, age, term, due, heard, since, dock, holder, stop_age, crashes, opened>>
        BY <1>10 DEF Decide, workers, world, history
    <2> QED BY <2>2, <2>3, <2>4, <2>5, <2>6
<1>11. CASE BackOff
    <2>1. backoff' \in 1 .. MaxBackoff
        BY <1>11 DEF BackOff, Capped
    <2> QED BY <1>11, <2>1 DEF BackOff, workers, world, history
<1>12. CASE Finish
    BY <1>12 DEF Finish, loop, workers, world, history
<1>13. CASE Restore
    <2>1. vendor' \in BOOLEAN /\ stopping' \in BOOLEAN
        BY <1>13, Zenon DEF Restore
    <2>2. /\ UNCHANGED <<restore_vendor, claimed, backoff, failures, child, left, ready, polled>>
          /\ UNCHANGED <<stage, hang, age, term, due, heard, since, dock, holder, crashes, opened>>
          /\ pc' = "off" /\ status' = "none" /\ stop_age' = 0
        BY <1>13 DEF Restore, loop, workers
    <2> QED BY <2>1, <2>2
<1>14. CASE RequestStop
    BY <1>14 DEF RequestStop, loop, workers, world, history
<1>15. CASE SupervisorDies
    <2>1. stage' \in [Workers -> Conditions]
        BY <1>15 DEF SupervisorDies, Conditions
    <2>2. crashes' \in 0 .. MaxCrashes
        BY <1>15 DEF SupervisorDies
    <2>3. /\ UNCHANGED <<restore_vendor, claimed, backoff, failures, polled, dock, holder, vendor, opened>>
          /\ UNCHANGED <<hang, age, term, due>> /\ since' \in [Workers -> 0 .. MaxAge]
          /\ pc' = "off" /\ stopping' = FALSE /\ stop_age' = 0 /\ status' = "stale"
          /\ heard' = FALSE /\ child' = Nobody /\ ready' = Unheard /\ left' = 0
        BY <1>15 DEF SupervisorDies, world
    <2>4. left' \in 0 .. Longest /\ stop_age' \in 0 .. KillGrace
        BY <2>3
    <2> QED BY <2>1, <2>2, <2>3, <2>4
<1> QED BY <1>1, <1>2, <1>3, <1>4, <1>5, <1>6, <1>7, <1>8, <1>9, <1>10, <1>11, <1>12, <1>13, <1>14,
           <1>15 DEF SupervisorStep

LEMMA WorkerTypes ==
    ASSUME Typed, NEW w \in Workers, WorkerMoves(w)
    PROVE  Typed'
<1> USE Constants, LongEnough DEF Typed
<1>0. UNCHANGED <<pc, status, stopping, restore_vendor, claimed, polled, dock, vendor, backoff,
                  failures, child, left, ready, stop_age, crashes, opened>>
    BY WorkersMoveAlone DEF super, loop, history
<1>1. /\ stage' \in [Workers -> Conditions] /\ hang' \in [Workers -> Hangs]
      /\ age' \in [Workers -> 0 .. StallSeconds + 1] /\ since' \in [Workers -> 0 .. MaxAge]
      /\ term' \subseteq Workers /\ due' \subseteq Workers /\ heard' \in BOOLEAN
      /\ holder' \in {Nobody} \cup Workers
    <2>1. CASE Exits(w) /\ heard' = heard
        BY <2>1, GoneTypes DEF Exits
    <2>2. CASE BeginShutdown(w) /\ holder' = holder
        BY <2>2 DEF BeginShutdown, Conditions
    <2>3. CASE Claim(w)
        BY <2>3 DEF Claim, workers
    <2>4. CASE Serve(w)
        BY <2>4 DEF Serve, Conditions, world
    <2>5. CASE Hang(w)
        BY <2>5 DEF Hang, Hangs, world
    <2>6. CASE Resume(w)
        BY <2>6 DEF Resume, Hangs, world
    <2>7. CASE WatchdogBeats(w)
        BY <2>2, <2>7 DEF WatchdogBeats, world
    <2> QED BY <2>1, <2>2, <2>3, <2>4, <2>5, <2>6, <2>7
            DEF WorkerMoves, WorkerStep, StartFails, ShutdownEnds, HandleTerm, WatchdogFails, world
<1> QED BY <1>0, <1>1 DEF Typed, Conditions, Hangs

LEMMA TypesKept ==
    ASSUME Typed, PlaceInv, [Next]_vars
    PROVE  Typed'
<1> USE Constants, LongEnough DEF Typed
<1>1. CASE Replug
    BY <1>1 DEF Replug, super, loop, workers, history
<1>2. CASE UserTogglesVendor
    BY <1>2 DEF UserTogglesVendor, super, loop, workers, history
<1>3. CASE Tick
    <2>1. age' \in [Workers -> 0 .. StallSeconds + 1] /\ since' \in [Workers -> 0 .. MaxAge]
        BY <1>3 DEF Tick, Capped
    <2>2. ready' \in {Unheard} \cup 0 .. StableSeconds /\ stop_age' \in 0 .. KillGrace
        BY <1>3 DEF Tick, Capped
    <2>3. left' \in 0 .. Longest
        BY <1>3 DEF Tick
    <2> QED BY <1>3, <2>1, <2>2, <2>3 DEF Tick, world
<1>4. CASE UNCHANGED vars
    BY <1>4 DEF vars, super, loop, workers, world, history
<1> QED BY <1>1, <1>2, <1>3, <1>4, SuperTypes, WorkerTypes DEF Next, WorkerMoves

-----------------------------------------------------------------------------
(* Places, DisplayLink and the stop.                                       *)

\* The supervisor's own steps, the world's and time's, beside the workers'.
LEMMA Cases ==
    ASSUME [Next]_vars
    PROVE  \/ StartService \/ Look \/ Wait \/ Spawn \/ SpawnFails \/ MonitorReaps \/ MonitorGivesUp
           \/ MonitorGoesOn \/ StopWorker \/ Decide \/ BackOff \/ Finish \/ Restore
           \/ RequestStop \/ SupervisorDies \/ Replug \/ UserTogglesVendor \/ Tick
           \/ (\E w \in Workers : WorkerMoves(w)) \/ UNCHANGED vars
BY DEF Next, SupervisorStep, WorkerMoves

LEMMA PlaceKept ==
    ASSUME Typed, PlaceInv, [Next]_vars
    PROVE  PlaceInv'
<1> USE DEF PlaceInv
<1>1. CASE StartService
    BY <1>1 DEF StartService
<1>2. CASE Look
    BY <1>2 DEF Look
<1>3. CASE Spawn
    <2>1. child' \in Workers
        BY <1>3 DEF Spawn, FreeSlots
    <2> QED BY <1>3, <2>1 DEF Spawn
<1>4. CASE MonitorGivesUp \/ MonitorGoesOn
    BY <1>4 DEF MonitorGivesUp, MonitorGoesOn
<1>5. CASE MonitorReaps \/ StopWorker
    BY <1>5 DEF MonitorReaps, StopWorker, Reap
<1>6. CASE Wait \/ SpawnFails \/ Decide \/ BackOff \/ Finish \/ Restore \/ SupervisorDies
    BY <1>6 DEF Wait, SpawnFails, Decide, BackOff, Finish, Restore, SupervisorDies, loop
<1>7. CASE RequestStop
    BY <1>7 DEF RequestStop, loop
<1>8. CASE Replug \/ UserTogglesVendor \/ Tick
    BY <1>8 DEF Replug, UserTogglesVendor, Tick, super, loop
<1>9. CASE \E w \in Workers : WorkerMoves(w)
    BY <1>9, WorkersMoveAlone DEF super, loop
<1>10. CASE UNCHANGED vars
    BY <1>10 DEF vars, super, loop
<1> QED BY Cases, <1>1, <1>2, <1>3, <1>4, <1>5, <1>6, <1>7, <1>8, <1>9, <1>10

LEMMA VendorKept ==
    ASSUME Typed, PlaceInv, VendorInv, [Next]_vars
    PROVE  VendorInv'
<1> USE DEF VendorInv
<1>1. CASE StartService
    BY <1>1 DEF StartService
<1>2. CASE Look
    <2>1. pc' \in {"finish", "spawn", "waiting"}
        BY <1>2 DEF Look
    <2>2. CASE pc' = "spawn" /\ ~claimed
        BY <1>2, <2>2 DEF Look
    <2>3. CASE ~(pc' = "spawn" /\ ~claimed)
        BY <1>2, <2>1, <2>3 DEF Look
    <2> QED BY <2>2, <2>3
<1>3. CASE Restore \/ SupervisorDies
    BY <1>3 DEF Restore, SupervisorDies
<1>4. CASE MonitorReaps \/ MonitorGivesUp \/ MonitorGoesOn \/ StopWorker \/ Decide \/ BackOff
    BY <1>4 DEF MonitorReaps, MonitorGivesUp, MonitorGoesOn, StopWorker, Decide, BackOff, world, history
<1>5. CASE Wait \/ Spawn \/ SpawnFails \/ Finish \/ RequestStop
    BY <1>5 DEF Wait, Spawn, SpawnFails, Finish, RequestStop, loop, world, history
<1>6. CASE Replug \/ UserTogglesVendor \/ Tick
    BY <1>6 DEF Replug, UserTogglesVendor, Tick, super, loop, world, history, Typed
<1>7. CASE \E w \in Workers : WorkerMoves(w)
    BY <1>7, WorkersMoveAlone DEF super, loop, history
<1>8. CASE UNCHANGED vars
    BY <1>8 DEF vars, super, loop, world, history
<1> QED BY Cases, <1>1, <1>2, <1>3, <1>4, <1>5, <1>6, <1>7, <1>8

LEMMA LossKept ==
    ASSUME Typed, LossInv, [Next]_vars
    PROVE  LossInv'
<1> USE Constants DEF LossInv
<1>1. CASE StartService
    BY <1>1 DEF StartService
<1>2. CASE Decide
    <2>1. pc = "decide" /\ restore_vendor' = restore_vendor
        BY <1>2 DEF Decide
    <2>2. SUFFICES ASSUME restore_vendor, pc' \notin {"off", "finish", "restore"}
                   PROVE  failures' < MaxFailures
        BY <2>1
    <2>3. failures' = Capped(Failed, MaxFailures) /\ ~(Failed >= MaxFailures)
        BY <1>2, <2>1, <2>2 DEF Decide, HandsBack
    <2>4. Failed \in Nat
        BY DEF Failed, Typed
    <2> QED BY <2>3, <2>4 DEF Capped
<1>3. CASE Look \/ Spawn \/ MonitorReaps \/ MonitorGivesUp \/ MonitorGoesOn \/ StopWorker \/ BackOff
    BY <1>3 DEF Look, Spawn, MonitorReaps, MonitorGivesUp, MonitorGoesOn, StopWorker, BackOff
<1>4. CASE Wait \/ SpawnFails \/ Finish \/ Restore \/ RequestStop \/ SupervisorDies
    BY <1>4 DEF Wait, SpawnFails, Finish, Restore, RequestStop, SupervisorDies, loop
<1>5. CASE Replug \/ UserTogglesVendor \/ Tick
    BY <1>5 DEF Replug, UserTogglesVendor, Tick, super, loop
<1>6. CASE \E w \in Workers : WorkerMoves(w)
    BY <1>6, WorkersMoveAlone DEF super, loop
<1>7. CASE UNCHANGED vars
    BY <1>7 DEF vars, super, loop
<1> QED BY Cases, <1>1, <1>2, <1>3, <1>4, <1>5, <1>6, <1>7

\* A second more of the stop is a second less of the deadline.
LEMMA SecondPasses ==
    ASSUME NEW s \in Nat, NEW a \in Nat, NEW b \in Nat, NEW l \in Nat,
           l > 0, l <= s, a + l <= s + 1, b <= a + 1
    PROVE  l - 1 <= s /\ b + (l - 1) <= s + 1 /\ b <= s + 1
OBVIOUS

LEMMA StopKept ==
    ASSUME Typed, PlaceInv, StopInv, [Next]_vars
    PROVE  StopInv'
<1> USE Constants DEF StopInv
<1>1. CASE StartService \/ Look \/ Wait \/ BackOff
    BY <1>1 DEF StartService, Look, Wait, BackOff, PlaceInv, loop, history
<1>2. CASE Spawn \/ SpawnFails \/ Decide \/ Finish \/ Restore \/ SupervisorDies
    BY <1>2 DEF Spawn, SpawnFails, Decide, Finish, Restore, SupervisorDies, loop, history
<1>3. CASE MonitorReaps \/ MonitorGivesUp \/ MonitorGoesOn
    <2>1. stop_age \in Nat /\ stop_age' = stop_age /\ stop_age <= 1 /\ stopping' = stopping
        BY <1>3 DEF MonitorReaps, MonitorGivesUp, MonitorGoesOn, history, Typed
    <2>2. CASE pc' = "stop_worker" /\ left' = StopSeconds
        BY <2>1, <2>2
    <2>3. CASE pc' = "monitor" /\ ~stopping
        BY <2>1, <2>3
    <2>4. CASE pc' = "decide"
        BY <2>1, <2>4
    <2> QED BY <1>3, <2>2, <2>3, <2>4 DEF MonitorReaps, MonitorGivesUp, MonitorGoesOn
<1>4. CASE StopWorker
    BY <1>4 DEF StopWorker, history
<1>5. CASE RequestStop
    BY <1>5 DEF RequestStop, Typed, loop, history
<1>6. CASE Replug \/ UserTogglesVendor
    BY <1>6 DEF Replug, UserTogglesVendor, super, loop, history
<1>7. CASE Tick
    <2>1. pc = "off" \/ (pc \in Sleeping /\ polled)
        BY <1>7 DEF Tick, Settled
    <2>2. stop_age \in Nat /\ left \in Nat
        BY LongEnough DEF Typed
    <2>3. stop_age' = IF stopping THEN Capped(stop_age + 1, KillGrace) ELSE 0
        BY <1>7 DEF Tick
    <2>4. stop_age' \in Nat /\ stop_age' <= stop_age + 1 /\ (~stopping => stop_age' = 0)
        <3>1. Capped(stop_age + 1, KillGrace) \in Nat /\ Capped(stop_age + 1, KillGrace) <= stop_age + 1
            BY <2>2, CappedIsSmall
        <3> QED BY <2>2, <2>3, <3>1
    <2>5. pc' = pc /\ stopping' = stopping /\ polled' = FALSE
          /\ left' = IF left > 0 THEN left - 1 ELSE 0
        BY <1>7 DEF Tick
    <2>6. CASE pc = "off"
        BY <2>4, <2>5, <2>6 DEF PlaceInv
    <2>7. CASE pc = "stop_worker" /\ polled
        <3>1. left > 0 /\ left <= StopSeconds /\ stop_age + left <= StopSeconds + 1 /\ left' = left - 1
            BY <2>5, <2>7
        <3>2. left' <= StopSeconds /\ stop_age' + left' <= StopSeconds + 1 /\ stop_age' <= StopSeconds + 1
            BY <2>2, <2>4, <3>1, SecondPasses, Constants
        <3> QED BY <2>4, <2>5, <2>7, <3>2
    <2>8. CASE pc \in {"waiting", "monitor", "backoff"} /\ polled
        <3>1. stop_age' <= 1 /\ stop_age' <= StopSeconds + 1
            BY <2>2, <2>4, <2>8
        <3> QED BY <2>4, <2>5, <2>8, <3>1
    <2> QED BY <2>1, <2>6, <2>7, <2>8 DEF Sleeping
<1>8. CASE \E w \in Workers : WorkerMoves(w)
    BY <1>8, WorkersMoveAlone DEF super, loop, history
<1>9. CASE UNCHANGED vars
    BY <1>9 DEF vars, super, loop, history
<1> QED BY Cases, <1>1, <1>2, <1>3, <1>4, <1>5, <1>6, <1>7, <1>8, <1>9

-----------------------------------------------------------------------------
(* What a step does to the condition of a worker.                          *)

Same(v) == /\ stage'[v] = stage[v] /\ hang'[v] = hang[v] /\ age'[v] = age[v] /\ since'[v] = since[v]
           /\ v \in due' <=> v \in due

Ended(v) == stage'[v] \in {"none", "zombie"} /\ hang'[v] = "none" /\ age'[v] = 0 /\ since'[v] = 0

Shuts(v) == /\ stage'[v] = "shutting"
            /\ hang'[v] = hang[v] /\ age'[v] = age[v] /\ since'[v] = since[v]

LEMMA GoneIsGone ==
    ASSUME Typed, NEW w \in Workers, NEW remains \in {"none", "zombie"}, Gone(w, remains)
    PROVE  Ended(w) /\ \A v \in Workers \ {w} : Same(v)
BY DEF Typed, Gone, Ended, Same

LEMMA Shutting ==
    ASSUME Typed, NEW w \in Workers, BeginShutdown(w)
    PROVE  Shuts(w) /\ heard' = heard /\ \A v \in Workers \ {w} : Same(v)
BY DEF Typed, BeginShutdown, Shuts, Same

\* A step of one worker: what it does to that worker and its pipe, and to no other.
LEMMA Moves ==
    ASSUME Typed, NEW w \in Workers, WorkerMoves(w)
    PROVE  /\ \A v \in Workers \ {w} : Same(v)
           /\ w # child => heard' = heard
           /\ \/ (Ended(w) \/ Shuts(w) \/ Same(w)) /\ heard' = heard
              \/ /\ stage'[w] = stage[w] \/ stage[w] = "starting"
                 /\ hang[w] = "none" \/ (hang'[w] = "none" /\ age'[w] = 0)
                 /\ since'[w] = 0 /\ age'[w] \in {0, age[w]}
                 /\ hang'[w] = "none" \/ stage'[w] = stage[w]
                 /\ heard' = heard
              \/ /\ stage[w] = "serving" /\ hang[w] # "main"
                 /\ stage'[w] = stage[w] /\ hang'[w] = hang[w] /\ age'[w] = age[w]
                 /\ since'[w] = since[w]
                 /\ \/ age[w] > StallSeconds /\ heard' = heard
                    \/ age[w] <= StallSeconds /\ w = child /\ heard' = TRUE
<1>1. CASE StartFails(w) \/ ShutdownEnds(w)
    BY <1>1, GoneIsGone DEF StartFails, ShutdownEnds, Exits
<1>2. CASE HandleTerm(w) \/ WatchdogFails(w)
    BY <1>2, Shutting DEF HandleTerm, WatchdogFails
<1>3. CASE Claim(w)
    BY <1>3 DEF Claim, workers, Same
<1>4. CASE Serve(w)
    BY <1>4 DEF Serve, Typed, Same
<1>5. CASE Hang(w)
    <2>1. PICK thread \in {"main", "queue"} : hang' = [hang EXCEPT ![w] = thread]
        BY <1>5 DEF Hang
    <2> QED BY <1>5, <2>1 DEF Hang, Typed, Same
<1>6. CASE Resume(w)
    BY <1>6 DEF Resume, Typed, Same
<1>7. CASE WatchdogBeats(w)
    <2>1. stage[w] = "serving" /\ hang[w] # "main"
        BY <1>7 DEF WatchdogBeats, MainQueueRuns
    <2>2. age[w] \in Nat /\ StallSeconds \in Nat
        BY Constants DEF Typed
    <2>3. CASE age[w] > StallSeconds
        BY <1>7, <2>1, <2>3 DEF WatchdogBeats, Stalled, Typed, Same
    <2>4. CASE ~(age[w] > StallSeconds) /\ w = child
        <3>1. heard' = TRUE /\ due' = due \ {w} /\ UNCHANGED <<stage, hang, age, term, since>>
            BY <1>7, <2>4, Zenon DEF WatchdogBeats, Stalled
        <3>2. age[w] <= StallSeconds /\ \A v \in Workers \ {w} : Same(v)
            BY <2>2, <2>4, <3>1 DEF Same
        <3> QED BY <2>1, <2>4, <3>1, <3>2
    <2>5. CASE ~(age[w] > StallSeconds) /\ w # child
        BY <1>7, <2>5, Shutting DEF WatchdogBeats, Stalled
    <2> QED BY <2>3, <2>4, <2>5
<1> QED BY <1>1, <1>2, <1>3, <1>4, <1>5, <1>6, <1>7 DEF WorkerMoves, WorkerStep

\* A second for every worker.
LEMMA Seconds ==
    ASSUME Typed, Tick, NEW w \in Workers
    PROVE  /\ stage'[w] = stage[w] /\ hang'[w] = hang[w]
           /\ since'[w] \in Nat /\ since'[w] <= since[w] + 1
           /\ ~(stage[w] = "serving" /\ hang[w] = "queue") => age'[w] = 0
           /\ stage[w] = "serving" /\ hang[w] = "queue" =>
                  age'[w] > StallSeconds \/ age'[w] = age[w] + 1
           /\ stage[w] = "serving" => w \in due'
<1>1. age[w] \in Nat /\ since[w] \in Nat /\ StallSeconds \in Nat /\ MaxAge \in Nat
    BY Constants DEF Typed
<1>2. since'[w] = IF w = child THEN Capped(since[w] + 1, MaxAge) ELSE 0
    BY DEF Tick
<1>3. age'[w] = IF stage[w] = "serving" /\ hang[w] = "queue"
                THEN Capped(age[w] + 1, StallSeconds + 1) ELSE 0
    BY DEF Tick
<1>4. since'[w] \in Nat /\ since'[w] <= since[w] + 1
    BY <1>1, <1>2 DEF Capped
<1>5. stage[w] = "serving" /\ hang[w] = "queue" => age'[w] > StallSeconds \/ age'[w] = age[w] + 1
    BY <1>1, <1>3 DEF Capped
<1> QED BY <1>3, <1>4, <1>5 DEF Tick

-----------------------------------------------------------------------------
(* Silence, hangs and heartbeats.                                          *)

LEMMA AgeKept ==
    ASSUME Typed, PlaceInv, AgeInv, [Next]_vars
    PROVE  AgeInv'
<1>1. SUFFICES ASSUME NEW v \in Workers
               PROVE  /\ hang'[v] # "queue" => age'[v] = 0
                      /\ hang'[v] = "queue" /\ stage'[v] = "serving" =>
                             age'[v] > StallSeconds \/ since'[v] <= age'[v]
    BY DEF AgeInv
<1>2. /\ hang[v] # "queue" => age[v] = 0
      /\ hang[v] = "queue" /\ stage[v] = "serving" => age[v] > StallSeconds \/ since[v] <= age[v]
    BY DEF AgeInv
<1>3. age[v] \in Nat /\ since[v] \in Nat /\ StallSeconds \in Nat
    BY Constants DEF Typed
<1>4. CASE Ended(v) \/ Same(v) \/ Shuts(v)
    BY <1>2, <1>3, <1>4 DEF Ended, Same, Shuts
<1>5. ASSUME NEW w \in Workers, WorkerMoves(w) PROVE Ended(v) \/ Same(v) \/ Shuts(v) \/ v = w
    BY <1>5, Moves
<1>6. CASE WorkerMoves(v)
    <2>1. CASE Ended(v) \/ Same(v) \/ Shuts(v)
        BY <1>4, <2>1
    <2>2. CASE /\ hang[v] = "none" \/ (hang'[v] = "none" /\ age'[v] = 0)
               /\ since'[v] = 0 /\ age'[v] \in {0, age[v]}
        BY <1>2, <1>3, <2>2
    <2>3. CASE /\ stage'[v] = stage[v] /\ hang'[v] = hang[v] /\ age'[v] = age[v] /\ since'[v] = since[v]
        BY <1>2, <2>3
    <2> QED BY <1>6, <2>1, <2>2, <2>3, Moves
<1>7. CASE Tick
    BY <1>2, <1>3, <1>7, Seconds
<1>8. CASE Spawn
    <2>1. PICK w \in Workers : /\ stage[w] = "none" /\ stage' = [stage EXCEPT ![w] = "starting"]
                               /\ since' = [since EXCEPT ![w] = 0]
        BY <1>8 DEF Spawn, FreeSlots
    <2>2. hang' = hang /\ age' = age
        BY <1>8 DEF Spawn
    <2> QED BY <1>2, <1>3, <2>1, <2>2 DEF Typed
<1>9. CASE MonitorReaps \/ StopWorker \/ MonitorGivesUp
    <2>1. child \in Workers
        BY <1>9 DEF MonitorReaps, StopWorker, MonitorGivesUp, PlaceInv
    <2>2. CASE Gone(child, "none") \/ Gone(child, "zombie")
        BY <1>4, <2>1, <2>2, GoneIsGone
    <2>3. CASE UNCHANGED <<stage, hang, age, since>>
        BY <1>2, <2>3
    <2> QED BY <1>9, <2>2, <2>3 DEF MonitorReaps, StopWorker, MonitorGivesUp, Reap, Terminate
<1>10. CASE SupervisorDies
    <2>1. stage'[v] = stage[v] \/ stage'[v] = "none"
        BY <1>10 DEF SupervisorDies
    <2>2. since'[v] = 0 /\ hang'[v] = hang[v] /\ age'[v] = age[v]
        BY <1>10 DEF SupervisorDies
    <2> QED BY <1>2, <1>3, <2>1, <2>2
<1>11. CASE UNCHANGED <<stage, hang, age, since>>
    BY <1>2, <1>11
<1>12. CASE \/ StartService \/ Look \/ Wait \/ SpawnFails \/ MonitorGoesOn \/ Decide \/ BackOff \/ Finish
            \/ Restore \/ RequestStop \/ Replug \/ UserTogglesVendor \/ UNCHANGED vars
    BY <1>11, <1>12 DEF StartService, Look, Wait, SpawnFails, MonitorGoesOn, Decide, BackOff, Finish,
       Restore, RequestStop, Replug, UserTogglesVendor, workers, vars
<1> QED BY Cases, <1>4, <1>5, <1>6, <1>7, <1>8, <1>9, <1>10, <1>12

\* Steps that leave the child, its deadline and its pipe as they are.
LEMMA Elsewhere ==
    ASSUME Typed, PlaceInv, [Next]_vars,
           ~Spawn, ~MonitorGivesUp, ~MonitorGoesOn, ~StopWorker, ~Tick,
           \A w \in Workers : ~WorkerMoves(w), pc' \in {"monitor", "stop_worker"}
    PROVE  UNCHANGED <<pc, child, left, ready, polled, heard, stage, hang, age, since, due>>
<1>1. CASE RequestStop \/ Replug \/ UserTogglesVendor \/ UNCHANGED vars
    BY <1>1 DEF RequestStop, Replug, UserTogglesVendor, vars, super, loop, workers
<1>2. CASE \/ StartService \/ Look \/ Wait \/ SpawnFails \/ MonitorReaps \/ Decide \/ BackOff \/ Finish
           \/ Restore \/ SupervisorDies
    BY <1>2 DEF StartService, Look, Wait, SpawnFails, MonitorReaps, Decide, BackOff, Finish, Restore,
       SupervisorDies
<1> QED BY Cases, <1>1, <1>2

\* SIGTERM kills a worker that starts, and is only noted by any other.
LEMMA Terminated ==
    ASSUME Typed, NEW w \in Workers, Terminate(w)
    PROVE  Ended(w) \/ (stage'[w] = stage[w] /\ hang'[w] = hang[w] /\ since'[w] = since[w])
BY GoneIsGone DEF Terminate

LEMMA HangKept ==
    ASSUME Typed, PlaceInv, StopInv, AgeInv, HangInv, [Next]_vars
    PROVE  HangInv'
<1> USE Constants
<1>0. /\ left \in Nat /\ StallSeconds + 1 \in Nat
      /\ child \in Workers => since[child] \in Nat /\ age[child] \in Nat /\ hang[child] \in Hangs
    BY LongEnough DEF Typed
<1>1. CASE Spawn
    <2>1. PICK w \in Workers : child' = w /\ since' = [since EXCEPT ![w] = 0]
        BY <1>1 DEF Spawn, FreeSlots
    <2>2. since'[child'] = 0
        BY <2>1 DEF Typed
    <2>3. pc' = "monitor" /\ left' = StartupSeconds /\ ready' = Unheard /\ ~polled' /\ ~heard'
        BY <1>1 DEF Spawn
    <2> QED BY <2>2, <2>3 DEF HangInv
<1>2. CASE MonitorGivesUp
    <2>1. /\ pc = "monitor" /\ pc' = "stop_worker" /\ left' = StopSeconds /\ child' = child
          /\ child \in Workers /\ Terminate(child)
          /\ ready' = IF heard /\ ~stopping /\ ready = Unheard THEN 0 ELSE ready
        BY <1>2 DEF MonitorGivesUp, PlaceInv
    <2>2. CASE Ended(child)
        BY <2>1, <2>2 DEF HangInv, Ended
    <2>3. CASE stage'[child] = stage[child] /\ hang'[child] = hang[child] /\ since'[child] = since[child]
        <3>1. hang[child] # "none" /\ ready' = Unheard => since[child] <= StartupSeconds
            BY <1>0, <2>1 DEF HangInv
        <3>2. hang[child] # "none" /\ ready' # Unheard =>
                  since[child] <= StallSeconds + 1 + HeartbeatSeconds
            BY <1>0, <2>1 DEF HangInv
        <3> QED BY <1>0, <2>1, <2>3, <3>1, <3>2 DEF HangInv
    <2> QED BY <2>1, <2>2, <2>3, Terminated
<1>3. CASE MonitorGoesOn
    <2>1. /\ pc = "monitor" /\ pc' = pc /\ child' = child /\ since' = since /\ hang' = hang
          /\ child \in Workers /\ (left > 0 \/ heard) /\ heard' = FALSE /\ polled' = TRUE
        BY <1>3 DEF MonitorGoesOn, Heed, PlaceInv
    <2>2. CASE heard
        <3>1. left' = HeartbeatSeconds /\ ready' # Unheard
            BY <1>3, <2>2 DEF MonitorGoesOn, Heed
        <3>2. hang[child] # "none" => since[child] <= StallSeconds + 1
            BY <1>0, <2>1, <2>2 DEF HangInv
        <3> QED BY <1>0, <2>1, <3>1, <3>2 DEF HangInv
    <2>3. CASE ~heard
        BY <1>3, <2>1, <2>3 DEF MonitorGoesOn, Heed, HangInv
    <2> QED BY <2>2, <2>3
<1>4. CASE StopWorker
    <2>1. \/ pc' = "decide"
          \/ UNCHANGED <<pc, child, hang, since, left, ready>> /\ pc = "stop_worker"
        BY <1>4 DEF StopWorker
    <2> QED BY <2>1 DEF HangInv
<1>5. CASE Tick
    <2>1. /\ pc' = pc /\ child' = child /\ heard' = heard /\ polled' = FALSE
          /\ left' = IF left > 0 THEN left - 1 ELSE 0
        BY <1>5 DEF Tick
    <2>2. ready' = Unheard <=> ready = Unheard
        BY <1>5 DEF Tick, Typed, Capped
    <2>3. SUFFICES ASSUME pc \in {"monitor", "stop_worker"} PROVE HangInv'
        BY <2>1 DEF HangInv
    <2>4. /\ child \in Workers /\ hang'[child] = hang[child]
          /\ since'[child] \in Nat /\ since'[child] <= since[child] + 1
        BY <1>5, <2>3, Seconds DEF PlaceInv
    <2>5. polled
        BY <1>5, <2>3 DEF Tick, Settled
    <2>6. left > 0 /\ left' = left - 1
        BY <2>1, <2>3, <2>5 DEF HangInv, StopInv
    <2>7. since'[child] + left' <= since[child] + left
        BY <1>0, <2>4, <2>6
    <2>8. CASE pc = "monitor"
        <3>1. hang[child] # "none" /\ heard => since'[child] <= StallSeconds + 1
            BY <1>0, <2>4, <2>5, <2>8 DEF HangInv
        <3>2. ready = Unheard => since'[child] + left' <= StartupSeconds
            BY <1>0, <2>4, <2>6, <2>7, <2>8 DEF HangInv
        <3>3. ready # Unheard => left' <= HeartbeatSeconds
            BY <1>0, <2>6, <2>8 DEF HangInv
        <3>4. hang[child] # "none" /\ ready # Unheard =>
                  since'[child] + left' <= StallSeconds + 1 + HeartbeatSeconds
            BY <1>0, <2>4, <2>6, <2>7, <2>8 DEF HangInv
        <3> QED BY <2>1, <2>2, <2>4, <2>8, <3>1, <3>2, <3>3, <3>4 DEF HangInv
    <2>9. CASE pc = "stop_worker"
        <3>1. hang[child] # "none" => since'[child] + left' <= StopSeconds +
                  IF ready = Unheard THEN StartupSeconds ELSE StallSeconds + 1 + HeartbeatSeconds
            BY <1>0, <2>4, <2>6, <2>7, <2>9 DEF HangInv
        <3> QED BY <2>1, <2>2, <2>4, <2>9, <3>1 DEF HangInv
    <2> QED BY <2>3, <2>8, <2>9
<1>6. ASSUME NEW w \in Workers, WorkerMoves(w) PROVE HangInv'
    <2>1. pc' = pc /\ child' = child /\ left' = left /\ ready' = ready /\ polled' = polled
        BY <1>6, WorkersMoveAlone DEF super, loop
    <2>2. CASE pc \notin {"monitor", "stop_worker"}
        BY <2>1, <2>2 DEF HangInv
    <2>3. CASE pc \in {"monitor", "stop_worker"}
        <3>1. child \in Workers
            BY <2>3 DEF PlaceInv
        <3>2. CASE /\ hang'[child] = hang[child] /\ since'[child] = since[child]
                   /\ heard' = heard \/ (hang[child] # "main" /\ (hang[child] = "queue" => since[child] <= StallSeconds))
            BY <1>0, <2>1, <2>3, <3>1, <3>2 DEF HangInv, Hangs
        <3>3. CASE since'[child] = 0 /\ heard' = heard
            BY <1>0, <2>1, <2>3, <3>1, <3>3 DEF HangInv, StopInv
        <3>4. ASSUME stage[child] = "serving", age[child] <= StallSeconds, hang[child] = "queue"
              PROVE  since[child] <= StallSeconds
            BY <1>0, <3>1, <3>4 DEF AgeInv
        <3>5. CASE w = child
            BY <1>6, <3>1, <3>2, <3>3, <3>4, <3>5, Moves DEF Ended, Shuts, Same
        <3>6. CASE w # child
            BY <1>6, <3>1, <3>2, <3>6, Moves DEF Same
        <3> QED BY <3>5, <3>6
    <2> QED BY <2>2, <2>3
<1>7. CASE pc' \notin {"monitor", "stop_worker"}
    BY <1>7 DEF HangInv
<1>8. CASE UNCHANGED <<pc, child, left, ready, polled, heard, stage, hang, age, since, due>>
    BY <1>8 DEF HangInv
<1> QED BY Elsewhere, <1>1, <1>2, <1>3, <1>4, <1>5, <1>6, <1>7, <1>8

LEMMA BeatKept ==
    ASSUME Typed, PlaceInv, AgeInv, HangInv, BeatInv, [Next]_vars
    PROVE  BeatInv'
<1> USE Constants
<1>0. /\ left \in Nat
      /\ child \in Workers => since[child] \in Nat /\ age[child] \in Nat
    BY LongEnough DEF Typed
<1>1. CASE Spawn
    <2>1. PICK w \in Workers : child' = w /\ stage' = [stage EXCEPT ![w] = "starting"]
        BY <1>1 DEF Spawn, FreeSlots
    <2>2. stage'[child'] = "starting"
        BY <2>1 DEF Typed
    <2> QED BY <2>2 DEF BeatInv
<1>2. CASE MonitorGoesOn
    <2>1. /\ pc = "monitor" /\ child' = child /\ UNCHANGED <<since, hang, stage, due>>
          /\ IF heard THEN left' = HeartbeatSeconds ELSE left' = left
        BY <1>2 DEF MonitorGoesOn, Heed
    <2>2. child \in Workers
        BY <2>1 DEF PlaceInv
    <2> QED BY <1>0, <2>1, <2>2 DEF BeatInv
<1>3. CASE Tick
    <2>1. /\ pc' = pc /\ child' = child /\ heard' = heard
          /\ left' = IF left > 0 THEN left - 1 ELSE 0
        BY <1>3 DEF Tick
    <2>2. SUFFICES ASSUME pc = "monitor", stage[child] = "serving", hang[child] = "none"
                   PROVE  BeatInv'
        <3>1. pc = "monitor" => stage'[child] = stage[child] /\ hang'[child] = hang[child]
            BY <1>3, Seconds DEF PlaceInv
        <3> QED BY <2>1, <3>1 DEF BeatInv
    <2>3. /\ child \in Workers /\ child \in due'
          /\ since'[child] \in Nat /\ since'[child] <= since[child] + 1
        BY <1>3, <2>2, Seconds DEF PlaceInv
    <2>4. polled /\ child \notin due
        BY <1>3, <2>2, <2>3 DEF Tick, Settled, MainQueueRuns
    <2>5. left' = left - 1
        BY <2>1, <2>2, <2>4 DEF HangInv
    <2>6. since'[child] >= 2 => heard \/ left = HeartbeatSeconds
        BY <1>0, <2>2, <2>3, <2>4 DEF BeatInv
    <2> QED BY <2>1, <2>3, <2>5, <2>6 DEF BeatInv
<1>4. ASSUME NEW w \in Workers, WorkerMoves(w) PROVE BeatInv'
    <2>1. pc' = pc /\ child' = child /\ left' = left
        BY <1>4, WorkersMoveAlone DEF super, loop
    <2>2. SUFFICES ASSUME pc = "monitor", stage'[child] = "serving", hang'[child] = "none"
                   PROVE  BeatInv'
        BY <2>1 DEF BeatInv
    <2>3. child \in Workers
        BY <2>2 DEF PlaceInv
    <2>4. CASE Same(child) /\ heard' = heard
        BY <2>1, <2>2, <2>4 DEF BeatInv, Same
    <2>5. CASE since'[child] = 0 \/ heard' = TRUE
        BY <2>1, <2>5 DEF BeatInv
    <2>6. age[child] > StallSeconds => hang[child] = "queue"
        BY <1>0, <2>3 DEF AgeInv
    <2> QED BY <1>4, <2>2, <2>3, <2>4, <2>5, <2>6, Moves DEF Ended, Shuts
<1>5. CASE pc' # "monitor"
    BY <1>5 DEF BeatInv
<1>6. CASE UNCHANGED <<pc, child, left, ready, polled, heard, stage, hang, age, since, due>>
    BY <1>6 DEF BeatInv
<1>7. CASE MonitorGivesUp \/ StopWorker
    <2>1. pc' # "monitor"
        BY <1>7 DEF MonitorGivesUp, StopWorker
    <2> QED BY <1>5, <2>1
<1> QED BY Elsewhere, <1>1, <1>2, <1>3, <1>4, <1>5, <1>6, <1>7

-----------------------------------------------------------------------------
(* The theorems.                                                           *)

LEMMA Invariance == Spec => []IInv
<1>1. Init => IInv
    <2> USE Constants, LongEnough DEF Init
    <2>1. ASSUME Init PROVE Typed
        <3>1. /\ age \in [Workers -> 0 .. StallSeconds + 1] /\ since \in [Workers -> 0 .. MaxAge]
              /\ stage \in [Workers -> Conditions] /\ hang \in [Workers -> Hangs]
            BY <2>1 DEF Conditions, Hangs
        <3>2. /\ backoff \in 1 .. MaxBackoff /\ failures \in 0 .. MaxFailures
              /\ left \in 0 .. Longest /\ stop_age \in 0 .. KillGrace /\ crashes \in 0 .. MaxCrashes
            BY <2>1
        <3>3. pc \in Places /\ status \in Phases
            BY <2>1 DEF Places, Sleeping, Phases
        <3> QED BY <2>1, <3>1, <3>2, <3>3 DEF Typed
    <2>2. Init => PlaceInv /\ VendorInv /\ LossInv /\ StopInv /\ HangInv /\ BeatInv
        BY DEF PlaceInv, VendorInv, LossInv, StopInv, HangInv, BeatInv
    <2>3. Init => AgeInv
        BY DEF AgeInv
    <2> QED BY <2>1, <2>2, <2>3 DEF IInv
<1>2. IInv /\ [Next]_vars => IInv'
    BY TypesKept, PlaceKept, VendorKept, LossKept, StopKept, AgeKept, HangKept, BeatKept DEF IInv
<1> QED BY <1>1, <1>2, PTL DEF Spec

\* The supervisor's locals, its workers and the world keep their types.
THEOREM TypeCorrect == Spec => []TypeOK
<1>1. IInv => TypeOK
    BY Types DEF IInv
<1> QED BY <1>1, Invariance, PTL

\* For all deadlines: a worker that hangs, wherever and whenever, is gone within those that
\* apply to it (the monitor loop's, the watchdog's and stop_worker's).
THEOREM HangsEnd == Spec => []HangsAreBounded
<1>1. IInv => HangsAreBounded
    <2> SUFFICES ASSUME IInv, child # Nobody, hang[child] # "none" PROVE HangsAreBounded
        BY DEF HangsAreBounded
    <2>1. pc \in {"monitor", "stop_worker"} /\ child \in Workers
        BY DEF IInv, PlaceInv
    <2>2. since[child] \in Nat /\ left \in Nat
        BY <2>1, LongEnough DEF IInv, Typed
    <2> QED BY <2>1, <2>2, Constants DEF IInv, HangInv, HangsAreBounded
<1> QED BY <1>1, Invariance, PTL

\* If the lifecycle command waits for two seconds more than a worker may take to stop, as it
\* does (12 s against 8, and 10 with diagnostics), no supervisor that was told to stop is
\* killed, whatever its worker does.
THEOREM StopsAreInTime ==
    ASSUME StopSeconds + 1 < KillGrace
    PROVE  Spec => []StopBeatsTheKill
<1>1. IInv => StopBeatsTheKill
    BY Constants DEF IInv, Typed, StopInv, StopBeatsTheKill
<1> QED BY <1>1, Invariance, PTL

\* Whatever is opened, stopped and plugged in, and whenever: DisplayLink runs beside a worker
\* only if somebody else opened it since the service stopped it; Oizys never puts it there.
THEOREM DockHasOneOwner == Spec => []NeverBoth
<1>1. IInv => NeverBoth
    BY DEF IInv, PlaceInv, VendorInv, NeverBoth
<1> QED BY <1>1, Invariance, PTL

\* With a deadline of more than a second, the monitor loop gives up no worker that beats:
\* whatever the order of heartbeats and polls, it falls on silence alone.
THEOREM OnlyTheSilentAreStopped ==
    ASSUME HeartbeatSeconds > 1
    PROVE  Spec => OnlySilenceTimesOut
<1>1. ASSUME IInv, Next, pc = "monitor", pc' = "stop_worker", ~stopping, dock,
             ready # Unheard, stage[child] = "serving", hang[child] = "none", since[child] >= 2
      PROVE  FALSE
    <2>1. MonitorGivesUp
        <3>1. ~(StartService \/ Look \/ Wait \/ Spawn \/ SpawnFails \/ MonitorReaps \/ MonitorGoesOn
                  \/ StopWorker \/ Decide \/ BackOff \/ Finish \/ Restore \/ SupervisorDies)
            BY <1>1 DEF StartService, Look, Wait, Spawn, SpawnFails, MonitorReaps, MonitorGoesOn,
               StopWorker, Decide, BackOff, Finish, Restore, SupervisorDies
        <3>2. ~(RequestStop \/ Replug \/ UserTogglesVendor \/ Tick)
            BY <1>1 DEF RequestStop, Replug, UserTogglesVendor, Tick, super
        <3>3. ~\E w \in Workers : WorkerMoves(w)
            BY <1>1, WorkersMoveAlone DEF super
        <3> QED BY <1>1, <3>1, <3>2, <3>3 DEF Next, SupervisorStep, WorkerMoves
    <2>2. left = 0 /\ ~heard
        BY <1>1, <2>1 DEF MonitorGivesUp
    <2>3. heard \/ left >= HeartbeatSeconds - 1
        BY <1>1 DEF IInv, BeatInv
    <2> QED BY <2>2, <2>3, Constants
<1>2. IInv /\ [Next]_vars =>
        [pc = "monitor" /\ pc' = "stop_worker" /\ ~stopping /\ dock =>
             ~(/\ ready # Unheard /\ stage[child] = "serving"
               /\ hang[child] = "none" /\ since[child] >= 2)]_vars
    BY <1>1
<1> QED BY <1>2, Invariance, PTL DEF Spec, OnlySilenceTimesOut

\* For any number of failures that are enough, of seconds that clear them, and of crashes: a
\* service that is to hand the dock back counts every loss of a worker, and no loss is forgotten
\* but for a worker that served; when it has had enough it starts no other.
THEOREM LossesAreCounted == Spec => LossesAddUp
<1>1. ASSUME IInv, [Next]_vars, pc # "off", restore_vendor
      PROVE  /\ failures' < failures => pc = "decide" /\ ready = StableSeconds
             /\ pc = "decide" /\ pc' # pc /\ ready # StableSeconds =>
                    failures' > failures \/ pc' \in {"finish", "off"}
             /\ child' \notin {child, Nobody} => failures < MaxFailures
    <2>0. failures \in Nat /\ ~(failures < failures) /\ PlaceInv /\ LossInv
        BY <1>1 DEF IInv, Typed
    <2> USE <2>0, Constants
    <2>1. CASE Decide
        <3>1. pc = "decide" /\ child' = child
            BY <1>1, <2>1 DEF Decide
        <3>2. failures < MaxFailures
            BY <1>1, <3>1 DEF LossInv
        <3>3. ready # StableSeconds => Failed = 1 + failures
            BY DEF Failed
        <3>4. CASE stopping
            BY <1>1, <2>1, <3>1, <3>4 DEF Decide
        <3>5. CASE ~stopping
            <4>1. failures' = Capped(Failed, MaxFailures)
                BY <1>1, <2>1, <3>5 DEF Decide
            <4>2. ready # StableSeconds => failures' = 1 + failures
                BY <1>1, <3>2, <3>3, <4>1 DEF Capped
            <4> QED BY <1>1, <3>1, <4>2
        <3> QED BY <3>4, <3>5
    <2>2. CASE Spawn
        BY <1>1, <2>2 DEF Spawn, LossInv
    <2>3. CASE Look \/ BackOff \/ MonitorGoesOn \/ MonitorGivesUp
        BY <1>1, <2>3 DEF Look, Heed, BackOff, MonitorGoesOn, MonitorGivesUp
    <2>4. CASE MonitorReaps \/ StopWorker
        BY <1>1, <2>4 DEF MonitorReaps, StopWorker, Reap
    <2>5. CASE Wait \/ SpawnFails \/ Finish \/ Restore \/ RequestStop \/ SupervisorDies
        BY <1>1, <2>5 DEF Wait, SpawnFails, Finish, Restore, RequestStop, SupervisorDies, loop
    <2>6. CASE Replug \/ UserTogglesVendor \/ Tick
        BY <1>1, <2>6 DEF Replug, UserTogglesVendor, Tick, super, loop
    <2>7. CASE \E w \in Workers : WorkerMoves(w)
        BY <1>1, <2>7, WorkersMoveAlone DEF super, loop
    <2>8. CASE UNCHANGED vars
        BY <1>1, <2>8 DEF vars, super, loop
    <2>9. ~StartService
        BY <1>1 DEF StartService
    <2> QED BY <1>1, Cases, <2>1, <2>2, <2>3, <2>4, <2>5, <2>6, <2>7, <2>8, <2>9
<1>2. IInv /\ [Next]_vars =>
        [pc # "off" /\ restore_vendor =>
           /\ failures' < failures => pc = "decide" /\ ready = StableSeconds
           /\ pc = "decide" /\ pc' # pc /\ ready # StableSeconds =>
                  failures' > failures \/ pc' \in {"finish", "off"}
           /\ child' \notin {child, Nobody} => failures < MaxFailures]_vars
    BY <1>1
<1> QED BY <1>2, Invariance, PTL DEF Spec, LossesAddUp

-----------------------------------------------------------------------------
(* The status record.                                                      *)

\* "forwarding" is published, and kept, in the monitor loop alone, of a child that was heard;
\* one is heard only once it serves, and the second of its death is the last it is awaited.
VouchInv ==
    /\ status = "forwarding" /\ ~stopping => pc = "monitor" /\ ready # Unheard
    /\ pc = "monitor" =>
        /\ heard \/ ready # Unheard => stage[child] # "starting"
        /\ stage[child] = "zombie" => since[child] <= IF polled THEN 0 ELSE 1

LEMMA RecordKept ==
    ASSUME Typed, PlaceInv, VouchInv, [Next]_vars
    PROVE  status' = "forwarding" /\ ~stopping' => pc' = "monitor" /\ ready' # Unheard
<1> USE DEF VouchInv
<1>1. CASE StartService \/ Look \/ Spawn \/ MonitorReaps \/ Finish \/ Restore \/ SupervisorDies
    BY <1>1 DEF StartService, Look, Spawn, MonitorReaps, Finish, Restore, SupervisorDies
<1>2. CASE Wait \/ SpawnFails \/ StopWorker \/ Decide \/ BackOff
    BY <1>2 DEF Wait, SpawnFails, StopWorker, Decide, BackOff
<1>3. CASE MonitorGivesUp
    BY <1>3 DEF MonitorGivesUp
<1>4. CASE MonitorGoesOn
    BY <1>4, Constants DEF MonitorGoesOn, Heed
<1>5. CASE RequestStop
    BY <1>5 DEF RequestStop
<1>6. CASE Tick
    <2>1. UNCHANGED <<pc, status, stopping>> /\ (ready # Unheard => ready' # Unheard)
        <3>1. ready # Unheard => ready \in 0 .. StableSeconds
            BY DEF Typed
        <3>2. ready # Unheard => ready' \in Nat
            BY <1>6, <3>1, Constants DEF Tick, Capped
        <3> QED BY <1>6, <3>2, Constants DEF Tick
    <2> QED BY <2>1
<1>7. CASE Replug \/ UserTogglesVendor \/ UNCHANGED vars
    BY <1>7 DEF Replug, UserTogglesVendor, vars, super, loop
<1>8. CASE \E w \in Workers : WorkerMoves(w)
    BY <1>8, WorkersMoveAlone DEF super, loop
<1> QED BY Cases, <1>1, <1>2, <1>3, <1>4, <1>5, <1>6, <1>7, <1>8

LEMMA VouchKept ==
    ASSUME Typed, PlaceInv, VouchInv, [Next]_vars
    PROVE  VouchInv'
<1> USE Constants
<1>0. child \in Workers => since[child] \in Nat
    BY DEF Typed
<1>1. SUFFICES ASSUME pc' = "monitor"
               PROVE  /\ heard' \/ ready' # Unheard => stage'[child'] # "starting"
                      /\ stage'[child'] = "zombie" => since'[child'] <= IF polled' THEN 0 ELSE 1
    BY RecordKept DEF VouchInv
<1>2. CASE Spawn
    <2>1. PICK w \in Workers : child' = w /\ stage' = [stage EXCEPT ![w] = "starting"]
        BY <1>2 DEF Spawn, FreeSlots
    <2>2. stage'[child'] = "starting" /\ ~heard' /\ ready' = Unheard
        BY <1>2, <2>1 DEF Spawn, Typed
    <2> QED BY <2>2
<1>3. CASE MonitorGoesOn
    BY <1>3 DEF MonitorGoesOn, Heed, VouchInv
<1>4. CASE Tick
    <2>1. /\ pc = "monitor" /\ child' = child /\ heard' = heard /\ polled' = FALSE /\ polled
          /\ (ready = Unheard => ready' = Unheard)
        BY <1>1, <1>4 DEF Tick, Settled
    <2>2. child \in Workers
        BY <2>1 DEF PlaceInv
    <2>3. stage'[child] = stage[child] /\ since'[child] \in Nat /\ since'[child] <= since[child] + 1
        BY <1>4, <2>2, Seconds
    <2> QED BY <1>0, <2>1, <2>2, <2>3 DEF VouchInv
<1>5. ASSUME NEW w \in Workers, WorkerMoves(w)
      PROVE  /\ heard' \/ ready' # Unheard => stage'[child'] # "starting"
             /\ stage'[child'] = "zombie" => since'[child'] <= IF polled' THEN 0 ELSE 1
    <2>1. pc = "monitor" /\ child' = child /\ ready' = ready /\ polled' = polled
        BY <1>1, <1>5, WorkersMoveAlone DEF super, loop
    <2>2. child \in Workers
        BY <2>1 DEF PlaceInv
    <2>3. CASE (Same(child) \/ Shuts(child) \/ Ended(child)) /\ heard' = heard
        BY <1>0, <2>1, <2>2, <2>3 DEF VouchInv, Same, Shuts, Ended
    <2>4. CASE /\ stage'[child] = stage[child] \/ stage[child] = "starting"
               /\ since'[child] = 0 /\ heard' = heard
        BY <2>1, <2>2, <2>4 DEF VouchInv
    <2>5. CASE stage[child] = "serving" /\ stage'[child] = stage[child]
        BY <2>1, <2>5
    <2> QED BY <1>5, <2>2, <2>3, <2>4, <2>5, Moves
<1>6. CASE UNCHANGED <<pc, child, left, ready, polled, heard, stage, hang, age, since, due>>
    BY <1>1, <1>6 DEF VouchInv
<1>7. ~MonitorGivesUp /\ ~StopWorker
    <2>1. ~MonitorGivesUp
        BY <1>1 DEF MonitorGivesUp
    <2>2. ~StopWorker
        BY <1>1 DEF StopWorker
    <2> QED BY <2>1, <2>2
<1> QED BY Elsewhere, <1>1, <1>2, <1>3, <1>4, <1>5, <1>6, <1>7

\* Whatever the order of heartbeats, deaths, polls and stops: who reads "forwarding" in the
\* record reads it of a worker that has been heard, and that died within the last second if it
\* is dead.
THEOREM ForwardingIsTrue == Spec => []ForwardingIsVouchedFor
<1>1. Init => VouchInv
    BY DEF Init, VouchInv
<1>2. IInv /\ VouchInv /\ [Next]_vars => VouchInv'
    BY VouchKept DEF IInv
<1>3. IInv /\ VouchInv => ForwardingIsVouchedFor
    <2> SUFFICES ASSUME IInv, VouchInv, status = "forwarding", ~stopping
                 PROVE  ForwardingIsVouchedFor
        BY DEF ForwardingIsVouchedFor
    <2>1. pc = "monitor" /\ ready # Unheard /\ child \in Workers
        BY DEF VouchInv, IInv, PlaceInv
    <2>2. stage[child] = "zombie" => since[child] <= 1
        <3>1. since[child] \in Nat
            BY <2>1 DEF IInv, Typed, Constants
        <3> QED BY <2>1, <3>1 DEF VouchInv
    <2> QED BY <2>1, <2>2, Constants DEF VouchInv, ForwardingIsVouchedFor
<1> QED BY <1>1, <1>2, <1>3, Invariance, PTL DEF Spec

-----------------------------------------------------------------------------
(* Orphans.                                                                *)

\* A step of an orphan whose calls return: its watchdog is not silent, and writes to nobody.
LEMMA OrphansAdvance ==
    ASSUME IInv, NEW w \in Workers, Orphan(w), hang[w] = "none", WorkerStep(w)
    PROVE  Ahead(stage'[w]) < Ahead(stage[w])
<1>1. stage[w] \in {"starting", "serving", "shutting"} /\ w # child /\ Typed
    BY DEF Orphan, Alive, IInv
<1>2. ~Stalled(w)
    BY Constants DEF IInv, AgeInv, Stalled
<1>3. CASE Serve(w)
    BY <1>1, <1>3 DEF Serve, Typed, Ahead
<1>4. CASE StartFails(w) \/ ShutdownEnds(w)
    <2>1. stage'[w] = "none"
        BY <1>1, <1>4 DEF StartFails, ShutdownEnds, Exits, Gone, Typed
    <2> QED BY <1>1, <2>1 DEF Ahead
<1>5. CASE HandleTerm(w) \/ WatchdogFails(w) \/ WatchdogBeats(w)
    <2>1. BeginShutdown(w) /\ stage[w] = "serving"
        BY <1>1, <1>2, <1>5 DEF HandleTerm, WatchdogFails, WatchdogBeats, MainQueueRuns
    <2> QED BY <1>1, <2>1 DEF BeginShutdown, Typed, Ahead
<1> QED BY <1>3, <1>4, <1>5 DEF WorkerStep

\* Nothing else moves an orphan on or back, and no supervisor adopts it.
LEMMA OrphansStay ==
    ASSUME IInv, [Next]_vars, NEW w \in Workers, Orphan(w)
    PROVE  child' # w /\ Ahead(stage'[w]) <= Ahead(stage[w])
<1>1. stage[w] \in {"starting", "serving", "shutting"} /\ w # child /\ Typed /\ PlaceInv
    BY DEF Orphan, Alive, IInv
<1>2. w # Nobody
    BY Constants
<1>3. CASE stage'[w] = stage[w] /\ child' = child
    BY <1>1, <1>3 DEF Ahead
<1>4. CASE Spawn
    <2>1. PICK v \in Workers : /\ stage[v] = "none" /\ child' = v
                               /\ stage' = [stage EXCEPT ![v] = "starting"]
        BY <1>4 DEF Spawn, FreeSlots
    <2>2. v # w /\ stage'[w] = stage[w]
        BY <1>1, <2>1 DEF Typed
    <2> QED BY <1>1, <2>1, <2>2 DEF Ahead
<1>5. CASE MonitorReaps \/ StopWorker \/ MonitorGivesUp
    <2>1. child \in Workers /\ child' \in {child, Nobody}
        BY <1>1, <1>5 DEF MonitorReaps, StopWorker, MonitorGivesUp, PlaceInv, Reap
    <2>2. stage'[w] = stage[w]
        BY <1>1, <1>5, <2>1 DEF MonitorReaps, StopWorker, MonitorGivesUp, Reap, Terminate, Gone, Typed
    <2> QED BY <1>1, <1>2, <2>1, <2>2 DEF Ahead
<1>6. CASE SupervisorDies
    <2>1. stage'[w] = stage[w] /\ child' = Nobody
        BY <1>1, <1>6 DEF SupervisorDies
    <2> QED BY <1>1, <1>2, <2>1 DEF Ahead
<1>7. ASSUME NEW v \in Workers, WorkerMoves(v)
      PROVE  child' # w /\ Ahead(stage'[w]) <= Ahead(stage[w])
    <2>1. child' = child
        BY <1>7, WorkersMoveAlone DEF super, loop
    <2>2. CASE v # w
        BY <1>1, <1>3, <1>7, <2>1, <2>2, Moves DEF Same
    <2>3. CASE v = w
        <3>1. stage'[w] \in {stage[w], "none", "zombie", "shutting"} \/ stage[w] = "starting"
            BY <1>1, <1>7, <2>3, Moves DEF Same, Shuts, Ended
        <3>2. stage'[w] \in Conditions
            BY <1>1, <1>7, WorkerTypes DEF Typed
        <3> QED BY <1>1, <2>1, <3>1, <3>2 DEF Ahead, Conditions
    <2> QED BY <2>2, <2>3
<1>8. CASE \/ StartService \/ Look \/ Wait \/ SpawnFails \/ MonitorGoesOn \/ Decide \/ BackOff \/ Finish
           \/ Restore \/ RequestStop \/ Replug \/ UserTogglesVendor \/ UNCHANGED vars
    BY <1>3, <1>8 DEF StartService, Look, Wait, SpawnFails, MonitorGoesOn, Decide, BackOff, Finish,
       Restore, RequestStop, Replug, UserTogglesVendor, workers, vars, super, loop
<1>9. CASE Tick
    BY <1>3, <1>9 DEF Tick
<1> QED BY Cases, <1>4, <1>5, <1>6, <1>7, <1>8, <1>9

\* For any number of workers and of supervisors killed: no orphan is adopted, or lives on; three
\* steps of its own end it.
THEOREM OrphansGoOneWay == Spec => OrphansOnlyLeave
<1>1. IInv /\ [Next]_vars =>
        [\A w \in Workers : Orphan(w) =>
           /\ child' # w /\ Ahead(stage'[w]) <= Ahead(stage[w])
           /\ WorkerStep(w) /\ hang[w] = "none" => Ahead(stage'[w]) < Ahead(stage[w])]_vars
    BY OrphansAdvance, OrphansStay
<1> QED BY <1>1, Invariance, PTL DEF Spec, OrphansOnlyLeave

-----------------------------------------------------------------------------
(* Between two workers.                                                    *)

\* The loop does not sleep past a deadline.
SleepInv == pc \in {"backoff", "waiting"} /\ polled => left > 0

LEMMA SleepKept ==
    ASSUME Typed, SleepInv, [Next]_vars
    PROVE  SleepInv'
<1> USE DEF SleepInv
<1>1. CASE StartService \/ Spawn \/ MonitorReaps \/ MonitorGivesUp \/ Finish \/ Restore \/ SupervisorDies
    BY <1>1 DEF StartService, Spawn, MonitorReaps, MonitorGivesUp, Finish, Restore, SupervisorDies
<1>2. CASE MonitorGoesOn \/ SpawnFails \/ StopWorker
    BY <1>2 DEF MonitorGoesOn, SpawnFails, StopWorker
<1>3. CASE Look
    BY <1>3 DEF Look
<1>4. CASE Decide
    BY <1>4 DEF Decide
<1>5. CASE Wait \/ BackOff
    <2>1. left \in Nat /\ left' = left
        BY <1>5, LongEnough DEF Wait, BackOff, loop, Typed
    <2> QED BY <1>5, <2>1 DEF Wait, BackOff
<1>6. CASE Tick
    BY <1>6 DEF Tick
<1>7. CASE RequestStop \/ Replug \/ UserTogglesVendor \/ UNCHANGED vars
    BY <1>7 DEF RequestStop, Replug, UserTogglesVendor, vars, super, loop
<1>8. CASE \E w \in Workers : WorkerMoves(w)
    BY <1>8, WorkersMoveAlone DEF super, loop
<1> QED BY Cases, <1>1, <1>2, <1>3, <1>4, <1>5, <1>6, <1>7, <1>8

LEMMA LoopGoesOn ==
    ASSUME Typed, SleepInv, [Next]_vars, dock,
           pc \in {"decide", "backoff", "waiting", "look", "spawn"}
    PROVE  \/ child' # Nobody \/ pc' \in {"finish", "off"}
           \/ Closer
           \/ UNCHANGED <<pc, left, polled>> /\ ~(SupervisorStep \/ Tick)
<1>0. left \in Nat
    BY LongEnough DEF Typed
<1>1. CASE Look
    <2>1. pc = "look" /\ pc' \in {"finish", "spawn"}
        BY <1>1 DEF Look
    <2> QED BY <2>1 DEF Closer, Between
<1>2. CASE Wait
    <2>1. /\ pc = "waiting" /\ left' = left /\ polled'
          /\ pc' = "look" \/ (pc' = pc /\ ~polled)
        BY <1>2 DEF Wait, loop
    <2>2. CASE pc' = "look"
        <3>1. Between(pc') < Between(pc)
            BY <2>1, <2>2 DEF Between
        <3> QED BY <3>1 DEF Closer
    <2>3. CASE pc' = pc /\ ~polled
        BY <2>1, <2>3, Zenon DEF Closer
    <2> QED BY <2>1, <2>2, <2>3
<1>3. CASE Spawn
    <2>1. child' \in Workers
        BY <1>3 DEF Spawn, FreeSlots
    <2> QED BY <2>1, Constants
<1>4. CASE SpawnFails \/ SupervisorDies
    BY <1>4 DEF SpawnFails, SupervisorDies
<1>5. CASE Decide
    <2>1. pc = "decide" /\ pc' \in {"finish", "backoff"}
        BY <1>5 DEF Decide
    <2> QED BY <2>1 DEF Closer, Between
<1>6. CASE BackOff
    <2>1. /\ pc = "backoff" /\ left' = left /\ polled'
          /\ pc' = "look" \/ (pc' = pc /\ ~polled)
        BY <1>6 DEF BackOff
    <2>2. CASE pc' = "look"
        <3>1. Between(pc') < Between(pc)
            BY <2>1, <2>2 DEF Between
        <3> QED BY <3>1 DEF Closer
    <2>3. CASE pc' = pc /\ ~polled
        BY <2>1, <2>3, Zenon DEF Closer
    <2> QED BY <2>1, <2>2, <2>3
<1>7. CASE Tick
    <2>1. pc \in {"backoff", "waiting"} /\ polled
        BY <1>7 DEF Tick, Settled, Sleeping
    <2>2. left' = left - 1 /\ pc' = pc
        BY <1>7, <2>1 DEF Tick, SleepInv
    <2> QED BY <1>0, <2>2 DEF Closer
<1>8. CASE StartService \/ MonitorReaps \/ MonitorGivesUp \/ MonitorGoesOn \/ StopWorker \/ Finish \/ Restore
    BY <1>8 DEF StartService, MonitorReaps, MonitorGivesUp, MonitorGoesOn, StopWorker, Finish, Restore
<1>9. CASE UNCHANGED <<pc, left, polled>> /\ ~(SupervisorStep \/ Tick)
    BY <1>9
<1>10. CASE RequestStop \/ Replug \/ UserTogglesVendor \/ (\E w \in Workers : WorkerMoves(w)) \/ UNCHANGED vars
    <2>1. UNCHANGED <<pc, left, polled>>
        BY <1>10, WorkersMoveAlone DEF RequestStop, Replug, UserTogglesVendor, vars, super, loop
    <2>2. CASE SupervisorStep
        BY <2>2, <1>1, <1>2, <1>3, <1>4, <1>5, <1>6, <1>8 DEF SupervisorStep
    <2> QED BY <1>7, <1>9, <2>1, <2>2
<1> QED BY Cases, <1>1, <1>2, <1>3, <1>4, <1>5, <1>6, <1>7, <1>8, <1>10

\* For all deadlines, delays and crashes: nothing keeps a service that has lost its worker from
\* the next one but the dock's absence, a stop, or its own end.
THEOREM LossesAreMadeGood == Spec => NextWorkerComesCloser
<1>1. Init => SleepInv
    BY DEF Init, SleepInv
<1>2. IInv /\ SleepInv /\ [Next]_vars => SleepInv'
    BY SleepKept DEF IInv
<1>3. IInv /\ SleepInv /\ [Next]_vars =>
        [dock /\ pc \in {"decide", "backoff", "waiting", "look", "spawn"} =>
           \/ child' # Nobody \/ pc' \in {"finish", "off"}
           \/ Closer
           \/ UNCHANGED <<pc, left, polled>> /\ ~(SupervisorStep \/ Tick)]_vars
    BY LoopGoesOn DEF IInv
<1> QED BY <1>1, <1>2, <1>3, Invariance, PTL DEF Spec, NextWorkerComesCloser
===============================================================================
