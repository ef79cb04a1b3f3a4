------------------------------ MODULE SidecarAuto ------------------------------
(***************************************************************************)
(* Connecting the iPad by itself (SidecarAuto.swift): decisions on the     *)
(* main thread, taken when something has changed, when a retry is due and  *)
(* when a connect has been answered, each from what macOS says then        *)
(* (SidecarBridge.swift).  What macOS and the user do is external: they    *)
(* connect, disconnect, carry the iPad about, lock the screen and flip the *)
(* switch, and news of it comes later or together with other news.         *)
(***************************************************************************)
EXTENDS Integers, Sequences, SequencesExt

CONSTANTS
    Ladder,         \* the 5 delays before the retries
    MaxEvents,      \* bound: things that happen by themselves
    MaxCalls        \* bound: connects in flight

ASSUME SidecarAssumption == {Ladder, MaxEvents, MaxCalls} \subseteq Nat

VARIABLES
    enabled,    \* sidecar.auto_connect
    listed,     \* SidecarCore lists the iPad
    connected,  \* and says that it is connected
    allowed,    \* the screen is unlocked and, if it must be, this is a desk
    told,       \* an event the watcher has not come to yet
    auto,       \* the watcher's own state
    calls,      \* connects in flight: of this generation or not, and whether it got there
    events,
    lapsed,     \* a quiet time is over and nothing has been decided since
    byHand      \* the user has disconnected, and nothing has happened that undoes it

world == <<enabled, listed, connected, allowed>>
sidecarVars == <<world, told, auto, calls, events, lapsed, byHand>>

SidecarTypeOK ==
    /\ {enabled, listed, connected, allowed, told, lapsed, byHand} \subseteq BOOLEAN
    /\ auto \in [busy : BOOLEAN, attempt : 0 .. Ladder, retry : BOOLEAN, was : BOOLEAN,
                 nearby : BOOLEAN, quiet : {"none", "hand", "standDown"}]
    /\ calls \in Seq([ours : BOOLEAN, through : BOOLEAN])
    /\ events \in 0 .. MaxEvents

\* start has armed the triggers and asked whether the iPad is connected; its own decision is
\* the first thing told.
SidecarInit ==
    /\ enabled \in BOOLEAN /\ listed \in BOOLEAN /\ allowed \in BOOLEAN /\ connected \in {FALSE, listed}
    /\ told = TRUE /\ calls = <<>> /\ events = 0 /\ lapsed = FALSE /\ byHand = FALSE
    /\ auto = [busy |-> FALSE, attempt |-> 0, retry |-> FALSE, was |-> connected,
               nearby |-> FALSE, quiet |-> "none"]

-------------------------------------------------------------------------------
(* The decision, with what has just changed of the watcher's state and of  *)
(* the connects in flight.                                                 *)

CancelRetry(a) == [a EXCEPT !.retry = FALSE, !.attempt = 0]

\* connectionGeneration + 1.
Stale(c) == [i \in DOMAIN c |-> [c[i] EXCEPT !.ours = FALSE]]

Decided(a, c) == auto' = a /\ calls' = c

\* The switch is off: everything it was up to is forgotten.
Off(a, c) ==
    Decided([CancelRetry(a) EXCEPT !.busy = FALSE, !.nearby = FALSE, !.was = FALSE,
                                   !.quiet = "none"], Stale(c))

\* Back from elsewhere.
Fresh(a) == IF a.nearby THEN a ELSE [CancelRetry(a) EXCEPT !.nearby = TRUE, !.quiet = "none"]

\* Mutant: a disconnect is not told from a connect that never was.
ByHand_Forgotten(a) == FALSE

\* It went away and this did not ask for it.
ByHand(a) == a.was /\ ~a.busy

\* The framework takes the call: evaluate has just seen that it is there.
Connects(a, c) ==
    /\ Len(c) < MaxCalls
    /\ Decided([a EXCEPT !.busy = TRUE], Append(c, [ours |-> TRUE, through |-> FALSE]))

Present(a, c) ==
    LET gone == [a EXCEPT !.was = FALSE] IN
    \/ connected /\ Decided([CancelRetry(a) EXCEPT !.was = TRUE], c)
    \/ /\ ~connected /\ ByHand(a)
       /\ Decided([CancelRetry(gone) EXCEPT !.quiet = "hand"], c)
    \/ /\ ~connected /\ ~ByHand(a)
       /\ IF a.busy \/ a.retry \/ ~allowed \/ a.quiet # "none"
          THEN Decided(gone, c)
          ELSE Connects(gone, c)

Evaluate(on, a, c) ==
    /\ lapsed' = FALSE
    /\ \/ ~on /\ Off(a, c)
       \/ /\ on /\ ~listed
          /\ Decided([(IF a.nearby THEN CancelRetry(a) ELSE a) EXCEPT !.nearby = FALSE], c)
       \/ on /\ listed /\ Present(Fresh(a), c)

-------------------------------------------------------------------------------
(* When it decides.                                                        *)

\* invalidate.
Notified ==
    /\ told /\ told' = FALSE
    /\ Evaluate(enabled, CancelRetry(auto), Stale(calls))
    /\ UNCHANGED <<world, events, byHand>>

\* The panel has the file with the switch the other way (settingsChanged).
Switch ==
    /\ events < MaxEvents /\ events' = events + 1
    /\ enabled' = ~enabled /\ byHand' = FALSE
    /\ Evaluate(enabled', CancelRetry(auto), Stale(calls))
    /\ UNCHANGED <<listed, connected, allowed, told>>

RetryDue ==
    /\ auto.retry
    /\ Evaluate(enabled, [auto EXCEPT !.retry = FALSE], calls)
    /\ UNCHANGED <<world, told, events, byHand>>

ArmedRetry(a) ==
    IF a.attempt < Ladder THEN [a EXCEPT !.attempt = @ + 1, !.retry = TRUE]
    ELSE [a EXCEPT !.attempt = 0, !.quiet = "standDown"]

\* Mutant: a connect that was overtaken is not counted as over.
AnswerStale_BusyKept(i) ==
    Evaluate(enabled, auto, RemoveAt(calls, i))

\* Of a connect that something has happened during.
AnswerStale(i) ==
    Evaluate(enabled, [auto EXCEPT !.busy = FALSE], RemoveAt(calls, i))

AnswerOurs(i) ==
    LET idle == [auto EXCEPT !.busy = FALSE] IN
    /\ auto' = IF calls[i].through THEN [idle EXCEPT !.attempt = 0, !.was = TRUE]
               ELSE ArmedRetry(idle)
    /\ calls' = RemoveAt(calls, i)
    /\ UNCHANGED lapsed

\* The completion of a connect, which got through or was refused.
Answer(i) ==
    /\ IF calls[i].ours THEN AnswerOurs(i) ELSE AnswerStale(i)
    /\ UNCHANGED <<world, told, events, byHand>>

-------------------------------------------------------------------------------
(* macOS and the user.                                                     *)

\* A connect gets through, if the iPad is there and it is not connected already.
GetsThrough(i) ==
    /\ ~calls[i].through /\ listed
    /\ calls' = [calls EXCEPT ![i].through = TRUE]
    /\ connected' = TRUE /\ told' = TRUE /\ byHand' = FALSE
    /\ UNCHANGED <<enabled, listed, allowed, auto, events, lapsed>>

Event == events < MaxEvents /\ events' = events + 1 /\ told' = TRUE

\* Carried away, which ends the connection, or brought back.
Carry ==
    /\ Event /\ listed' = ~listed
    /\ connected' = FALSE /\ byHand' = FALSE
    /\ UNCHANGED <<enabled, allowed, auto, calls, lapsed>>

Disconnect ==
    /\ Event /\ connected /\ connected' = FALSE
    /\ byHand' = (enabled /\ auto.was /\ calls = <<>>)
    /\ UNCHANGED <<enabled, listed, allowed, auto, calls, lapsed>>

ConnectByHand ==
    /\ Event /\ listed /\ ~connected /\ connected' = TRUE /\ byHand' = FALSE
    /\ UNCHANGED <<enabled, listed, allowed, auto, calls, lapsed>>

\* Locking the screen is not told; unlocking it and docking are.
Gate ==
    /\ events < MaxEvents /\ events' = events + 1
    /\ allowed' = ~allowed
    /\ told' \in IF allowed THEN {TRUE, told} ELSE {TRUE}
    /\ UNCHANGED <<enabled, listed, connected, auto, calls, lapsed, byHand>>

\* 5 or 30 minutes have passed; no timer waits for it.
QuietEnds ==
    /\ auto.quiet # "none"
    /\ auto' = [auto EXCEPT !.quiet = "none"]
    /\ lapsed' = TRUE /\ byHand' = (byHand /\ auto.was)
    /\ UNCHANGED <<world, told, calls, events>>

Outside == Switch \/ Carry \/ Disconnect \/ ConnectByHand \/ Gate \/ QuietEnds

SidecarNext ==
    \/ Notified \/ RetryDue
    \/ \E i \in DOMAIN calls : Answer(i) \/ GetsThrough(i)
    \/ Outside

SidecarSpec == SidecarInit /\ [][SidecarNext]_sidecarVars

-------------------------------------------------------------------------------
(* What it promises.                                                       *)

\* An iPad that may be connected is not forgotten: a connect is in flight, a retry is due, or
\* it stands down and the time is not over, whatever overtook the connects of before.
NothingForgotten ==
    (enabled /\ listed /\ allowed /\ ~connected /\ ~told) =>
        (calls # <<>> \/ auto.retry \/ auto.quiet # "none" \/ lapsed)

\* "Taking the display straight back is the one behaviour that would make this unusable":
\* what the user disconnects, with no connect under way and once the watcher has seen the
\* connection (auto.was, which the event of that connection sets), is left alone until the
\* iPad has been away, the switch has been off or the quiet time has passed.
DisconnectIsRespected == byHand => calls = <<>>

\* "Carried away and brought back is a fresh start, whatever happened last time".
ComingBackIsAFreshStart ==
    [][~auto.nearby /\ auto'.nearby => auto'.quiet = "none"]_sidecarVars

\* "One connect at a time".
OneConnectAtATime == Len(calls) <= 1
===============================================================================
