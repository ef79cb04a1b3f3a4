--------------------------- MODULE ControlSession ---------------------------
(***************************************************************************)
(* The control session of the driver (driver.c), from the shared           *)
(* authentication to the poll of a streaming dock, in the order in which   *)
(* `oizys run` (cmd_run in main.c) goes through it.                        *)
(*                                                                         *)
(* The driver is sequential; the dock is not.  Its replies come back in    *)
(* order but when they like, and little in the code ties a reply to the    *)
(* message it answers: receive_rrx looks at the connector a reply names,   *)
(* drain_edid takes what it reads for the head it is asking about.  A      *)
(* drain reads some of the replies on their way; one that has missed Late  *)
(* drains is read by the next.  Only the replies some code looks at are    *)
(* here: Rrx, presence and EDID.                                           *)
(***************************************************************************)
EXTENDS Naturals, Sequences

CONSTANTS
  HeadCount,     \* heads of the dock's profile
  Late,          \* bound: drains a reply may miss
  MaxPushes,     \* bound: times a connector sends its Rrx
  FetchWaits,    \* drains spent waiting for an EDID (200 in the code)
  SettleProbes,  \* presence probes after the EDID (20)
  None

Heads   == 0..HeadCount - 1
Replies == [kind : {"rrx", "status", "edid"}, of : Heads, bit : BOOLEAN, missed : 0..Late]

ASSUME ControlAssumption ==
  /\ HeadCount \in Nat \ {0} /\ None \notin Heads \cup Replies
  /\ {Late, MaxPushes, FetchWaits, SettleProbes} \subseteq Nat

Steps    == 10  \* steps that configure a head: nine messages and, among them,
Gate     == 3   \* the 165 ms after No_Stored_km, in which the receiver sends its Rrx
Finals   == 3   \* messages that finalize a head
Probes   == 3   \* presence probes before the EDID
Engages  == 2   \* sink engages, after which the post-EDID query follows
Polls    == 5   \* status polls between a mode and its first frame
Attempts == 3   \* modes tried

VARIABLES
  driven,   \* heads the configuration drives over the dock
  stage,    \* where the driver is
  head,     \* the head it is at
  step,     \* the message, probe or poll it is at
  attempt,  \* the mode it is trying
  transit,  \* replies on their way
  pushes,   \* per connector: times its Rrx was sent
  plugged,  \* connectors with a monitor
  rrx,      \* the connector whose Rrx is in hand (have_rrx, rrx)
  key,      \* per head: the connector whose Rrx its video key is wrapped for
  auth,     \* per head: authenticated
  edid,     \* per head: the connector whose EDID it holds (edid_len # 0)
  present,  \* per head: the connector whose presence it holds (present)
  active    \* per head: trained

place == <<stage, head, step, attempt>>
known == <<edid, present>>
keys  == <<rrx, key, auth>>
dock  == <<transit, pushes, plugged>>
vars  == <<driven, place, known, keys, dock, active>>

Stages == {"ake", "setup", "heads", "finalize", "probe", "fetch", "wait", "engage", "settle",
           "mode", "train", "ready", "streaming", "failed"}

\* The type invariant.
TypeOK ==
  /\ driven \subseteq Heads /\ stage \in Stages /\ head \in Heads
  /\ step \in Nat /\ attempt \in 1..Attempts
  /\ transit \in Seq(Replies)
  /\ pushes \in [Heads -> 0..MaxPushes] /\ plugged \subseteq Heads
  /\ rrx \in Heads \cup {None} /\ key \in [Heads -> Heads \cup {None}]
  /\ auth \in [Heads -> BOOLEAN] /\ active \in [Heads -> BOOLEAN]
  /\ edid \in [Heads -> Heads \cup {None}] /\ present \in [Heads -> Heads \cup {None}]

Init ==
  /\ driven \in SUBSET Heads \ {{}}
  /\ stage = "ake" /\ head = 0 /\ step = 0 /\ attempt = 1
  /\ transit = << >> /\ pushes = [h \in Heads |-> 0] /\ plugged \in SUBSET Heads
  /\ rrx = None /\ key = [h \in Heads |-> None] /\ auth = [h \in Heads |-> FALSE]
  /\ edid = key /\ present = key /\ active = auth

-----------------------------------------------------------------------------
(* Sending and draining. *)

Go(s, h, n) == stage' = s /\ head' = h /\ step' = n

\* Every caller up to cmd_run hands a failure on, and cmd_run shuts the session down.
Fail == stage' = "failed" /\ UNCHANGED <<head, step, attempt, known, keys, dock, active>>

Reply(kind, h) == <<[kind |-> kind, of |-> h, bit |-> h \in plugged, missed |-> 0]>>

\* Reading n of the replies q, which leaves the others one drain later.
Readable(q) == {n \in 0..Len(q) : \A i \in n + 1..Len(q) : q[i].missed < Late}
Unread(q, n) == [i \in 1..Len(q) - n |-> [q[n + i] EXCEPT !.missed = @ + 1]]

\* The last of the n replies that is one of those asked for, None if there is none.
Latest(q, n, asked) ==
  LET hits == {i \in 1..n : q[i] \in asked}
  IN IF hits = {} THEN None ELSE q[CHOOSE i \in hits : \A j \in hits : j <= i]

Of(kind) == {r \in Replies : r.kind = kind}

\* drain_plain, drain_control_debug, drain_control_quiet: read and dropped.
Drop == /\ \E n \in Readable(transit) : transit' = Unread(transit, n)
        /\ UNCHANGED <<pushes, plugged, known, keys>>

\* Mutant: presence, once seen, is not looked at again.
DrainEdid_Latched(h, answer) ==
  LET q == transit \o answer IN
  /\ \E n \in Readable(q) :
       LET status == Latest(q, n, Of("status"))
           answered == Latest(q, n, Of("edid"))
       IN /\ transit' = Unread(q, n)
          /\ present' = [present EXCEPT ![h] = IF status = None \/ @ # None THEN @
                                              ELSE IF status.bit THEN status.of ELSE None]
          /\ edid' = [edid EXCEPT ![h] = IF answered = None THEN @ ELSE answered.of]
  /\ UNCHANGED <<pushes, plugged, keys>>

\* drain_edid for head h, with the answer to what was just sent behind the rest: presence and
\* EDID are taken for h's, whichever connector they are of.
DrainEdid(h, answer) ==
  LET q == transit \o answer IN
  /\ \E n \in Readable(q) :
       LET status == Latest(q, n, Of("status"))
           answered == Latest(q, n, Of("edid"))
       IN /\ transit' = Unread(q, n)
          /\ present' = [present EXCEPT ![h] = IF status = None THEN @
                                              ELSE IF status.bit THEN status.of ELSE None]
          /\ edid' = [edid EXCEPT ![h] = IF answered = None THEN @ ELSE answered.of]
  /\ UNCHANGED <<pushes, plugged, keys>>

-----------------------------------------------------------------------------
(* Engagement: oizys_driver_engage. *)

\* run_shared_ake: replies are awaited and proofs checked, any of which may fail.
SharedAke ==
  /\ stage = "ake"
  /\ \/ Go("setup", 0, 0) /\ UNCHANGED <<attempt, known, keys, dock, active>>
     \/ Fail

\* configure_control up to the heads.
Setup ==
  /\ stage = "setup"
  /\ \/ Go("heads", 0, 0) /\ Drop /\ UNCHANGED <<attempt, active>>
     \/ Fail

\* Mutant: any receiver's Rrx counts.
TheHeads_Any == Of("rrx")

\* receive_rrx: the last Rrx that names the head's connector.
TheHeads == {r \in Of("rrx") : r.of = head}

\* configure_one_head, one message or the gate: without an Rrx it goes no further than the
\* gate, and the video key is wrapped right after it.
ConfigureHead ==
  /\ stage = "heads"
  /\ \/ Fail
     \/ /\ step > Gate => rrx # None
        /\ key' = IF step = Gate + 1 THEN [key EXCEPT ![head] = rrx] ELSE key
        /\ \E n \in Readable(transit) :
             LET push == Latest(transit, n, TheHeads)
             IN /\ transit' = Unread(transit, n)
                /\ rrx' = IF step = Steps - 1 THEN None
                          ELSE IF push = None THEN rrx ELSE push.of
        /\ IF step < Steps - 1
           THEN Go("heads", head, step + 1) /\ UNCHANGED auth
           ELSE /\ auth' = [auth EXCEPT ![head] = TRUE]
                /\ IF head + 1 < HeadCount THEN Go("heads", head + 1, 0)
                                           ELSE Go("finalize", 0, 0)
        /\ UNCHANGED <<attempt, known, active, pushes, plugged>>

\* The driven heads from h on, in order; cmd_run asks and activates one before the next.
NextDriven(h) ==
  LET rest == {d \in driven : d >= h}
  IN IF rest = {} THEN Go("ready", 0, 0)
     ELSE Go("probe", CHOOSE d \in rest : \A e \in rest : d <= e, 0)

\* The rest of configure_control, one message or control transfer.
Finalize ==
  /\ stage = "finalize"
  /\ \/ /\ IF step < Finals * HeadCount THEN Go("finalize", 0, step + 1) ELSE NextDriven(0)
        /\ Drop /\ UNCHANGED <<attempt, active>>
     \/ Fail

-----------------------------------------------------------------------------
(* Presence and EDID: fetch_one_edid. *)

Asked == UNCHANGED <<attempt, active>>

\* The presence probes, and the start of the EDID reader.
Probe ==
  /\ stage = "probe"
  /\ \/ /\ IF step < Probes
           THEN Go("probe", head, step + 1) /\ DrainEdid(head, Reply("status", head))
           ELSE Go("fetch", head, 0) /\ DrainEdid(head, << >>)
        /\ Asked
     \/ Fail

\* The fetch itself is not followed by a drain.
Fetch ==
  /\ stage = "fetch"
  /\ \/ /\ Go("wait", head, 0)
        /\ transit' = transit \o (IF head \in plugged THEN Reply("edid", head) ELSE << >>)
        /\ Asked /\ UNCHANGED <<pushes, plugged, known, keys>>
     \/ Fail

Wait ==
  /\ stage = "wait"
  /\ Asked
  /\ IF step < FetchWaits /\ edid[head] = None
     THEN Go("wait", head, step + 1) /\ DrainEdid(head, << >>)
     ELSE Go("engage", head, 0) /\ UNCHANGED <<known, keys, dock>>

\* The sink engages and the post-EDID query.
Engage ==
  /\ stage = "engage"
  /\ \/ /\ IF step < Engages THEN Go("engage", head, step + 1) ELSE Go("settle", head, 0)
        /\ DrainEdid(head, << >>) /\ Asked
     \/ Fail

\* The presence bit settles, or the probes run out.
Settle ==
  /\ stage = "settle"
  /\ IF step < SettleProbes /\ present[head] = None
     THEN \/ Go("settle", head, step + 1) /\ DrainEdid(head, Reply("status", head)) /\ Asked
          \/ Fail
     ELSE IF edid[head] = None \/ present[head] = None THEN Fail
     ELSE Go("mode", head, 0) /\ attempt' = 1 /\ UNCHANGED <<known, keys, dock, active>>

-----------------------------------------------------------------------------
(* Activation: oizys_driver_activate_1080p60. *)

\* A mode, its markers and status polls, which read and drop.
Mode ==
  /\ stage = "mode"
  /\ \/ /\ auth[head] /\ present[head] # None /\ edid[head] # None
        /\ IF step < Polls - 1 THEN Go("mode", head, step + 1) ELSE Go("train", head, 0)
        /\ Drop /\ UNCHANGED <<attempt, active>>
     \/ Fail

\* The bracket overran before the first frame: a new mode, or the end.
Overrun ==
  /\ stage = "train"
  /\ IF attempt < Attempts
     THEN Go("mode", head, 0) /\ attempt' = attempt + 1 /\ UNCHANGED <<known, keys, dock, active>>
     ELSE Fail

\* The first frame, the commits, and black frames with at least one poll among them.
Train ==
  /\ stage = "train"
  /\ \/ /\ active' = [active EXCEPT ![head] = TRUE]
        /\ NextDriven(head + 1)
        /\ Drop /\ UNCHANGED attempt
     \/ Fail

\* From here the inbox is lossy; displays and capture come up, or do not.
Ready ==
  /\ stage = "ready"
  /\ \/ Go("streaming", 0, 0) /\ UNCHANGED <<attempt, known, keys, dock, active>>
     \/ Fail

\* service_control; captureClock polls no more once a poll has failed.
Poll ==
  /\ stage = "streaming"
  /\ \/ Drop /\ UNCHANGED <<place, active>>
     \/ Fail

-----------------------------------------------------------------------------
(* The dock. *)

KmSent(h) == \/ stage = "heads" /\ (head > h \/ (head = h /\ step >= Gate))
             \/ stage \notin {"ake", "setup", "heads"}

\* A receiver sends its Rrx once it has the No_Stored_km, and may send it again.
Push(h) ==
  /\ KmSent(h) /\ h \in plugged /\ pushes[h] < MaxPushes
  /\ pushes' = [pushes EXCEPT ![h] = @ + 1]
  /\ transit' = transit \o Reply("rrx", h)
  /\ UNCHANGED <<place, known, keys, plugged, active>>

\* A monitor is connected or disconnected.
Replug ==
  /\ \E h \in Heads : plugged' = (plugged \ {h}) \cup ({h} \ plugged)
  /\ UNCHANGED <<place, known, keys, transit, pushes, active>>

Driver ==
  \/ SharedAke \/ Setup \/ ConfigureHead \/ Finalize
  \/ Probe \/ Fetch \/ Wait \/ Engage \/ Settle
  \/ Mode \/ Overrun \/ Train \/ Ready \/ Poll

Next == /\ Driver \/ (\E h \in Heads : Push(h)) \/ Replug
        /\ UNCHANGED driven

\* The driver's one thread runs, and every call it makes returns.
Spec == Init /\ [][Next]_vars /\ WF_vars(Driver /\ UNCHANGED driven)
-----------------------------------------------------------------------------
(* Properties. *)

\* A head that authenticated has its video key wrapped for its own receiver, whatever the
\* other connector's receiver sent, or sent again, meanwhile (receive_rrx's selector).
KeyIsTheHeads == \A h \in Heads : auth[h] => key[h] = h

\* A head is trained only on a presence bit and an EDID of its own connector ("never arm an
\* endpoint on EDID alone: wait for the measured presence bit", driver.c).  drain_edid does
\* not look whose they are, and an answer of the head before may still be on its way; what
\* keeps it from counting is that replies come in order, so that the EDID a head waits for
\* is behind the answers to its own probes, and those behind the other head's.  What is left
\* of the other head's has to survive seven drains to be read for this one.
ArmedIsMeasured == \A h \in Heads : active[h] => edid[h] = h /\ present[h] = h

\* Capture starts with the driven heads trained, and with no other: a head left out of the
\* configuration is never armed, so nothing is ever sent to it.
ReadyMeansTrained ==
  /\ {h \in Heads : active[h]} \subseteq driven
  /\ stage \in {"ready", "streaming"} => \A h \in driven : active[h]

\* A start comes to an end, streaming or failed, whatever the dock answers and however
\* late: every wait of the driver is bounded.
StartEnds == <>(stage \in {"streaming", "failed"})
\* How far a start has come: the leg of it, the head it is at, for a head what is asked or
\* done, in which mode, and the message, probe or poll, of so many.
Leg(s) ==
  CASE s = "ake" -> 0 [] s = "setup" -> 1 [] s = "heads" -> 2 [] s = "finalize" -> 3
    [] s = "ready" -> 5 [] s = "streaming" -> 6 [] s = "failed" -> 7 [] OTHER -> 4
Phase(s, mode) ==
  CASE s = "fetch" -> 1 [] s = "wait" -> 2 [] s = "engage" -> 3 [] s = "settle" -> 4
    [] s = "mode" -> 3 + 2 * mode [] s = "train" -> 4 + 2 * mode [] OTHER -> 0
LastStep(s) ==
  CASE s = "heads" -> Steps - 1 [] s = "finalize" -> Finals * HeadCount [] s = "probe" -> Probes
    [] s = "wait" -> FetchWaits [] s = "engage" -> Engages [] s = "settle" -> SettleProbes
    [] s = "mode" -> Polls - 1 [] OTHER -> 0

Advances ==
  \/ Leg(stage') > Leg(stage)
  \/ Leg(stage') = Leg(stage) /\ head' > head
  \/ /\ Leg(stage') = Leg(stage) /\ head' = head
     /\ \/ Phase(stage', attempt') > Phase(stage, attempt)
        \/ Phase(stage', attempt') = Phase(stage, attempt) /\ step' > step

\* What StartEnds rests on, whatever the dock answers, or does not: no call of the driver takes
\* a start back or leaves it where it was, to ask, wait or train again without a count that
\* says so (fetch_one_edid, oizys_driver_activate_1080p60).
StartGoesForward == [][Driver /\ stage \notin {"streaming", "failed"} => Advances]_vars

\* And no such count goes past its limit.
WaitsAreBounded == stage # "failed" => step <= LastStep(stage)
=============================================================================
