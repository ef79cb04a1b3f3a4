---------------------------- MODULE ControlProofs ----------------------------
(***************************************************************************)
(* Proofs about ControlSession, for any number of heads, any lateness of   *)
(* the replies and any number of repeated Rrx, and about SessionInbox, the *)
(* transport of those replies, for any ring and any number of them.        *)
(***************************************************************************)
EXTENDS ControlSession, SessionInbox, WellFoundedInduction, SequenceTheorems, TLAPS

\* The constants, one by one.
LEMMA Constants ==
  /\ Late \in Nat /\ MaxPushes \in Nat /\ HeadCount \in Nat \ {0}
  /\ 0 \in Heads /\ None \notin Heads /\ Heads \subseteq Nat
BY ControlAssumption DEF Heads

-----------------------------------------------------------------------------
(* The replies.                                                            *)

\* A set of natural numbers with a bound has a greatest member.
LEMMA Greatest ==
  ASSUME NEW n \in Nat, NEW S, S \subseteq 1..n, S # {}
  PROVE  \E i \in S : \A j \in S : j <= i
<1> DEFINE T == {n - i : i \in S}
<1>1. T \subseteq Nat /\ T # {}
  <2>1. \A i \in S : i \in 1..n /\ n - i \in Nat
    OBVIOUS
  <2>2. PICK i \in S : TRUE
    OBVIOUS
  <2> QED  BY <2>1, <2>2
<1> HIDE DEF T
<1>2. PICK k \in T : \A m \in T : <<m, k>> \notin OpToRel(<, Nat)
  BY <1>1, NatLessThanWellFounded, WFMin
<1>3. \A m \in T : k <= m
  <2> TAKE m \in T
  <2>1. k \in Nat /\ m \in Nat
    BY <1>1
  <2>2. ~(m < k)
    BY <1>2, <2>1, Zenon DEF OpToRel
  <2> QED  BY <2>1, <2>2
<1>4. PICK i \in S : k = n - i
  BY DEF T
<1>5. \A j \in S : n - i <= n - j
  BY <1>3, <1>4, Zenon DEF T
<1> QED  BY <1>5

\* A set of natural numbers has a least member.
LEMMA Least ==
  ASSUME NEW S, S \subseteq Nat, S # {}
  PROVE  \E i \in S : \A j \in S : i <= j
<1>1. PICK i \in S : \A j \in S : <<j, i>> \notin OpToRel(<, Nat)
  BY NatLessThanWellFounded, WFMin
<1>2. \A j \in S : j \in Nat /\ i \in Nat /\ ~(j < i)
  BY <1>1, Zenon DEF OpToRel
<1> QED  BY <1>2

\* Latest is None if nothing asked for was read, and else the last that was.
LEMMA LatestIsLast ==
  ASSUME NEW q \in Seq(Replies), NEW n \in 0..Len(q), NEW asked
  PROVE  \/ Latest(q, n, asked) = None /\ \A i \in 1..n : q[i] \notin asked
         \/ \E i \in 1..n : /\ Latest(q, n, asked) = q[i] /\ q[i] \in asked \cap Replies
                            /\ \A j \in 1..n : q[j] \in asked => j <= i
<1> DEFINE hits == {i \in 1..n : q[i] \in asked}
           last == CHOOSE i \in hits : \A j \in hits : j <= i
<1>1. CASE hits = {}
  BY <1>1, Zenon DEF Latest
<1>2. CASE hits # {}
  <2>1. Latest(q, n, asked) = q[last]
    BY <1>2, Zenon DEF Latest
  <2>2. \E i \in hits : \A j \in hits : j <= i
    <3>1. n \in Nat /\ hits \subseteq 1..n
      BY LenProperties
    <3> HIDE DEF hits
    <3> QED
      BY <1>2, <3>1, Greatest
  <2>3. last \in hits /\ \A j \in hits : j <= last
    BY <2>2
  <2>4. last \in 1..n /\ q[last] \in asked /\ \A j \in 1..n : q[j] \in asked => j <= last
    BY <2>3
  <2>5. q[last] \in Replies
    <3>1. last \in 1..Len(q)
      BY <2>4, LenProperties
    <3> QED
      BY <3>1, ElementOfSeq
  <2> HIDE DEF last
  <2> QED
    BY <2>1, <2>4, <2>5
<1> QED
  BY <1>1, <1>2

\* What Latest finds is one of the replies read that were asked for.
LEMMA LatestIsAsked ==
  ASSUME NEW q \in Seq(Replies), NEW n \in 0..Len(q), NEW asked,
         Latest(q, n, asked) # None
  PROVE  Latest(q, n, asked) \in asked \cap Replies
BY LatestIsLast

\* The replies left unread are replies, one drain later.
LEMMA UnreadAreReplies ==
  ASSUME NEW q \in Seq(Replies), NEW n \in Readable(q)
  PROVE  Unread(q, n) \in Seq(Replies) /\ n \in 0..Len(q)
<1>1. n \in 0..Len(q) /\ Len(q) - n \in Nat
  BY DEF Readable
<1>2. ASSUME NEW i \in 1..Len(q) - n
      PROVE  [q[n + i] EXCEPT !.missed = @ + 1] \in Replies
  <2>1. n + i \in 1..Len(q) /\ n + i \in n + 1..Len(q)
    BY <1>1
  <2>2. q[n + i] \in Replies /\ q[n + i].missed < Late
    BY <2>1 DEF Readable
  <2>3. Late \in Nat
    BY ControlAssumption
  <2> DEFINE r == q[n + i]
  <2>4. r \in Replies /\ r.missed + 1 \in 0..Late
    BY <2>2, <2>3 DEF Replies
  <2> HIDE DEF r
  <2>5. [r EXCEPT !.missed = @ + 1] \in Replies
    BY <2>4 DEF Replies
  <2> QED  BY <2>5 DEF r
<1>3. Unread(q, n) \in [1..Len(q) - n -> Replies]
  BY <1>2 DEF Unread
<1>4. \E m \in Nat : Unread(q, n) \in [1..m -> Replies]
  BY <1>1, <1>3
<1> QED  BY <1>1, <1>4, SeqDef

\* A reply just sent is one of them.
LEMMA RepliesAreReplies ==
  ASSUME NEW h \in Heads, NEW kind \in {"rrx", "status", "edid"}
  PROVE  Reply(kind, h) \in Seq(Replies)
BY ControlAssumption DEF Reply, Replies

\* A drain that drops leaves a type-correct queue, and all the driver knows as it was.
LEMMA DropKeeps ==
  ASSUME TypeOK, Drop
  PROVE  transit' \in Seq(Replies) /\ UNCHANGED <<pushes, plugged, known, keys>>
<1>1. transit \in Seq(Replies)
  BY DEF TypeOK
<1> QED  BY <1>1, UnreadAreReplies DEF Drop

\* So does a drain that credits the head being asked, but for that head.
LEMMA DrainKeeps ==
  ASSUME TypeOK, NEW h \in Heads, NEW answer \in Seq(Replies), DrainEdid(h, answer)
  PROVE  /\ transit' \in Seq(Replies)
         /\ present' \in [Heads -> Heads \cup {None}]
         /\ edid' \in [Heads -> Heads \cup {None}]
         /\ UNCHANGED <<pushes, plugged, keys>>
<1> DEFINE q == transit \o answer
<1>1. q \in Seq(Replies)
  BY ConcatProperties DEF TypeOK
<1> HIDE DEF q
<1> DEFINE status(n) == Latest(q, n, Of("status"))
           answered(n) == Latest(q, n, Of("edid"))
<1>2. PICK n \in Readable(q) :
        /\ transit' = Unread(q, n)
        /\ present' = [present EXCEPT ![h] = IF status(n) = None THEN @
                                            ELSE IF status(n).bit THEN status(n).of ELSE None]
        /\ edid' = [edid EXCEPT ![h] = IF answered(n) = None THEN @ ELSE answered(n).of]
  BY Zenon DEF DrainEdid, q
<1>3. n \in 0..Len(q) /\ Unread(q, n) \in Seq(Replies)
  BY <1>1, UnreadAreReplies
<1>4. status(n) # None => status(n).of \in Heads
  BY <1>1, <1>3, LatestIsAsked DEF Replies
<1>5. answered(n) # None => answered(n).of \in Heads
  BY <1>1, <1>3, LatestIsAsked DEF Replies
<1> HIDE DEF status, answered
<1> QED  BY <1>2, <1>3, <1>4, <1>5 DEF DrainEdid, TypeOK

\* The next driven head is a head.
LEMMA NextDrivenIsAHead ==
  ASSUME TypeOK, NEW h, NextDriven(h)
  PROVE  head' \in Heads /\ step' = 0 /\ stage' \in {"ready", "probe"}
<1> DEFINE rest == {d \in driven : d >= h}
           first == CHOOSE d \in rest : \A e \in rest : d <= e
<1>1. rest \subseteq Heads
  BY DEF TypeOK
<1>2. IF rest = {} THEN Go("ready", 0, 0) ELSE Go("probe", first, 0)
  BY Zenon DEF NextDriven
<1> HIDE DEF rest
<1>3. CASE rest = {}
  BY <1>2, <1>3, Constants DEF Go
<1>4. CASE rest # {}
  <2>1. \E d \in rest : \A e \in rest : d <= e
    BY <1>1, <1>4, Constants, Least
  <2>2. first \in rest
    BY <2>1
  <2> QED  BY <1>1, <1>2, <1>4, <2>2 DEF Go
<1> QED  BY <1>3, <1>4

-----------------------------------------------------------------------------
(* Type correctness.                                                       *)

\* The place the driver is at is of its type.
PlaceOK == stage \in Stages /\ head \in Heads /\ step \in Nat /\ attempt \in 1..Attempts

\* A step that drops what it reads.
LEMMA TypeByDrop ==
  ASSUME TypeOK, Drop, UNCHANGED driven, PlaceOK', active' \in [Heads -> BOOLEAN]
  PROVE  TypeOK'
BY DropKeeps DEF TypeOK, PlaceOK, known, keys

\* A step that credits the head being asked.
LEMMA TypeByDrain ==
  ASSUME TypeOK, NEW answer \in Seq(Replies), DrainEdid(head, answer),
         UNCHANGED <<driven, active>>, PlaceOK'
  PROVE  TypeOK'
<1>1. head \in Heads
  BY DEF TypeOK
<1> QED  BY <1>1, DrainKeeps DEF TypeOK, PlaceOK, keys

\* A step that only moves on.
LEMMA TypeByMove ==
  ASSUME TypeOK, UNCHANGED <<driven, known, keys, dock, active>>, PlaceOK'
  PROVE  TypeOK'
BY DEF TypeOK, PlaceOK, known, keys, dock

\* Every step of the driver and of the dock keeps the type invariant.
LEMMA TypeInductive == TypeOK /\ [Next]_vars => TypeOK'
<1> SUFFICES ASSUME TypeOK, [Next]_vars PROVE TypeOK'
  OBVIOUS
<1>a. PlaceOK /\ active \in [Heads -> BOOLEAN] /\ transit \in Seq(Replies) /\ 1 \in 1..Attempts
  BY DEF TypeOK, PlaceOK, Attempts
<1>b. \A s \in Stages, h \in Heads, n \in Nat :
        Go(s, h, n) /\ UNCHANGED attempt => PlaceOK'
  BY <1>a DEF Go, PlaceOK
<1>c. /\ << >> \in Seq(Replies)
      /\ \A kind \in {"rrx", "status", "edid"}, h \in Heads : Reply(kind, h) \in Seq(Replies)
  BY RepliesAreReplies, EmptySeq
<1>d. \A h : NextDriven(h) /\ UNCHANGED attempt => PlaceOK'
  BY <1>a, NextDrivenIsAHead, Constants DEF PlaceOK, Stages
<1>e. \A kind \in {"rrx", "status", "edid"}, h \in Heads :
        transit \o Reply(kind, h) \in Seq(Replies)
  BY <1>a, <1>c, ConcatProperties
<1>0. CASE Fail /\ UNCHANGED driven
  <2>1. PlaceOK'
    BY <1>0, <1>a DEF Fail, PlaceOK, Stages
  <2> QED  BY <1>0, <2>1, TypeByMove DEF Fail
<1>1. CASE SharedAke /\ ~Fail /\ UNCHANGED driven
  <2>1. PlaceOK'
    BY <1>1, <1>b, Constants DEF SharedAke, Stages
  <2> QED  BY <1>1, <2>1, TypeByMove DEF SharedAke
<1>2. CASE Setup /\ ~Fail /\ UNCHANGED driven
  <2>1. PlaceOK'
    BY <1>2, <1>b, Constants DEF Setup, Stages
  <2> QED  BY <1>2, <1>a, <2>1, TypeByDrop DEF Setup
<1>3. CASE ConfigureHead /\ ~Fail /\ UNCHANGED driven
  <2> DEFINE push(n) == Latest(transit, n, TheHeads)
  <2>1. PICK n \in Readable(transit) :
          /\ transit' = Unread(transit, n)
          /\ rrx' = IF step = Steps - 1 THEN None
                    ELSE IF push(n) = None THEN rrx ELSE push(n).of
    BY <1>3, Zenon DEF ConfigureHead
  <2>2. n \in 0..Len(transit) /\ Unread(transit, n) \in Seq(Replies)
    BY <1>a, UnreadAreReplies
  <2>3. push(n) # None => push(n).of \in Heads
    BY <1>a, <2>2, LatestIsAsked DEF Replies
  <2> HIDE DEF push
  <2>4. transit' \in Seq(Replies) /\ rrx' \in Heads \cup {None}
    BY <2>1, <2>2, <2>3 DEF TypeOK
  <2>5. key' \in [Heads -> Heads \cup {None}] /\ auth' \in [Heads -> BOOLEAN]
    BY <1>3 DEF ConfigureHead, TypeOK
  <2>6. head + 1 < HeadCount => head + 1 \in Heads
    BY <1>a, Constants DEF PlaceOK, Heads
  <2>7. step + 1 \in Nat /\ {"heads", "finalize"} \subseteq Stages /\ 0 \in Nat
    BY <1>a DEF PlaceOK, Stages
  <2>8. PlaceOK'
    BY <1>3, <1>a, <1>b, <2>6, <2>7, Constants DEF ConfigureHead, PlaceOK
  <2> QED  BY <1>3, <2>4, <2>5, <2>8 DEF ConfigureHead, TypeOK, PlaceOK, known
<1>4. CASE Finalize /\ ~Fail /\ UNCHANGED driven
  <2>1. step + 1 \in Nat /\ "finalize" \in Stages
    BY <1>a DEF PlaceOK, Stages
  <2>2. PlaceOK'
    BY <1>4, <1>b, <1>d, <2>1, Constants DEF Finalize
  <2> QED  BY <1>4, <1>a, <2>2, TypeByDrop DEF Finalize
<1>5. CASE Probe /\ ~Fail /\ UNCHANGED driven
  <2>1. step + 1 \in Nat /\ head \in Heads /\ {"probe", "fetch"} \subseteq Stages
    BY <1>a DEF PlaceOK, Stages
  <2>2. PlaceOK'
    BY <1>5, <1>b, <2>1 DEF Probe, Asked
  <2> QED  BY <1>5, <1>c, <2>1, <2>2, TypeByDrain DEF Probe, Asked
<1>6. CASE Fetch /\ ~Fail /\ UNCHANGED driven
  <2>1. head \in Heads /\ "wait" \in Stages
    BY <1>a DEF PlaceOK, Stages
  <2>2. PlaceOK'
    BY <1>6, <1>b, <2>1 DEF Fetch, Asked
  <2>3. transit \o << >> = transit
    BY <1>a, ConcatEmptySeq
  <2>4. transit' \in Seq(Replies)
    BY <1>6, <1>a, <1>e, <2>1, <2>3 DEF Fetch
  <2> QED  BY <1>6, <2>2, <2>4 DEF Fetch, Asked, TypeOK, PlaceOK, known, keys
<1>7. CASE Wait /\ UNCHANGED driven
  <2>1. step + 1 \in Nat /\ head \in Heads /\ {"wait", "engage"} \subseteq Stages
    BY <1>a DEF PlaceOK, Stages
  <2>2. PlaceOK'
    BY <1>7, <1>b, <2>1 DEF Wait, Asked
  <2> QED  BY <1>7, <1>c, <2>1, <2>2, TypeByDrain, TypeByMove DEF Wait, Asked
<1>8. CASE Engage /\ ~Fail /\ UNCHANGED driven
  <2>1. step + 1 \in Nat /\ head \in Heads /\ {"engage", "settle"} \subseteq Stages
    BY <1>a DEF PlaceOK, Stages
  <2>2. PlaceOK'
    BY <1>8, <1>b, <2>1 DEF Engage, Asked
  <2> QED  BY <1>8, <1>c, <2>1, <2>2, TypeByDrain DEF Engage, Asked
<1>9. CASE Settle /\ ~Fail /\ UNCHANGED driven
  <2>1. step + 1 \in Nat /\ head \in Heads /\ {"settle", "mode"} \subseteq Stages
    BY <1>a DEF PlaceOK, Stages
  <2>2. CASE step < SettleProbes /\ present[head] = None
    <3>1. PlaceOK'
      BY <1>9, <1>b, <2>1, <2>2 DEF Settle, Asked
    <3> QED  BY <1>9, <1>c, <2>1, <2>2, <3>1, TypeByDrain DEF Settle, Asked
  <2>3. CASE ~(step < SettleProbes /\ present[head] = None)
    <3>1. PlaceOK'
      BY <1>9, <1>a, <2>1, <2>3 DEF Settle, Go, PlaceOK
    <3> QED  BY <1>9, <2>3, <3>1, TypeByMove DEF Settle
  <2> QED  BY <2>2, <2>3
<1>10. CASE Mode /\ ~Fail /\ UNCHANGED driven
  <2>1. step + 1 \in Nat /\ head \in Heads /\ {"mode", "train"} \subseteq Stages
    BY <1>a DEF PlaceOK, Stages
  <2>2. PlaceOK'
    BY <1>10, <1>b, <2>1 DEF Mode
  <2> QED  BY <1>10, <1>a, <2>2, TypeByDrop DEF Mode
<1>11. CASE Overrun /\ ~Fail /\ UNCHANGED driven
  <2>1. PlaceOK'
    BY <1>11, <1>a DEF Overrun, Go, PlaceOK, Stages, Attempts
  <2> QED  BY <1>11, <2>1, TypeByMove DEF Overrun
<1>12. CASE Train /\ ~Fail /\ UNCHANGED driven
  <2>1. PlaceOK' /\ active' \in [Heads -> BOOLEAN]
    BY <1>12, <1>a, <1>d DEF Train
  <2> QED  BY <1>12, <2>1, TypeByDrop DEF Train
<1>13. CASE Ready /\ ~Fail /\ UNCHANGED driven
  <2>1. PlaceOK'
    BY <1>13, <1>b, Constants DEF Ready, Stages
  <2> QED  BY <1>13, <2>1, TypeByMove DEF Ready
<1>14. CASE Poll /\ ~Fail /\ UNCHANGED driven
  <2>1. PlaceOK' /\ active' \in [Heads -> BOOLEAN]
    BY <1>14, <1>a DEF Poll, PlaceOK, place
  <2> QED  BY <1>14, <2>1, TypeByDrop DEF Poll
<1>15. ASSUME NEW h \in Heads, Push(h), UNCHANGED driven PROVE TypeOK'
  <2>1. pushes \in [Heads -> 0..MaxPushes] /\ pushes[h] + 1 \in 0..MaxPushes
    BY <1>15, Constants DEF Push, TypeOK
  <2>2. pushes' \in [Heads -> 0..MaxPushes]
    BY <1>15, <2>1 DEF Push
  <2>3. transit' \in Seq(Replies)
    BY <1>15, <1>e DEF Push
  <2> QED  BY <1>15, <2>2, <2>3 DEF Push, TypeOK, place, known, keys
<1>16. CASE Replug /\ UNCHANGED driven
  BY <1>16 DEF Replug, TypeOK, place, known, keys
<1>17. CASE UNCHANGED vars
  BY <1>17 DEF vars, TypeOK, place, known, keys, dock
<1> QED  BY <1>0, <1>1, <1>2, <1>3, <1>4, <1>5, <1>6, <1>7, <1>8, <1>9, <1>10, <1>11, <1>12,
            <1>13, <1>14, <1>15, <1>16, <1>17, Zenon DEF Next, Driver

\* Whatever the constants, the state stays of its type: the queue holds replies no later than
\* the bound, and what a head is credited with is a connector of the dock or none.
THEOREM TypeCorrect == Spec => []TypeOK
<1>1. Init => TypeOK
  BY Constants DEF Init, TypeOK, Stages, Attempts
<1> QED  BY <1>1, TypeInductive, PTL DEF Spec

-----------------------------------------------------------------------------
(* Keys.                                                                   *)

\* What makes KeyIsTheHeads inductive: the Rrx in hand is of the head being configured, and
\* gone before the next; once the driver is past wrapping a key, it is the head's.
KeyInv ==
  /\ TypeOK
  /\ rrx \in {None, head}
  /\ stage \notin {"heads", "failed"} => rrx = None
  /\ stage = "heads" => step < Steps
  /\ stage = "heads" /\ step > Gate + 1 => key[head] = head
  /\ KeyIsTheHeads

\* A step that leaves the keys alone keeps it, if it is outside the configuration of a head
\* or enters it at the beginning.
LEMMA KeyByOther ==
  ASSUME KeyInv, TypeOK', UNCHANGED keys,
         \/ rrx = None /\ (stage' = "heads" => step' = 0)
         \/ stage' = "failed" /\ UNCHANGED head
  PROVE  KeyInv'
<1>1. KeyIsTheHeads' /\ rrx' = rrx
  BY DEF KeyInv, keys, KeyIsTheHeads
<1>2. CASE rrx = None /\ (stage' = "heads" => step' = 0)
  BY <1>1, <1>2 DEF KeyInv, Steps, Gate
<1>3. CASE stage' = "failed" /\ UNCHANGED head
  BY <1>1, <1>3 DEF KeyInv
<1> QED  BY <1>2, <1>3

\* A step of a head's configuration.
LEMMA KeyByConfigure ==
  ASSUME KeyInv, TypeOK', ConfigureHead, ~Fail
  PROVE  KeyInv'
<1>0. /\ transit \in Seq(Replies) /\ head \in Heads /\ step \in Nat /\ stage = "heads"
      /\ key \in [Heads -> Heads \cup {None}] /\ auth \in [Heads -> BOOLEAN] /\ step < Steps
      /\ None \notin Heads /\ rrx \in {None, head}
  BY Constants DEF KeyInv, TypeOK, ConfigureHead
<1> DEFINE push(n) == Latest(transit, n, TheHeads)
<1>1. PICK n \in Readable(transit) :
        rrx' = IF step = Steps - 1 THEN None ELSE IF push(n) = None THEN rrx ELSE push(n).of
  BY Zenon DEF ConfigureHead
<1>2. push(n) # None => push(n).of = head
  <2>1. n \in 0..Len(transit)
    BY <1>0, UnreadAreReplies
  <2>2. push(n) # None => push(n) \in TheHeads
    BY <1>0, <2>1, LatestIsAsked
  <2> QED  BY <2>2 DEF TheHeads
<1> HIDE DEF push
<1>3. /\ step > Gate => rrx # None
      /\ key' = IF step = Gate + 1 THEN [key EXCEPT ![head] = rrx] ELSE key
      /\ IF step < Steps - 1
         THEN Go("heads", head, step + 1) /\ UNCHANGED auth
         ELSE /\ auth' = [auth EXCEPT ![head] = TRUE]
              /\ IF head + 1 < HeadCount THEN Go("heads", head + 1, 0)
                                         ELSE Go("finalize", 0, 0)
  BY Zenon DEF ConfigureHead
<1>4. \A h \in Heads : auth[h] => key'[h] = h
  BY <1>0, <1>3 DEF KeyInv, KeyIsTheHeads, Gate
<1>5. step > Gate => key'[head] = head
  BY <1>0, <1>3 DEF KeyInv, Gate
<1>6. CASE step < Steps - 1
  <2>1. rrx' \in {None, head'} /\ stage' = "heads" /\ head' = head /\ step' = step + 1
    BY <1>0, <1>1, <1>2, <1>3, <1>6 DEF Go
  <2>2. KeyIsTheHeads'
    BY <1>3, <1>4, <1>6 DEF KeyIsTheHeads
  <2>3. step' < Steps /\ (step' > Gate + 1 => key'[head'] = head')
    BY <1>0, <1>5, <1>6, <2>1 DEF Steps, Gate
  <2> QED  BY <2>1, <2>2, <2>3 DEF KeyInv
<1>7. CASE ~(step < Steps - 1)
  <2>1. step = Steps - 1 /\ step > Gate
    BY <1>0, <1>7 DEF Steps, Gate
  <2>2. rrx' = None /\ (stage' = "heads" => step' = 0)
    BY <1>1, <1>3, <1>7, <2>1 DEF Go
  <2>3. KeyIsTheHeads'
    BY <1>0, <1>3, <1>4, <1>5, <1>7, <2>1 DEF KeyIsTheHeads
  <2> QED  BY <2>2, <2>3 DEF KeyInv, Steps, Gate
<1> QED  BY <1>6, <1>7

\* Every step keeps it.
LEMMA KeyInductive == KeyInv /\ [Next]_vars => KeyInv'
<1> SUFFICES ASSUME KeyInv, [Next]_vars PROVE KeyInv'
  OBVIOUS
<1>0. TypeOK /\ TypeOK'
  BY TypeInductive DEF KeyInv
<1>1. CASE Fail
  BY <1>0, <1>1, KeyByOther DEF Fail
<1>2. CASE ConfigureHead /\ ~Fail
  BY <1>0, <1>2, KeyByConfigure
<1>3. CASE (SharedAke \/ Setup \/ Ready) /\ ~Fail
  <2>1. UNCHANGED keys /\ rrx = None /\ (stage' = "heads" => step' = 0)
    BY <1>3 DEF SharedAke, Setup, Ready, Drop, Go, KeyInv
  <2> QED  BY <1>0, <2>1, KeyByOther
<1>4. CASE (Finalize \/ Train) /\ ~Fail
  <2>1. \A h : NextDriven(h) => stage' # "heads"
    BY <1>0, NextDrivenIsAHead
  <2>2. UNCHANGED keys /\ rrx = None /\ stage' # "heads"
    BY <1>4, <2>1 DEF Finalize, Train, Drop, Go, KeyInv
  <2> QED  BY <1>0, <2>2, KeyByOther
<1>5. CASE (Probe \/ Engage) /\ ~Fail
  <2>1. UNCHANGED keys /\ rrx = None /\ stage' # "heads"
    BY <1>5, Zenon DEF Probe, Engage, DrainEdid, Go, KeyInv
  <2> QED  BY <1>0, <2>1, KeyByOther
<1>6. CASE (Fetch \/ Wait \/ Settle \/ Mode \/ Overrun) /\ ~Fail
  <2>1. UNCHANGED keys /\ rrx = None /\ stage' # "heads"
    BY <1>6 DEF Fetch, Wait, Settle, Mode, Overrun, DrainEdid, Drop, Go, KeyInv
  <2> QED  BY <1>0, <2>1, KeyByOther
<1>7. CASE Poll /\ ~Fail
  <2>1. UNCHANGED keys /\ rrx = None /\ stage' # "heads"
    BY <1>7 DEF Poll, place, Drop, KeyInv
  <2> QED  BY <1>0, <2>1, KeyByOther
<1>8. CASE Replug \/ (\E h \in Heads : Push(h)) \/ UNCHANGED vars
  <2>1. UNCHANGED <<place, keys>>
    BY <1>8 DEF Replug, Push, vars
  <2> QED  BY <1>0, <2>1 DEF KeyInv, KeyIsTheHeads, place, keys
<1> QED  BY <1>1, <1>2, <1>3, <1>4, <1>5, <1>6, <1>7, <1>8, Zenon DEF Next, Driver

\* Whatever the other connectors' receivers send, and however often and late: a head that
\* authenticated has its video key wrapped for its own receiver.
THEOREM KeysAreTheHeads == Spec => []KeyIsTheHeads
<1>1. Init => KeyInv
  <2>1. Init => TypeOK
    BY Constants DEF Init, TypeOK, Stages, Attempts
  <2> QED  BY <2>1 DEF Init, KeyInv, KeyIsTheHeads
<1>2. KeyInv => KeyIsTheHeads
  BY DEF KeyInv
<1> QED  BY <1>1, <1>2, KeyInductive, PTL DEF Spec

-----------------------------------------------------------------------------
(* Presence and EDID.                                                      *)

Awaiting == {"wait", "engage", "settle"}
Asking   == {"probe", "fetch"} \cup Awaiting
Training == {"mode", "train"}
Early    == {"ake", "setup", "heads", "finalize"}

\* No other head's status is on its way, and the presence p in hand is not another head's.
Settled(q, p, h) ==
  /\ p \in {h, None}
  /\ \A i \in 1..Len(q) : q[i].kind = "status" => q[i].of = h

\* A status of the head's own is on its way, before any EDID, and behind it no other head's.
Ahead(q, h) == \E i \in 1..Len(q) :
  /\ q[i].kind = "status"
  /\ \A j \in i..Len(q) : q[j].kind = "status" => q[j].of = h
  /\ \A j \in 1..i : q[j].kind # "edid"

Fresh(q, p, h) == Settled(q, p, h) \/ Ahead(q, h)

NoEdid(q) == \A i \in 1..Len(q) : q[i].kind # "edid"

OneEdid(q, h) == \A i, j \in 1..Len(q) :
  q[i].kind = "edid" => q[i].of = h /\ (q[j].kind = "edid" => i = j)

\* The replies left unread are the replies behind those read.
LEMMA UnreadAreBehind ==
  ASSUME NEW q \in Seq(Replies), NEW n \in Readable(q)
  PROVE  /\ n \in 0..Len(q) /\ Len(Unread(q, n)) = Len(q) - n
         /\ \A i \in 1..Len(Unread(q, n)) :
              /\ n + i \in 1..Len(q)
              /\ Unread(q, n)[i].kind = q[n + i].kind
              /\ Unread(q, n)[i].of = q[n + i].of
<1>1. n \in 0..Len(q) /\ Len(q) \in Nat /\ Len(q) - n \in Nat
  BY LenProperties DEF Readable
<1>2. Unread(q, n) \in Seq(Replies) /\ DOMAIN Unread(q, n) = 1..Len(q) - n
  BY UnreadAreReplies DEF Unread
<1>3. Len(Unread(q, n)) = Len(q) - n
  BY <1>1, <1>2, LenProperties
<1>4. ASSUME NEW i \in 1..Len(q) - n
      PROVE  /\ n + i \in 1..Len(q)
             /\ Unread(q, n)[i].kind = q[n + i].kind
             /\ Unread(q, n)[i].of = q[n + i].of
  <2>1. n + i \in 1..Len(q)
    BY <1>1
  <2>2. q[n + i] \in Replies
    BY <2>1, ElementOfSeq
  <2>3. Unread(q, n)[i] = [q[n + i] EXCEPT !.missed = @ + 1]
    BY DEF Unread
  <2> DEFINE r == q[n + i]
  <2>4. r \in Replies
    BY <2>2
  <2> HIDE DEF r
  <2>5. [r EXCEPT !.missed = @ + 1].kind = r.kind /\ [r EXCEPT !.missed = @ + 1].of = r.of
    BY <2>4 DEF Replies
  <2> QED
    BY <2>1, <2>3, <2>5 DEF r
<1> QED
  BY <1>1, <1>3, <1>4

\* The presence in hand once the replies of status are looked at.
Seen(p, status) == IF status = None THEN p ELSE IF status.bit THEN status.of ELSE None

\* Reading keeps what is settled settled, and what is fresh fresh; and whoever has read an
\* EDID with a status of the head's own ahead of it has read that status too.
LEMMA ReadingKeepsFresh ==
  ASSUME NEW q \in Seq(Replies), NEW n \in Readable(q), NEW p, NEW h \in Heads
  PROVE  LET u  == Unread(q, n)
             p2 == Seen(p, Latest(q, n, Of("status")))
         IN /\ Settled(q, p, h) => Settled(u, p2, h)
            /\ Ahead(q, h) => Fresh(u, p2, h)
            /\ Ahead(q, h) /\ (\E e \in 1..n : q[e].kind = "edid") => Settled(u, p2, h)
<1> DEFINE u      == Unread(q, n)
           status == Latest(q, n, Of("status"))
           p2     == Seen(p, status)
<1>1. /\ n \in 0..Len(q) /\ Len(q) \in Nat /\ Len(u) = Len(q) - n
      /\ \A i \in 1..Len(u) : /\ n + i \in 1..Len(q)
                              /\ u[i].kind = q[n + i].kind /\ u[i].of = q[n + i].of
  BY UnreadAreBehind, LenProperties
<1>2. \A i \in 1..Len(q) : q[i] \in Of("status") <=> q[i].kind = "status"
  BY ElementOfSeq DEF Of
<1>3. \/ status = None /\ \A i \in 1..n : q[i] \notin Of("status")
      \/ \E i \in 1..n : /\ status = q[i] /\ q[i] \in Of("status") \cap Replies
                         /\ \A j \in 1..n : q[j] \in Of("status") => j <= i
  BY <1>1, LatestIsLast
<1>4. None \notin Replies
  BY ControlAssumption
<1> HIDE DEF u, status
<1>5. ASSUME Settled(q, p, h) PROVE Settled(u, p2, h)
  <2>1. \A i \in 1..Len(u) : u[i].kind = "status" => u[i].of = h
    BY <1>1, <1>5 DEF Settled
  <2>2. p2 \in {h, None}
    <3>1. CASE status = None
      BY <1>5, <3>1 DEF Settled, Seen
    <3>2. CASE \E i \in 1..n : status = q[i] /\ q[i] \in Of("status")
      <4>1. PICK i \in 1..n : status = q[i] /\ q[i] \in Of("status")
        BY <3>2
      <4>2. i \in 1..Len(q)
        BY <1>1
      <4>3. q[i].kind = "status"
        BY <1>2, <4>1, <4>2
      <4>4. q[i].of = h
        BY <1>5, <4>2, <4>3 DEF Settled
      <4>5. p2 = p \/ p2 = h \/ p2 = None
        BY <4>1, <4>4 DEF Seen
      <4> QED
        BY <1>5, <4>5 DEF Settled
    <3> QED
      BY <1>3, <3>1, <3>2
  <2> QED
    BY <2>1, <2>2 DEF Settled
<1>6. ASSUME Ahead(q, h)
      PROVE  /\ Fresh(u, p2, h)
             /\ (\E e \in 1..n : q[e].kind = "edid") => Settled(u, p2, h)
  <2>1. PICK i \in 1..Len(q) :
          /\ q[i].kind = "status"
          /\ \A j \in i..Len(q) : q[j].kind = "status" => q[j].of = h
          /\ \A j \in 1..i : q[j].kind # "edid"
    BY <1>6 DEF Ahead
  <2>2. CASE i <= n
    <3>1. \A j \in 1..Len(u) : u[j].kind = "status" => u[j].of = h
      <4> TAKE j \in 1..Len(u)
      <4>1. n + j \in i..Len(q)
        BY <1>1, <2>2
      <4> QED
        BY <1>1, <2>1, <4>1
    <3>2. i \in 1..n /\ q[i] \in Of("status")
      BY <1>1, <1>2, <2>1, <2>2
    <3>3. PICK k \in 1..n : /\ status = q[k] /\ q[k] \in Of("status") \cap Replies
                           /\ \A j \in 1..n : q[j] \in Of("status") => j <= k
      BY <1>3, <3>2
    <3>4. k \in i..Len(q) /\ q[k].kind = "status"
      BY <1>1, <1>2, <3>2, <3>3
    <3>5. status # None /\ status.of = h
      BY <1>4, <2>1, <3>3, <3>4
    <3>6. p2 \in {h, None}
      BY <3>5 DEF Seen
    <3> QED
      BY <3>1, <3>6 DEF Settled, Fresh
  <2>3. CASE i > n
    <3>1. i - n \in 1..Len(u) /\ n + (i - n) = i
      BY <1>1, <2>3
    <3>2. u[i - n].kind = "status"
      BY <1>1, <2>1, <3>1
    <3>3. ASSUME NEW j \in (i - n)..Len(u), u[j].kind = "status" PROVE u[j].of = h
      <4>1. j \in 1..Len(u) /\ n + j \in i..Len(q)
        BY <1>1, <3>1
      <4> QED
        BY <1>1, <2>1, <3>3, <4>1
    <3>4. ASSUME NEW j \in 1..(i - n) PROVE u[j].kind # "edid"
      <4>1. j \in 1..Len(u) /\ n + j \in 1..i
        BY <1>1, <3>1
      <4> QED
        BY <1>1, <2>1, <4>1
    <3>5. Ahead(u, h)
      BY <3>1, <3>2, <3>3, <3>4 DEF Ahead
    <3>6. \A e \in 1..n : q[e].kind # "edid"
      BY <1>1, <2>1, <2>3
    <3> QED
      BY <3>5, <3>6 DEF Fresh
  <2> QED
    BY <1>1, <2>2, <2>3
<1> QED
  BY <1>5, <1>6 DEF u, status

\* The EDID read, if any, is of the head that awaits it, and leaves none on its way.
LEMMA ReadingTakesTheEdid ==
  ASSUME NEW q \in Seq(Replies), NEW n \in Readable(q), NEW h \in Heads
  PROVE  LET u        == Unread(q, n)
             answered == Latest(q, n, Of("edid"))
         IN /\ NoEdid(q) => NoEdid(u) /\ answered = None
            /\ OneEdid(q, h) => /\ OneEdid(u, h)
                                /\ answered # None =>
                                     /\ answered.of = h /\ NoEdid(u)
                                     /\ \E e \in 1..n : q[e].kind = "edid"
<1> DEFINE u        == Unread(q, n)
           answered == Latest(q, n, Of("edid"))
<1>1. /\ n \in 0..Len(q) /\ Len(q) \in Nat /\ Len(u) = Len(q) - n
      /\ \A i \in 1..Len(u) : /\ n + i \in 1..Len(q)
                              /\ u[i].kind = q[n + i].kind /\ u[i].of = q[n + i].of
  BY UnreadAreBehind, LenProperties
<1>2. \A i \in 1..Len(q) : q[i] \in Of("edid") <=> q[i].kind = "edid"
  BY ElementOfSeq DEF Of
<1>3. \/ answered = None
      \/ \E i \in 1..n : answered = q[i] /\ q[i] \in Of("edid")
  BY <1>1, LatestIsLast
<1> HIDE DEF u, answered
<1>4. ASSUME NoEdid(q) PROVE NoEdid(u) /\ answered = None
  <2>1. \A i \in 1..Len(q) : q[i].kind # "edid"
    BY <1>4 DEF NoEdid
  <2>2. NoEdid(u)
    <3> SUFFICES ASSUME NEW i \in 1..Len(u) PROVE u[i].kind # "edid"
      BY DEF NoEdid
    <3>1. n + i \in 1..Len(q) /\ u[i].kind = q[n + i].kind
      BY <1>1
    <3> QED
      BY <2>1, <3>1
  <2>3. \A i \in 1..n : i \in 1..Len(q)
    BY <1>1
  <2>4. answered = None
    BY <1>2, <1>3, <2>1, <2>3
  <2> QED
    BY <2>2, <2>4
<1>5. ASSUME OneEdid(q, h) PROVE OneEdid(u, h)
  <2> SUFFICES ASSUME NEW i \in 1..Len(u), NEW j \in 1..Len(u), u[i].kind = "edid"
               PROVE  u[i].of = h /\ (u[j].kind = "edid" => i = j)
    BY DEF OneEdid
  <2>1. n + i \in 1..Len(q) /\ n + j \in 1..Len(q) /\ (n + i = n + j => i = j)
    BY <1>1
  <2> QED
    BY <1>1, <1>5, <2>1 DEF OneEdid
<1>6. ASSUME OneEdid(q, h), answered # None
      PROVE  answered.of = h /\ NoEdid(u) /\ \E e \in 1..n : q[e].kind = "edid"
  <2>1. PICK i \in 1..n : answered = q[i] /\ q[i] \in Of("edid")
    BY <1>3, <1>6
  <2>2. i \in 1..Len(q) /\ q[i].kind = "edid"
    BY <1>1, <1>2, <2>1
  <2>3. answered.of = h
    BY <1>6, <2>1, <2>2 DEF OneEdid
  <2>4. NoEdid(u)
    <3> SUFFICES ASSUME NEW j \in 1..Len(u), u[j].kind = "edid" PROVE FALSE
      BY DEF NoEdid
    <3>1. n + j \in 1..Len(q) /\ q[n + j].kind = "edid" /\ n + j # i
      BY <1>1, <2>1
    <3> QED
      BY <1>6, <2>2, <3>1 DEF OneEdid
  <2> QED
    BY <2>1, <2>2, <2>3, <2>4
<1> QED
  BY <1>4, <1>5, <1>6 DEF u, answered

\* What is sent goes behind the rest.
LEMMA SentIsBehind ==
  ASSUME NEW q \in Seq(Replies), NEW kind \in {"rrx", "status", "edid"}, NEW h \in Heads
  PROVE  LET r == q \o Reply(kind, h)
         IN /\ r \in Seq(Replies) /\ Len(r) = Len(q) + 1 /\ Len(q) \in Nat
            /\ \A i \in 1..Len(q) : r[i] = q[i]
            /\ r[Len(q) + 1].kind = kind /\ r[Len(q) + 1].of = h
<1> DEFINE x == [kind |-> kind, of |-> h, bit |-> h \in plugged, missed |-> 0]
           r == q \o Reply(kind, h)
<1>1. Reply(kind, h) = <<x>> /\ Reply(kind, h) \in Seq(Replies) /\ x.kind = kind /\ x.of = h
  BY RepliesAreReplies DEF Reply
<1> HIDE DEF x
<1>2. Len(<<x>>) = 1 /\ <<x>>[1] = x
  OBVIOUS
<1>3. r \in Seq(Replies) /\ Len(r) = Len(q) + 1 /\ Len(q) \in Nat
  BY <1>1, <1>2, ConcatProperties, LenProperties
<1>4. \A i \in 1..Len(q) : r[i] = q[i]
  BY <1>1, <1>2, <1>3, ConcatProperties
<1>5. r[Len(q) + 1] = x
  BY <1>1, <1>2, <1>3, ConcatProperties
<1> QED
  BY <1>1, <1>3, <1>4, <1>5

\* So it keeps what is settled, ahead and awaited; a status sent where no EDID is on its way is
\* ahead of any.
LEMMA SendingKeepsFresh ==
  ASSUME NEW q \in Seq(Replies), NEW kind \in {"rrx", "status", "edid"},
         NEW g \in Heads, NEW h \in Heads,
         NEW p, kind = "status" => g = h
  PROVE  LET r == q \o Reply(kind, g)
         IN /\ Settled(q, p, h) => Settled(r, p, h)
            /\ Ahead(q, h) => Ahead(r, h)
            /\ NoEdid(q) /\ kind = "status" => Ahead(r, h)
            /\ NoEdid(q) /\ kind # "edid" => NoEdid(r)
            /\ OneEdid(q, h) /\ kind # "edid" => OneEdid(r, h)
            /\ NoEdid(q) /\ kind = "edid" /\ g = h => OneEdid(r, h)
<1> DEFINE r == q \o Reply(kind, g)
<1>1. /\ Len(r) = Len(q) + 1 /\ Len(q) \in Nat
      /\ \A i \in 1..Len(q) : r[i] = q[i]
      /\ r[Len(q) + 1].kind = kind /\ r[Len(q) + 1].of = g
  BY SentIsBehind
<1> HIDE DEF r
<1>2. \A i \in 1..Len(r) : i \in 1..Len(q) \/ i = Len(q) + 1
  BY <1>1
<1>3. Settled(q, p, h) => Settled(r, p, h)
  BY <1>1, <1>2 DEF Settled
<1>4. ASSUME Ahead(q, h) PROVE Ahead(r, h)
  <2>1. PICK i \in 1..Len(q) :
          /\ q[i].kind = "status"
          /\ \A j \in i..Len(q) : q[j].kind = "status" => q[j].of = h
          /\ \A j \in 1..i : q[j].kind # "edid"
    BY <1>4 DEF Ahead
  <2>2. i \in 1..Len(r) /\ r[i].kind = "status"
    BY <1>1, <2>1
  <2>3. ASSUME NEW j \in i..Len(r), r[j].kind = "status" PROVE r[j].of = h
    <3>1. CASE j \in i..Len(q)
      BY <1>1, <2>1, <2>3, <3>1
    <3>2. CASE j = Len(q) + 1
      BY <1>1, <2>3, <3>2
    <3> QED
      BY <1>1, <3>1, <3>2
  <2>4. \A j \in 1..i : r[j].kind # "edid"
    BY <1>1, <2>1
  <2> QED
    BY <2>2, <2>3, <2>4 DEF Ahead
<1>5. ASSUME NoEdid(q), kind = "status" PROVE Ahead(r, h)
  <2> DEFINE i == Len(q) + 1
  <2>1. i \in 1..Len(r) /\ r[i].kind = "status"
    BY <1>1, <1>5
  <2>2. \A j \in i..Len(r) : j = i
    BY <1>1
  <2>3. r[i].of = h
    BY <1>1, <1>5
  <2>4. \A j \in 1..i : r[j].kind # "edid"
    BY <1>1, <1>5 DEF NoEdid
  <2> HIDE DEF i
  <2> QED
    BY <2>1, <2>2, <2>3, <2>4 DEF Ahead
<1>6. NoEdid(q) /\ kind # "edid" => NoEdid(r)
  BY <1>1, <1>2 DEF NoEdid
<1>7. ASSUME OneEdid(q, h), kind # "edid" PROVE OneEdid(r, h)
  BY <1>1, <1>2, <1>7 DEF OneEdid
<1>8. ASSUME NoEdid(q), kind = "edid", g = h PROVE OneEdid(r, h)
  BY <1>1, <1>2, <1>8 DEF OneEdid, NoEdid
<1> QED
  BY <1>3, <1>4, <1>5, <1>6, <1>7, <1>8 DEF r

\* What a drain for the head being asked makes of what was fresh, settled and awaited.
LEMMA DrainMeasures ==
  ASSUME TypeOK, NEW answer \in Seq(Replies), DrainEdid(head, answer)
  PROVE  LET q == transit \o answer IN
         /\ \A g \in Heads \ {head} : edid'[g] = edid[g] /\ present'[g] = present[g]
         /\ Settled(q, present[head], head) => Settled(transit', present'[head], head)
         /\ Fresh(q, present[head], head) => Fresh(transit', present'[head], head)
         /\ NoEdid(q) => NoEdid(transit') /\ edid'[head] = edid[head]
         /\ OneEdid(q, head) =>
              /\ OneEdid(transit', head)
              /\ \/ edid'[head] = edid[head]
                 \/ /\ edid'[head] = head /\ NoEdid(transit')
                    /\ Fresh(q, present[head], head) => Settled(transit', present'[head], head)
<1> DEFINE q        == transit \o answer
           status(n)   == Latest(q, n, Of("status"))
           answered(n) == Latest(q, n, Of("edid"))
<1>1. q \in Seq(Replies) /\ head \in Heads
      /\ edid \in [Heads -> Heads \cup {None}] /\ present \in [Heads -> Heads \cup {None}]
  BY ConcatProperties DEF TypeOK
<1> HIDE DEF q
<1>2. PICK n \in Readable(q) :
        /\ transit' = Unread(q, n)
        /\ present' = [present EXCEPT ![head] = IF status(n) = None THEN @
                                               ELSE IF status(n).bit THEN status(n).of ELSE None]
        /\ edid' = [edid EXCEPT ![head] = IF answered(n) = None THEN @ ELSE answered(n).of]
  BY Zenon DEF DrainEdid, q
<1> HIDE DEF status, answered
<1>3. /\ \A g \in Heads \ {head} : edid'[g] = edid[g] /\ present'[g] = present[g]
      /\ present'[head] = Seen(present[head], status(n))
      /\ edid'[head] = IF answered(n) = None THEN edid[head] ELSE answered(n).of
  BY <1>1, <1>2 DEF Seen
<1>4. /\ Settled(q, present[head], head) => Settled(transit', present'[head], head)
      /\ Ahead(q, head) => Fresh(transit', present'[head], head)
      /\ Ahead(q, head) /\ (\E e \in 1..n : q[e].kind = "edid")
           => Settled(transit', present'[head], head)
  BY <1>1, <1>2, <1>3, ReadingKeepsFresh DEF status
<1>5. /\ NoEdid(q) => NoEdid(transit') /\ answered(n) = None
      /\ OneEdid(q, head) => /\ OneEdid(transit', head)
                             /\ answered(n) # None =>
                                  /\ answered(n).of = head /\ NoEdid(transit')
                                  /\ \E e \in 1..n : q[e].kind = "edid"
  BY <1>1, <1>2, ReadingTakesTheEdid DEF answered
<1>6. Fresh(q, present[head], head) => Fresh(transit', present'[head], head)
  BY <1>4 DEF Fresh
<1>7. NoEdid(q) => NoEdid(transit') /\ edid'[head] = edid[head]
  BY <1>3, <1>5
<1>8. ASSUME OneEdid(q, head)
      PROVE  /\ OneEdid(transit', head)
             /\ \/ edid'[head] = edid[head]
                \/ /\ edid'[head] = head /\ NoEdid(transit')
                   /\ Fresh(q, present[head], head) => Settled(transit', present'[head], head)
  <2>1. OneEdid(transit', head)
    BY <1>5, <1>8
  <2>2. CASE answered(n) = None
    BY <1>3, <2>1, <2>2
  <2>3. CASE answered(n) # None
    <3>1. /\ answered(n).of = head /\ NoEdid(transit')
          /\ \E e \in 1..n : q[e].kind = "edid"
      BY <1>5, <1>8, <2>3
    <3>2. edid'[head] = head
      BY <1>3, <2>3, <3>1
    <3>3. Fresh(q, present[head], head) => Settled(transit', present'[head], head)
      BY <1>4, <3>1 DEF Fresh
    <3> QED
      BY <2>1, <3>1, <3>2, <3>3
  <2> QED
    BY <2>2, <2>3
<1> QED
  BY <1>3, <1>4, <1>6, <1>7, <1>8 DEF q

\* Dropping what is read brings no EDID.
LEMMA DropMeasures ==
  ASSUME TypeOK, Drop, NoEdid(transit)
  PROVE  NoEdid(transit')
<1>1. transit \in Seq(Replies) /\ 0 \in Heads
  BY Constants DEF TypeOK
<1> QED
  BY <1>1, ReadingTakesTheEdid DEF Drop

\* What makes ArmedIsMeasured inductive: no EDID is on its way but to the head that awaits it,
\* and a head awaits at most one; a head has none before, and the heads from the one at hand on
\* are not trained; the presence in hand and the statuses on their way are the head's own, or a
\* status of its own is ahead of any EDID; so, with the EDID, they are its own.
MeasureInv ==
  /\ TypeOK
  /\ ArmedIsMeasured
  /\ \A h \in Heads : edid[h] \in {None, h}
  /\ stage \notin Awaiting \cup {"failed"} => NoEdid(transit)
  /\ stage \in Awaiting => OneEdid(transit, head) /\ (edid[head] # None => NoEdid(transit))
  /\ stage \in Asking /\ (stage = "probe" => step > 0) => Fresh(transit, present[head], head)
  /\ stage \in Awaiting /\ edid[head] # None => Settled(transit, present[head], head)
  /\ stage \in Training => edid[head] = head /\ present[head] = head
  /\ stage \in Asking \cup Training => \A h \in Heads : h >= head => ~active[h]
  /\ stage \in {"probe", "fetch"} => \A h \in Heads : h >= head => edid[h] = None
  /\ stage \in Awaiting \cup Training => \A h \in Heads : h > head => edid[h] = None
  /\ stage \in Early => \A h \in Heads : edid[h] = None /\ ~active[h]

\* A step before the first head is asked, up to asking it.
LEMMA MeasureByEarly ==
  ASSUME MeasureInv, TypeOK', stage \in Early, UNCHANGED <<known, active>>, NoEdid(transit'),
         stage' \in Early \cup {"ready"} \/ (stage' = "probe" /\ step' = 0)
  PROVE  MeasureInv'
<1>1. UNCHANGED <<edid, present, active>> /\ \A h \in Heads : edid[h] = None /\ ~active[h]
  BY DEF MeasureInv, known
<1>2. stage' \in Early \cup {"ready", "probe"} /\ (stage' = "probe" => step' = 0)
  BY DEF Early
<1>3. ArmedIsMeasured'
  BY <1>1 DEF ArmedIsMeasured
<1> QED
  BY <1>1, <1>2, <1>3 DEF MeasureInv, Early, Asking, Awaiting, Training

\* A step of the driver that changes nothing but where it is and what is on its way.
LEMMA MeasureByRest ==
  ASSUME MeasureInv, TypeOK', UNCHANGED <<known, active>>,
         \/ stage' = "failed"
         \/ stage' \in {"ready", "streaming"} /\ NoEdid(transit')
         \/ stage \in Training /\ stage' \in Training /\ UNCHANGED head /\ NoEdid(transit')
  PROVE  MeasureInv'
<1>1. UNCHANGED <<edid, present, active>> /\ ArmedIsMeasured'
  BY DEF MeasureInv, known, ArmedIsMeasured
<1>2. CASE stage' \in {"ready", "streaming", "failed"} /\ (stage' # "failed" => NoEdid(transit'))
  BY <1>1, <1>2 DEF MeasureInv, Early, Asking, Awaiting, Training
<1>3. CASE stage \in Training /\ stage' \in Training /\ UNCHANGED head /\ NoEdid(transit')
  BY <1>1, <1>3 DEF MeasureInv, Early, Asking, Awaiting, Training
<1> QED
  BY <1>2, <1>3

\* What a step that drops what it reads leaves on its way, where no EDID is.
LEMMA NothingAwaited ==
  ASSUME MeasureInv, Drop, stage \notin Awaiting \cup {"failed"}
  PROVE  NoEdid(transit') /\ UNCHANGED known
BY DropMeasures DEF MeasureInv, Drop

\* The next driven head is behind.
LEMMA NextDrivenIsBehind ==
  ASSUME TypeOK, NEW h \in Nat, NextDriven(h), stage' = "probe"
  PROVE  head' >= h
<1> DEFINE rest == {d \in driven : d >= h}
           first == CHOOSE d \in rest : \A e \in rest : d <= e
<1>1. rest \subseteq Nat /\ \A d \in rest : d >= h
  BY Constants DEF TypeOK
<1>2. IF rest = {} THEN Go("ready", 0, 0) ELSE Go("probe", first, 0)
  BY Zenon DEF NextDriven
<1> HIDE DEF rest
<1>3. rest # {} /\ head' = first
  BY <1>2 DEF Go
<1>4. \E d \in rest : \A e \in rest : d <= e
  BY <1>1, <1>3, Least
<1>5. first \in rest
  BY <1>4
<1> QED
  BY <1>1, <1>3, <1>5

\* A head is trained.
LEMMA MeasureByTrain ==
  ASSUME MeasureInv, TypeOK', Train, ~Fail
  PROVE  MeasureInv'
<1>1. /\ stage = "train" /\ UNCHANGED <<edid, present>> /\ NoEdid(transit')
      /\ active' = [active EXCEPT ![head] = TRUE] /\ NextDriven(head + 1)
  BY NothingAwaited DEF Train, known, Awaiting
<1>2. /\ head \in Heads /\ head \in Nat /\ active \in [Heads -> BOOLEAN]
      /\ Heads \subseteq Nat /\ TypeOK
  BY Constants DEF MeasureInv, TypeOK
<1>3. /\ stage' \in {"ready", "probe"} /\ step' = 0
      /\ stage' = "probe" => head' \in Heads /\ head' >= head + 1
  BY <1>1, <1>2, NextDrivenIsAHead, NextDrivenIsBehind
<1>4. /\ edid[head] = head /\ present[head] = head
      /\ \A h \in Heads : h >= head => ~active[h]
      /\ \A h \in Heads : h > head => edid[h] = None
  BY <1>1 DEF MeasureInv, Training
<1>5. ArmedIsMeasured'
  BY <1>1, <1>2, <1>4 DEF MeasureInv, ArmedIsMeasured
<1>6. ASSUME stage' = "probe", NEW h \in Heads, h >= head' PROVE h > head /\ h # head
  <2>1. h \in Nat /\ head' \in Nat /\ head \in Nat /\ head' >= head + 1
    BY <1>2, <1>3, <1>6
  <2> QED
    BY <1>6, <2>1
<1>7. stage' = "probe" => \A h \in Heads : h >= head' => ~active'[h] /\ edid'[h] = None
  BY <1>1, <1>2, <1>4, <1>6
<1> QED
  BY <1>1, <1>3, <1>5, <1>7 DEF MeasureInv, Early, Asking, Awaiting, Training

\* A drain for the head being asked, with a status of its own behind the rest or nothing.
LEMMA MeasureByDrain ==
  ASSUME MeasureInv, TypeOK', UNCHANGED <<head, active>>,
         NEW answer \in {<< >>, Reply("status", head)}, DrainEdid(head, answer),
         \/ /\ stage = "probe" /\ stage' \in {"probe", "fetch"}
            /\ answer = << >> => step > 0
         \/ stage \in Awaiting /\ stage' \in Awaiting
  PROVE  MeasureInv'
<1> DEFINE q == transit \o answer
<1>0. /\ transit \in Seq(Replies) /\ head \in Heads /\ TypeOK
      /\ Heads \subseteq Nat /\ None \notin Heads
  BY Constants DEF MeasureInv, TypeOK
<1>1. answer \in Seq(Replies)
  BY <1>0, RepliesAreReplies, EmptySeq
<1>2. stage \in Asking /\ stage \notin Training /\ stage \notin Early /\ stage # "failed"
  BY DEF Asking, Awaiting, Training, Early
<1>3. /\ stage = "probe" => NoEdid(q)
      /\ stage \in Awaiting => OneEdid(q, head) /\ (edid[head] # None => NoEdid(q))
      /\ Fresh(q, present[head], head)
      /\ stage \in Awaiting /\ edid[head] # None => Settled(q, present[head], head)
  <2>1. /\ stage = "probe" => NoEdid(transit)
        /\ stage \in Awaiting => OneEdid(transit, head) /\ (edid[head] # None => NoEdid(transit))
        /\ (stage = "probe" => step > 0) => Fresh(transit, present[head], head)
        /\ stage \in Awaiting /\ edid[head] # None => Settled(transit, present[head], head)
    BY <1>2 DEF MeasureInv, Awaiting
  <2>2. CASE answer = << >>
    <3>1. q = transit
      BY <1>0, <2>2, ConcatEmptySeq
    <3> QED
      BY <2>1, <2>2, <3>1 DEF Awaiting
  <2>3. CASE answer = Reply("status", head)
    <3>1. /\ Settled(transit, present[head], head) => Settled(q, present[head], head)
          /\ Ahead(transit, head) => Ahead(q, head)
          /\ NoEdid(transit) => Ahead(q, head)
          /\ NoEdid(transit) => NoEdid(q)
          /\ OneEdid(transit, head) => OneEdid(q, head)
      BY <1>0, <2>3, SendingKeepsFresh
    <3> HIDE DEF q
    <3> QED
      BY <2>1, <3>1 DEF Fresh, Awaiting
  <2> QED
    BY <2>2, <2>3
<1>4. /\ \A g \in Heads \ {head} : edid'[g] = edid[g] /\ present'[g] = present[g]
      /\ Settled(q, present[head], head) => Settled(transit', present'[head], head)
      /\ Fresh(transit', present'[head], head)
      /\ NoEdid(q) => NoEdid(transit') /\ edid'[head] = edid[head]
      /\ OneEdid(q, head) =>
           /\ OneEdid(transit', head)
           /\ \/ edid'[head] = edid[head]
              \/ /\ edid'[head] = head /\ NoEdid(transit')
                 /\ Settled(transit', present'[head], head)
  BY <1>0, <1>1, <1>3, DrainMeasures
<1> HIDE DEF q
<1>5. ~active[head] /\ edid[head] \in {None, head}
  BY <1>0, <1>2 DEF MeasureInv
<1>6. edid'[head] \in {None, head} /\ \A h \in Heads : edid'[h] \in {None, h}
  BY <1>0, <1>3, <1>4, <1>5 DEF MeasureInv, Awaiting
<1>7. ArmedIsMeasured'
  BY <1>4, <1>5 DEF MeasureInv, ArmedIsMeasured
<1>8. \A h \in Heads : h >= head => ~active'[h]
  BY <1>2 DEF MeasureInv
<1>9. \A h \in Heads : h > head => edid'[h] = None
  BY <1>0, <1>2, <1>4 DEF MeasureInv, Asking
<1>10. CASE stage = "probe"
  <2>1. \A h \in Heads : h >= head => edid'[h] = None
    BY <1>0, <1>3, <1>4, <1>10 DEF MeasureInv
  <2>2. stage' \in {"probe", "fetch"}
    BY <1>10 DEF Awaiting
  <2> QED
    BY <1>3, <1>4, <1>6, <1>7, <1>8, <1>10, <2>1, <2>2
       DEF MeasureInv, Early, Asking, Awaiting, Training
<1>11. CASE stage \in Awaiting
  <2>1. stage' \in Awaiting
    BY <1>11 DEF Awaiting
  <2>2. OneEdid(transit', head) /\ (edid'[head] # None => NoEdid(transit'))
    BY <1>3, <1>4, <1>11
  <2>3. edid'[head] # None => Settled(transit', present'[head], head)
    BY <1>3, <1>4, <1>11
  <2> QED
    BY <1>4, <1>6, <1>7, <1>8, <1>9, <2>1, <2>2, <2>3
       DEF MeasureInv, Early, Asking, Awaiting, Training
<1> QED
  BY <1>10, <1>11

\* The fetch of an EDID.
LEMMA MeasureByFetch ==
  ASSUME MeasureInv, TypeOK', Fetch, ~Fail
  PROVE  MeasureInv'
<1>0. /\ transit \in Seq(Replies) /\ head \in Heads /\ Heads \subseteq Nat
      /\ UNCHANGED <<head, edid, present, active>> /\ stage = "fetch" /\ stage' = "wait"
      /\ transit' = transit \o (IF head \in plugged THEN Reply("edid", head) ELSE << >>)
  BY Constants DEF MeasureInv, TypeOK, Fetch, Go, Asked, known
<1>1. /\ NoEdid(transit) /\ Fresh(transit, present[head], head)
      /\ \A h \in Heads : h >= head => edid[h] = None /\ ~active[h]
  BY <1>0 DEF MeasureInv, Asking, Awaiting
<1>2. OneEdid(transit', head) /\ Fresh(transit', present[head], head)
  <2>1. CASE head \in plugged
    <3>1. transit' = transit \o Reply("edid", head)
      BY <1>0, <2>1
    <3> QED
      BY <1>0, <1>1, <3>1, SendingKeepsFresh DEF Fresh
  <2>2. CASE head \notin plugged
    <3>1. transit' = transit
      BY <1>0, <2>2, ConcatEmptySeq
    <3> QED
      BY <1>1, <3>1 DEF NoEdid, OneEdid
  <2> QED
    BY <2>1, <2>2
<1>3. ArmedIsMeasured' /\ edid'[head'] = None
  BY <1>0, <1>1 DEF MeasureInv, ArmedIsMeasured
<1>4. \A h \in Heads : h > head => h >= head
  BY <1>0
<1> QED
  BY <1>0, <1>1, <1>2, <1>3, <1>4 DEF MeasureInv, Early, Asking, Awaiting, Training

\* The end of the waiting, of one stage of it or of all.
LEMMA MeasureByWaited ==
  ASSUME MeasureInv, TypeOK', UNCHANGED <<head, known, dock, active>>,
         \/ stage \in Awaiting /\ stage' \in Awaiting
         \/ /\ stage = "settle" /\ stage' = "mode"
            /\ edid[head] # None /\ present[head] # None
  PROVE  MeasureInv'
<1>1. UNCHANGED <<edid, present, transit, head, active>> /\ ArmedIsMeasured' /\ head \in Heads
  BY DEF MeasureInv, TypeOK, known, dock, ArmedIsMeasured
<1>2. CASE stage \in Awaiting /\ stage' \in Awaiting
  BY <1>1, <1>2 DEF MeasureInv, Early, Asking, Awaiting, Training
<1>3. CASE /\ stage = "settle" /\ stage' = "mode"
           /\ edid[head] # None /\ present[head] # None
  <2>1. edid[head] = head /\ present[head] = head /\ NoEdid(transit)
    BY <1>1, <1>3 DEF MeasureInv, Awaiting, Settled
  <2> QED
    BY <1>1, <1>3, <2>1 DEF MeasureInv, Early, Asking, Awaiting, Training
<1> QED
  BY <1>2, <1>3

\* A receiver's Rrx goes behind the rest.
LEMMA MeasureByPush ==
  ASSUME MeasureInv, TypeOK', NEW g \in Heads, Push(g)
  PROVE  MeasureInv'
<1>0. /\ transit \in Seq(Replies) /\ head \in Heads
      /\ UNCHANGED <<stage, head, step, edid, present, active>>
      /\ transit' = transit \o Reply("rrx", g)
  BY DEF MeasureInv, TypeOK, Push, place, known
<1>1. /\ Settled(transit, present[head], head) => Settled(transit', present[head], head)
      /\ Ahead(transit, head) => Ahead(transit', head)
      /\ NoEdid(transit) => NoEdid(transit')
      /\ OneEdid(transit, head) => OneEdid(transit', head)
  BY <1>0, SendingKeepsFresh
<1>2. Fresh(transit, present[head], head) => Fresh(transit', present[head], head)
  BY <1>1 DEF Fresh
<1>3. ArmedIsMeasured'
  BY <1>0 DEF MeasureInv, ArmedIsMeasured
<1> QED
  BY <1>0, <1>1, <1>2, <1>3 DEF MeasureInv

\* Every step keeps it.
LEMMA MeasureInductive == MeasureInv /\ [Next]_vars => MeasureInv'
<1> SUFFICES ASSUME MeasureInv, [Next]_vars PROVE MeasureInv'
  OBVIOUS
<1>0. TypeOK /\ TypeOK'
  BY TypeInductive DEF MeasureInv
<1>1. CASE Fail
  BY <1>0, <1>1, MeasureByRest DEF Fail
<1>2. CASE (SharedAke \/ Setup \/ ConfigureHead \/ Finalize) /\ ~Fail
  <2>1. stage \in Early /\ NoEdid(transit)
    BY <1>2 DEF SharedAke, Setup, ConfigureHead, Finalize, Early, MeasureInv, Awaiting
  <2>2. UNCHANGED <<known, active>> /\ NoEdid(transit')
    <3>1. CASE SharedAke
      BY <1>2, <2>1, <3>1 DEF SharedAke, dock
    <3>2. CASE Setup \/ Finalize
      BY <1>0, <1>2, <2>1, <3>2, DropMeasures DEF Setup, Finalize, Drop
    <3>3. CASE ConfigureHead
      <4>1. PICK n \in Readable(transit) : transit' = Unread(transit, n)
        BY <1>2, <3>3, Zenon DEF ConfigureHead
      <4>2. transit \in Seq(Replies) /\ 0 \in Heads
        BY <1>0, Constants DEF TypeOK
      <4>3. NoEdid(transit')
        BY <2>1, <4>1, <4>2, ReadingTakesTheEdid
      <4> QED
        BY <1>2, <3>3, <4>3 DEF ConfigureHead
    <3> QED
      BY <1>2, <3>1, <3>2, <3>3
  <2>3. stage' \in Early \cup {"ready"} \/ (stage' = "probe" /\ step' = 0)
    <3>1. NextDriven(0) => step' = 0 /\ stage' \in {"ready", "probe"}
      BY <1>0, NextDrivenIsAHead
    <3> QED
      BY <1>2, <3>1 DEF SharedAke, Setup, ConfigureHead, Finalize, Go, Early
  <2> QED
    BY <1>0, <2>1, <2>2, <2>3, MeasureByEarly
<1>3. CASE Probe /\ ~Fail
  <2>1. stage = "probe" /\ UNCHANGED <<head, active>> /\ stage' \in {"probe", "fetch"}
    BY <1>3 DEF Probe, Go, Asked
  <2>2. \/ DrainEdid(head, Reply("status", head))
        \/ DrainEdid(head, << >>) /\ step > 0
    BY <1>0, <1>3 DEF Probe, Probes, TypeOK
  <2>3. Reply("status", head) # << >>
    BY DEF Reply
  <2> QED
    BY <1>0, <2>1, <2>2, <2>3, MeasureByDrain
<1>4. CASE Fetch /\ ~Fail
  BY <1>0, <1>4, MeasureByFetch
<1>5. CASE Wait
  <2>1. stage = "wait" /\ UNCHANGED <<head, active>> /\ stage' \in {"wait", "engage"}
    BY <1>5 DEF Wait, Go, Asked
  <2>2. DrainEdid(head, << >>) \/ UNCHANGED <<known, dock>>
    BY <1>5, Zenon DEF Wait
  <2> QED
    BY <1>0, <2>1, <2>2, MeasureByDrain, MeasureByWaited DEF Awaiting
<1>6. CASE Engage /\ ~Fail
  <2>1. stage = "engage" /\ UNCHANGED <<head, active>> /\ stage' \in {"engage", "settle"}
    BY <1>6 DEF Engage, Go, Asked
  <2>2. DrainEdid(head, << >>)
    BY <1>6, Zenon DEF Engage
  <2> QED
    BY <1>0, <2>1, <2>2, MeasureByDrain DEF Awaiting
<1>7. CASE Settle /\ ~Fail
  <2>1. CASE step < SettleProbes /\ present[head] = None
    <3>1. /\ stage = "settle" /\ UNCHANGED <<head, active>> /\ stage' = "settle"
          /\ DrainEdid(head, Reply("status", head))
      BY <1>7, <2>1 DEF Settle, Go, Asked
    <3> QED
      BY <1>0, <3>1, MeasureByDrain DEF Awaiting
  <2>2. CASE ~(step < SettleProbes /\ present[head] = None)
    <3>1. /\ stage = "settle" /\ stage' = "mode" /\ UNCHANGED <<head, known, dock, active>>
          /\ edid[head] # None /\ present[head] # None
      BY <1>7, <2>2 DEF Settle, Go
    <3> QED
      BY <1>0, <3>1, MeasureByWaited
  <2> QED
    BY <2>1, <2>2
<1>8. CASE Mode /\ ~Fail
  <2>1. /\ stage = "mode" /\ stage' \in Training /\ UNCHANGED <<head, active>> /\ Drop
    BY <1>8 DEF Mode, Go, Training
  <2>2. NoEdid(transit') /\ UNCHANGED known
    BY <2>1, NothingAwaited DEF Awaiting
  <2> QED
    BY <1>0, <2>1, <2>2, MeasureByRest DEF Training
<1>9. CASE Overrun /\ ~Fail
  <2>1. /\ stage = "train" /\ stage' = "mode" /\ UNCHANGED <<head, known, dock, active>>
    BY <1>9 DEF Overrun, Go
  <2>2. NoEdid(transit')
    BY <2>1 DEF MeasureInv, Awaiting, dock
  <2> QED
    BY <1>0, <2>1, <2>2, MeasureByRest DEF Training
<1>10. CASE Train /\ ~Fail
  BY <1>0, <1>10, MeasureByTrain
<1>11. CASE Ready /\ ~Fail
  <2>1. /\ stage = "ready" /\ stage' = "streaming" /\ UNCHANGED <<known, dock, active>>
    BY <1>11 DEF Ready, Go
  <2>2. NoEdid(transit')
    BY <2>1 DEF MeasureInv, Awaiting, dock
  <2> QED
    BY <1>0, <2>1, <2>2, MeasureByRest
<1>12. CASE Poll /\ ~Fail
  <2>1. /\ stage = "streaming" /\ stage' = "streaming" /\ UNCHANGED active /\ Drop
    BY <1>12 DEF Poll, place
  <2>2. NoEdid(transit') /\ UNCHANGED known
    BY <2>1, NothingAwaited DEF Awaiting
  <2> QED
    BY <1>0, <2>1, <2>2, MeasureByRest
<1>13. ASSUME NEW h \in Heads, Push(h) PROVE MeasureInv'
  BY <1>0, <1>13, MeasureByPush
<1>14. CASE Replug \/ UNCHANGED vars
  <2>1. UNCHANGED <<stage, head, step, edid, present, active, transit>>
    BY <1>14 DEF Replug, vars, place, known, dock
  <2>2. ArmedIsMeasured'
    BY <2>1 DEF MeasureInv, ArmedIsMeasured
  <2> QED
    BY <1>0, <2>1, <2>2 DEF MeasureInv
<1> QED
  BY <1>1, <1>2, <1>3, <1>4, <1>5, <1>6, <1>7, <1>8, <1>9, <1>10, <1>11, <1>12, <1>13, <1>14,
     Zenon DEF Next, Driver

\* Whatever the dock answers, however late, and whatever is plugged and unplugged meanwhile: a
\* head is trained on a presence bit and an EDID of its own connector, never on another's.
THEOREM HeadsAreMeasured == Spec => []ArmedIsMeasured
<1>1. Init => MeasureInv
  <2>1. Init => TypeOK
    BY Constants DEF Init, TypeOK, Stages, Attempts
  <2>2. Init => NoEdid(transit)
    BY DEF Init, NoEdid
  <2> QED
    BY <2>1, <2>2
       DEF Init, MeasureInv, ArmedIsMeasured, Early, Asking, Awaiting, Training
<1>2. MeasureInv => ArmedIsMeasured
  BY DEF MeasureInv
<1> QED
  BY <1>1, <1>2, MeasureInductive, PTL DEF Spec

-----------------------------------------------------------------------------
(* The start goes forward, to heads that are trained.                      *)

\* Where a step that moves within or past a head goes.
LEMMA NextDrivenAdvances ==
  ASSUME TypeOK, NEW h \in Nat, NextDriven(h)
  PROVE  \/ /\ stage' = "probe" /\ head' >= h /\ head' \in driven /\ head' \in Nat /\ step' = 0
            /\ \A d \in driven : d < head' => d < h
         \/ stage' = "ready" /\ step' = 0 /\ \A d \in driven : d < h
<1> DEFINE rest == {d \in driven : d >= h}
           first == CHOOSE d \in rest : \A e \in rest : d <= e
<1>0. driven \subseteq Nat
  BY Constants DEF TypeOK
<1>1. /\ rest \subseteq Nat /\ \A d \in rest : d >= h /\ d \in driven
      /\ \A d \in driven : d \in rest \/ d < h
  <2>1. \A d \in driven : d >= h \/ d < h
    BY <1>0
  <2> QED  BY <1>0, <2>1, Zenon
<1>2. IF rest = {} THEN Go("ready", 0, 0) ELSE Go("probe", first, 0)
  BY Zenon DEF NextDriven
<1> HIDE DEF rest
<1>3. CASE rest = {}
  BY <1>1, <1>2, <1>3 DEF Go
<1>4. CASE rest # {}
  <2>1. \E d \in rest : \A e \in rest : d <= e
    BY <1>1, <1>4, Least
  <2>2. first \in rest /\ \A e \in rest : first <= e
    BY <2>1
  <2>3. Go("probe", first, 0)
    BY <1>2, <1>4
  <2> HIDE DEF first
  <2>4. first \in Nat /\ first >= h /\ first \in driven
    BY <1>1, <2>2
  <2>5. \A d \in driven : d < first => d < h
    <3> SUFFICES ASSUME NEW d \in driven, d < first, ~(d < h) PROVE FALSE
      OBVIOUS
    <3>1. d \in Nat /\ d \in rest /\ first <= d
      BY <1>0, <1>1, <2>2
    <3> QED  BY <2>4, <3>1
  <2>6. stage' = "probe" /\ head' = first /\ step' = 0
    BY <2>3 DEF Go
  <2> QED  BY <2>4, <2>5, <2>6, Zenon
<1> QED  BY <1>3, <1>4

\* No count is past its limit, and the messages that finalize are all counted at one head.
CountInv == WaitsAreBounded /\ (stage = "finalize" => head = 0)

LEMMA DriverAdvances ==
  ASSUME TypeOK, CountInv, Driver
  PROVE  /\ stage \notin {"streaming", "failed"} => Advances
         /\ CountInv'
<1>a. /\ head \in Nat /\ step \in Nat /\ attempt \in Nat /\ HeadCount \in Nat
      /\ FetchWaits \in Nat /\ SettleProbes \in Nat
  BY Constants, ControlAssumption DEF TypeOK, Attempts
<1>0. CASE Fail /\ stage \notin {"streaming", "failed"}
  <2>1. stage' = "failed" /\ stage \in Stages
    BY <1>0 DEF Fail, TypeOK
  <2> QED  BY <1>0, <2>1 DEF Advances, Leg, Stages, Fail, CountInv, WaitsAreBounded
<1>1. CASE SharedAke /\ ~Fail
  BY <1>1 DEF SharedAke, Go, Advances, Leg, CountInv, WaitsAreBounded, LastStep
<1>2. CASE Setup /\ ~Fail
  BY <1>2 DEF Setup, Go, Advances, Leg, CountInv, WaitsAreBounded, LastStep, Steps
<1>3. CASE ConfigureHead /\ ~Fail
  <2>1. /\ stage = "heads" /\ UNCHANGED attempt
        /\ \/ step < Steps - 1 /\ Go("heads", head, step + 1)
           \/ Go("heads", head + 1, 0)
           \/ Go("finalize", 0, 0)
    BY <1>3, Zenon DEF ConfigureHead
  <2> QED
    BY <1>a, <2>1 DEF Go, Advances, Leg, Phase, CountInv, WaitsAreBounded, LastStep, Steps, Finals
<1>4. CASE Finalize /\ ~Fail
  <2>1. /\ stage = "finalize" /\ UNCHANGED attempt
        /\ \/ step < Finals * HeadCount /\ Go("finalize", 0, step + 1)
           \/ NextDriven(0)
    BY <1>4 DEF Finalize
  <2>2. CASE step < Finals * HeadCount /\ Go("finalize", 0, step + 1)
    <3>1. step + 1 <= Finals * HeadCount
      BY <1>a, <2>2 DEF Finals
    <3>2. WaitsAreBounded'
      BY <2>2, <3>1, Zenon DEF Go, WaitsAreBounded, LastStep
    <3>3. UNCHANGED <<stage, head, attempt>> /\ step' > step
      BY <1>a, <2>1, <2>2 DEF Go, CountInv
    <3> QED  BY <2>1, <3>2, <3>3, Zenon DEF Advances, CountInv
  <2>3. CASE NextDriven(0)
    BY <2>1, <2>3, NextDrivenAdvances DEF Advances, Leg, CountInv, WaitsAreBounded, LastStep, Probes
  <2> QED  BY <2>1, <2>2, <2>3
<1>5. CASE Probe /\ ~Fail
  <2>1. /\ stage = "probe" /\ UNCHANGED attempt
        /\ \/ step < Probes /\ Go("probe", head, step + 1)
           \/ Go("fetch", head, 0)
    BY <1>5 DEF Probe, Asked
  <2> QED  BY <1>a, <2>1 DEF Go, Advances, Leg, Phase, CountInv, WaitsAreBounded, LastStep, Probes
<1>6. CASE Fetch /\ ~Fail
  <2>1. stage = "fetch" /\ UNCHANGED attempt /\ Go("wait", head, 0)
    BY <1>6 DEF Fetch, Asked
  <2> QED  BY <1>a, <2>1 DEF Go, Advances, Leg, Phase, CountInv, WaitsAreBounded, LastStep
<1>7. CASE Wait
  <2>1. /\ stage = "wait" /\ UNCHANGED attempt
        /\ \/ step < FetchWaits /\ Go("wait", head, step + 1)
           \/ Go("engage", head, 0)
    BY <1>7 DEF Wait, Asked
  <2> QED  BY <1>a, <2>1 DEF Go, Advances, Leg, Phase, CountInv, WaitsAreBounded, LastStep, Engages
<1>8. CASE Engage /\ ~Fail
  <2>1. /\ stage = "engage" /\ UNCHANGED attempt
        /\ \/ step < Engages /\ Go("engage", head, step + 1)
           \/ Go("settle", head, 0)
    BY <1>8 DEF Engage, Asked
  <2> QED  BY <1>a, <2>1 DEF Go, Advances, Leg, Phase, CountInv, WaitsAreBounded, LastStep, Engages
<1>9. CASE Settle /\ ~Fail
  <2>1. /\ stage = "settle"
        /\ \/ step < SettleProbes /\ Go("settle", head, step + 1) /\ UNCHANGED attempt
           \/ Go("mode", head, 0) /\ attempt' = 1
    BY <1>9 DEF Settle, Asked
  <2> QED  BY <1>a, <2>1 DEF Go, Advances, Leg, Phase, CountInv, WaitsAreBounded, LastStep, Polls
<1>10. CASE Mode /\ ~Fail
  <2>1. /\ stage = "mode" /\ UNCHANGED attempt
        /\ \/ step < Polls - 1 /\ Go("mode", head, step + 1)
           \/ Go("train", head, 0)
    BY <1>10 DEF Mode
  <2> QED  BY <1>a, <2>1 DEF Go, Advances, Leg, Phase, CountInv, WaitsAreBounded, LastStep, Polls
<1>11. CASE Overrun /\ ~Fail
  <2>1. stage = "train" /\ Go("mode", head, 0) /\ attempt' = attempt + 1
    BY <1>11 DEF Overrun
  <2> QED  BY <1>a, <2>1 DEF Go, Advances, Leg, Phase, CountInv, WaitsAreBounded, LastStep, Polls
<1>12. CASE Train /\ ~Fail
  <2>1. stage = "train" /\ NextDriven(head + 1) /\ head + 1 \in Nat
    BY <1>12, <1>a DEF Train
  <2>2. \/ stage' = "probe" /\ head' >= head + 1 /\ head' \in Nat /\ step' = 0
        \/ stage' = "ready" /\ step' = 0
    BY <2>1, NextDrivenAdvances
  <2> QED  BY <1>a, <2>1, <2>2 DEF Advances, Leg, CountInv, WaitsAreBounded, LastStep, Probes
<1>13. CASE Ready /\ ~Fail
  BY <1>13 DEF Ready, Go, Advances, Leg, CountInv, WaitsAreBounded, LastStep
<1>14. CASE Poll
  BY <1>14 DEF Poll, Fail, place, CountInv, WaitsAreBounded, LastStep
<1>15. Fail => CountInv'
  BY DEF Fail, CountInv, WaitsAreBounded
<1> QED  BY <1>0, <1>1, <1>2, <1>3, <1>4, <1>5, <1>6, <1>7, <1>8, <1>9, <1>10, <1>11, <1>12,
            <1>13, <1>14, <1>15, Zenon DEF Driver

LEMMA BoundsKept == TypeOK /\ CountInv /\ [Next]_vars => CountInv'
<1> SUFFICES ASSUME TypeOK, CountInv, [Next]_vars PROVE CountInv'
  OBVIOUS
<1>1. CASE Driver
  BY <1>1, DriverAdvances
<1>2. CASE \E h \in Heads : Push(h)
  BY <1>2 DEF Push, place, CountInv, WaitsAreBounded
<1>3. CASE Replug
  BY <1>3 DEF Replug, place, CountInv, WaitsAreBounded
<1>4. CASE UNCHANGED vars
  BY <1>4 DEF vars, place, CountInv, WaitsAreBounded
<1> QED  BY <1>1, <1>2, <1>3, <1>4 DEF Next

LEMMA CountInvariance == Spec => []CountInv
<1>1. Init => CountInv
  BY DEF Init, CountInv, WaitsAreBounded, LastStep
<1> QED  BY <1>1, TypeCorrect, BoundsKept, PTL DEF Spec

\* Whatever the dock answers and however late, for any number of heads, waits and probes: no
\* count of the driver's goes past its limit.
THEOREM WaitsEnd == Spec => []WaitsAreBounded
<1>1. CountInv => WaitsAreBounded
  BY DEF CountInv
<1> QED  BY <1>1, CountInvariance, PTL

\* And each step of it moves the start on.
THEOREM StartsGoForward == Spec => StartGoesForward
<1>1. TypeOK /\ CountInv /\ [Next]_vars
        => [Driver /\ stage \notin {"streaming", "failed"} => Advances]_vars
  BY DriverAdvances
<1> QED  BY <1>1, TypeCorrect, CountInvariance, PTL DEF Spec, StartGoesForward

\* What is left of a start: legs and heads of the leg, phases and counts of the phase.
LegsLeft(s)       == 7 - Leg(s)
HeadsLeft(h)      == HeadCount - 1 - h
PhasesLeft(s, m)  == 10 - Phase(s, m)
CountsLeft(s, n)  == IF s = "failed" THEN 0 ELSE LastStep(s) - n
LeftAt(s, h, n, m) == << <<LegsLeft(s), HeadsLeft(h)>>, <<PhasesLeft(s, m), CountsLeft(s, n)>> >>
Left == LeftAt(stage, head, step, attempt)

\* A smaller pair of numbers, and less that is left.
Below  == OpToRel(<, Nat)
Less   == LexPairOrdering(Below, Below, Nat, Nat)
Sooner == LexPairOrdering(Less, Less, Nat \X Nat, Nat \X Nat)

LEMMA LegsAreFew ==
  ASSUME NEW s \in Stages, NEW m \in 1..Attempts
  PROVE  /\ Leg(s) \in 0..7 /\ Phase(s, m) \in 0..10 /\ LastStep(s) \in Nat
         /\ LegsLeft(s) \in Nat /\ PhasesLeft(s, m) \in Nat
<1>1. Leg(s) \in 0..7
  BY DEF Leg
<1>2. Phase(s, m) \in 0..10
  BY DEF Phase, Attempts
<1>3. LastStep(s) \in Nat
  BY Constants, ControlAssumption DEF LastStep, Steps, Finals, Probes, Engages, Polls
<1> QED  BY <1>1, <1>2, <1>3 DEF LegsLeft, PhasesLeft

LEMMA AdvancesToSooner ==
  ASSUME NEW s \in Stages, NEW h \in Heads, NEW n \in Nat, NEW m \in 1..Attempts,
         NEW t \in Stages, NEW i \in Heads, NEW o \in Nat, NEW l \in 1..Attempts,
         s # "failed", n <= LastStep(s), t # "failed" => o <= LastStep(t),
         \/ Leg(t) > Leg(s)
         \/ Leg(t) = Leg(s) /\ i > h
         \/ Leg(t) = Leg(s) /\ i = h /\ Phase(t, l) > Phase(s, m)
         \/ Leg(t) = Leg(s) /\ i = h /\ Phase(t, l) = Phase(s, m) /\ o > n
  PROVE  <<LeftAt(t, i, o, l), LeftAt(s, h, n, m)>> \in Sooner
<1>1. /\ LegsLeft(s) \in Nat /\ LegsLeft(t) \in Nat
      /\ HeadsLeft(h) \in Nat /\ HeadsLeft(i) \in Nat
      /\ PhasesLeft(s, m) \in Nat /\ PhasesLeft(t, l) \in Nat
      /\ CountsLeft(s, n) \in Nat /\ CountsLeft(t, o) \in Nat
  BY LegsAreFew, Constants DEF Heads, HeadsLeft, CountsLeft
<1>2. \/ LegsLeft(t) < LegsLeft(s)
      \/ LegsLeft(t) = LegsLeft(s) /\ HeadsLeft(i) < HeadsLeft(h)
      \/ LegsLeft(t) = LegsLeft(s) /\ HeadsLeft(i) = HeadsLeft(h)
         /\ PhasesLeft(t, l) < PhasesLeft(s, m)
      \/ LegsLeft(t) = LegsLeft(s) /\ HeadsLeft(i) = HeadsLeft(h)
         /\ PhasesLeft(t, l) = PhasesLeft(s, m) /\ CountsLeft(t, o) < CountsLeft(s, n)
  <2>1. /\ Leg(s) \in Int /\ Leg(t) \in Int /\ Phase(s, m) \in Int /\ Phase(t, l) \in Int
        /\ h \in Int /\ i \in Int /\ HeadCount \in Int
        /\ LastStep(s) \in Int
    BY LegsAreFew, Constants
  <2>2. CASE Leg(t) > Leg(s)
    BY <2>1, <2>2 DEF LegsLeft
  <2>3. CASE Leg(t) = Leg(s) /\ i > h
    BY <2>1, <2>3 DEF LegsLeft, HeadsLeft
  <2>4. CASE Leg(t) = Leg(s) /\ i = h /\ Phase(t, l) > Phase(s, m)
    BY <2>1, <2>4 DEF LegsLeft, PhasesLeft
  <2>5. CASE Leg(t) = Leg(s) /\ i = h /\ Phase(t, l) = Phase(s, m) /\ o > n
    <3>1. t # "failed"
      BY <2>5 DEF Leg, Stages
    <3>2. LastStep(t) = LastStep(s)
      <4>1. CASE s \in {"mode", "train"}
        BY <2>5, <4>1 DEF Leg, Phase, LastStep, Stages, Attempts
      <4>2. CASE s \notin {"mode", "train"}
        <5>1. t = s
          BY <2>5, <4>2 DEF Leg, Phase, Stages, Attempts
        <5> QED  BY <5>1
      <4> QED  BY <4>1, <4>2
    <3> QED  BY <2>1, <2>5, <3>1, <3>2 DEF LegsLeft, PhasesLeft, CountsLeft
  <2> QED  BY <2>2, <2>3, <2>4, <2>5
<1>3. \A p, q \in Nat : p < q => <<p, q>> \in Below
  BY DEF Below, OpToRel
<1>4. \A p, q, r, u \in Nat : p < r \/ (p = r /\ q < u) => << <<p, q>>, <<r, u>> >> \in Less
  BY <1>3 DEF Less, LexPairOrdering
<1>5. ASSUME NEW a \in Nat \X Nat, NEW b \in Nat \X Nat, NEW c \in Nat \X Nat, NEW d \in Nat \X Nat,
             <<a, c>> \in Less \/ (a = c /\ <<b, d>> \in Less)
      PROVE  << <<a, b>>, <<c, d>> >> \in Sooner
  BY <1>5 DEF Sooner, LexPairOrdering
<1>6. \/ << <<LegsLeft(t), HeadsLeft(i)>>, <<LegsLeft(s), HeadsLeft(h)>> >> \in Less
      \/ /\ <<LegsLeft(t), HeadsLeft(i)>> = <<LegsLeft(s), HeadsLeft(h)>>
         /\ << <<PhasesLeft(t, l), CountsLeft(t, o)>>, <<PhasesLeft(s, m), CountsLeft(s, n)>> >>
              \in Less
  BY <1>1, <1>2, <1>4
<1> QED  BY <1>1, <1>5, <1>6 DEF LeftAt

\* Whatever the dock answers, each step of the driver leaves less of the start than there was,
\* in an order without infinite descent: no sequence of answers keeps a start going for ever.
\* What StartEnds needs beyond it is that the driver's thread runs.
THEOREM StartsRunOut ==
  /\ IsWellFoundedOn(Sooner, (Nat \X Nat) \X (Nat \X Nat))
  /\ Spec => [][Driver /\ stage \notin {"streaming", "failed"} => <<Left', Left>> \in Sooner]_vars
<1>1. IsWellFoundedOn(Sooner, (Nat \X Nat) \X (Nat \X Nat))
  <2>1. IsWellFoundedOn(Below, Nat)
    BY NatLessThanWellFounded DEF Below
  <2>2. IsWellFoundedOn(Less, Nat \X Nat)
    BY <2>1, WFLexPairOrdering DEF Less
  <2> QED  BY <2>2, WFLexPairOrdering DEF Sooner
<1>2. Spec => [][Driver /\ stage \notin {"streaming", "failed"} => <<Left', Left>> \in Sooner]_vars
  <2>1. /\ TypeOK /\ TypeOK' /\ CountInv /\ CountInv' /\ [Next]_vars
        => [Driver /\ stage \notin {"streaming", "failed"} => <<Left', Left>> \in Sooner]_vars
    <3> SUFFICES ASSUME TypeOK, TypeOK', CountInv, CountInv', Driver,
                        stage \notin {"streaming", "failed"}
                 PROVE  <<Left', Left>> \in Sooner
      OBVIOUS
    <3>1. Advances
      BY DriverAdvances
    <3>2. /\ stage \in Stages /\ head \in Heads /\ step \in Nat /\ attempt \in 1..Attempts
          /\ stage' \in Stages /\ head' \in Heads /\ step' \in Nat /\ attempt' \in 1..Attempts
      BY DEF TypeOK
    <3>3. step <= LastStep(stage) /\ (stage' # "failed" => step' <= LastStep(stage'))
      BY DEF CountInv, WaitsAreBounded, LastStep
    <3>4. <<LeftAt(stage', head', step', attempt'), LeftAt(stage, head, step, attempt)>> \in Sooner
      BY <3>1, <3>2, <3>3, AdvancesToSooner DEF Advances
    <3> QED  BY <3>4 DEF Left
  <2> QED  BY <2>1, TypeCorrect, CountInvariance, PTL DEF Spec
<1> QED  BY <1>1, <1>2

\* Of the heads that are driven, those before the present one are trained, and the present one
\* is driven; of the others none is trained.
TrainedInv ==
  /\ TypeOK
  /\ stage \in Asking \cup Training => head \in driven /\ \A d \in driven : d < head => active[d]
  /\ ReadyMeansTrained

\* A step that trains nobody and stays with its head, or leaves for where no head is.
LEMMA TrainedByOther ==
  ASSUME TrainedInv, TypeOK', UNCHANGED <<driven, active>>,
         \/ stage' \notin Asking \cup Training \cup {"ready", "streaming"}
         \/ stage \in Asking \cup Training /\ stage' \in Asking \cup Training /\ UNCHANGED head
         \/ stage \in {"ready", "streaming"} /\ stage' \in {"ready", "streaming"}
  PROVE  TrainedInv'
<1>1. {h \in Heads : active'[h]} \subseteq driven'
  BY DEF TrainedInv, ReadyMeansTrained
<1>2. CASE stage' \notin Asking \cup Training \cup {"ready", "streaming"}
  BY <1>1, <1>2 DEF TrainedInv, ReadyMeansTrained
<1>3. CASE stage \in Asking \cup Training /\ stage' \in Asking \cup Training /\ UNCHANGED head
  BY <1>1, <1>3 DEF TrainedInv, ReadyMeansTrained, Asking, Training, Awaiting
<1>4. CASE stage \in {"ready", "streaming"} /\ stage' \in {"ready", "streaming"}
  BY <1>1, <1>4 DEF TrainedInv, ReadyMeansTrained, Asking, Training, Awaiting
<1> QED  BY <1>2, <1>3, <1>4

\* The next driven head is one before which all are trained; without one, all of them are.
LEMMA TrainedByNext ==
  ASSUME TrainedInv, TypeOK', NEW h \in Nat, NextDriven(h), UNCHANGED driven,
         {d \in Heads : active'[d]} \subseteq driven, \A d \in driven : d < h => active'[d]
  PROVE  TrainedInv'
<1>1. CASE stage' = "probe" /\ head' \in driven /\ \A d \in driven : d < head' => d < h
  BY <1>1 DEF TrainedInv, ReadyMeansTrained
<1>2. CASE stage' = "ready" /\ \A d \in driven : d < h
  BY <1>2 DEF TrainedInv, ReadyMeansTrained, Asking, Training, Awaiting
<1> QED  BY <1>1, <1>2, NextDrivenAdvances DEF TrainedInv

LEMMA TrainedInductive == TrainedInv /\ [Next]_vars => TrainedInv'
<1> SUFFICES ASSUME TrainedInv, [Next]_vars PROVE TrainedInv'
  OBVIOUS
<1>a. TypeOK /\ TypeOK'
  BY TypeInductive DEF TrainedInv
<1>0. CASE Fail /\ UNCHANGED driven
  BY <1>0, <1>a, TrainedByOther DEF Fail, Asking, Training, Awaiting
<1>1. CASE (SharedAke \/ Setup) /\ ~Fail /\ UNCHANGED driven
  BY <1>1, <1>a, TrainedByOther DEF SharedAke, Setup, Go, Asking, Training, Awaiting
<1>2. CASE ConfigureHead /\ ~Fail /\ UNCHANGED driven
  <2>1. stage' \in {"heads", "finalize"} /\ UNCHANGED active
    BY <1>2 DEF ConfigureHead, Go
  <2> QED  BY <1>2, <1>a, <2>1, TrainedByOther DEF Asking, Training, Awaiting
<1>3. CASE Finalize /\ ~Fail /\ UNCHANGED driven
  <2>1. (stage' = "finalize" \/ NextDriven(0)) /\ UNCHANGED active
    BY <1>3 DEF Finalize, Go
  <2>2. CASE stage' = "finalize"
    BY <1>3, <1>a, <2>1, <2>2, TrainedByOther DEF Asking, Training, Awaiting
  <2>3. CASE NextDriven(0)
    <3>1. \A d \in driven : ~(d < 0)
      BY <1>a, Constants DEF TypeOK
    <3>2. {d \in Heads : active'[d]} \subseteq driven
      BY <2>1 DEF TrainedInv, ReadyMeansTrained
    <3> QED  BY <1>3, <1>a, <2>3, <3>1, <3>2, TrainedByNext
  <2> QED  BY <2>1, <2>2, <2>3
<1>4. CASE (Probe \/ Fetch \/ Wait \/ Engage \/ Settle) /\ ~Fail /\ UNCHANGED driven
  <2>1. /\ stage \in {"probe", "fetch", "wait", "engage", "settle"}
        /\ stage' \in {"probe", "fetch", "wait", "engage", "settle", "mode"}
        /\ UNCHANGED <<head, active>>
    BY <1>4 DEF Probe, Fetch, Wait, Engage, Settle, Asked, Go
  <2> QED  BY <1>4, <1>a, <2>1, TrainedByOther DEF Asking, Training, Awaiting
<1>5. CASE (Mode \/ Overrun) /\ ~Fail /\ UNCHANGED driven
  <2>1. /\ stage \in {"mode", "train"} /\ stage' \in {"mode", "train"}
        /\ UNCHANGED <<head, active>>
    BY <1>5 DEF Mode, Overrun, Go
  <2> QED  BY <1>5, <1>a, <2>1, TrainedByOther DEF Training
<1>6. CASE Train /\ ~Fail /\ UNCHANGED driven
  <2>1. /\ stage = "train" /\ active' = [active EXCEPT ![head] = TRUE] /\ NextDriven(head + 1)
    BY <1>6 DEF Train
  <2>2. /\ head \in driven /\ head \in Heads /\ head \in Nat /\ active \in [Heads -> BOOLEAN]
        /\ driven \subseteq Heads /\ driven \subseteq Nat
        /\ \A d \in driven : d < head => active[d]
    BY <1>a, <2>1, Constants DEF TrainedInv, TypeOK, Training
  <2>3. active'[head] /\ \A d \in Heads : d # head => active'[d] = active[d]
    BY <2>1, <2>2
  <2>4. {d \in Heads : active'[d]} \subseteq driven
    BY <2>2, <2>3 DEF TrainedInv, ReadyMeansTrained
  <2>5. \A d \in driven : d < head + 1 => d = head \/ d < head
    BY <2>2
  <2>6. \A d \in driven : d < head + 1 => active'[d]
    BY <2>2, <2>3, <2>5
  <2> QED  BY <1>6, <1>a, <2>1, <2>2, <2>4, <2>6, TrainedByNext
<1>7. CASE (Ready \/ Poll) /\ ~Fail /\ UNCHANGED driven
  BY <1>7, <1>a, TrainedByOther DEF Ready, Poll, Go, place
<1>8. CASE ((\E h \in Heads : Push(h)) \/ Replug) /\ UNCHANGED driven
  BY <1>8, <1>a DEF Push, Replug, place, TrainedInv, ReadyMeansTrained
<1>9. CASE UNCHANGED vars
  BY <1>9, <1>a DEF vars, place, TrainedInv, ReadyMeansTrained
<1> QED  BY <1>0, <1>1, <1>2, <1>3, <1>4, <1>5, <1>6, <1>7, <1>8, <1>9, Zenon DEF Next, Driver

\* Whatever configuration drives which heads: when capture starts these are trained, and never
\* any other.
THEOREM ReadyIsTrained == Spec => []ReadyMeansTrained
<1>1. Init => TrainedInv
  <2> SUFFICES ASSUME Init PROVE TrainedInv
    OBVIOUS
  <2>1. TypeOK
    BY Constants DEF Init, TypeOK, Stages, Attempts
  <2> QED  BY <2>1 DEF Init, TrainedInv, ReadyMeansTrained, Asking, Training, Awaiting
<1>2. TrainedInv => ReadyMeansTrained
  BY DEF TrainedInv
<1> QED  BY <1>1, <1>2, TrainedInductive, PTL DEF Spec

-----------------------------------------------------------------------------
(* The replies on their way (SessionInbox): the ring.                      *)

LEMMA RingSize == INBOX \in Nat /\ INBOX > 0 /\ MaxReplies \in Nat
BY InboxAssumption

\* An index goes once around at most.
LEMMA Around ==
  ASSUME NEW r \in Index, NEW i \in 0 .. INBOX
  PROVE  (r + i) % INBOX = IF r + i < INBOX THEN r + i ELSE r + i - INBOX
<1>1. \A n \in Nat : \A k \in 0 .. n - 1 : k % n = k
  OBVIOUS
<1>2. \A n \in Nat : \A k \in n .. 2 * n - 1 : k % n = k - n
  OBVIOUS
<1> QED  BY <1>1, <1>2, RingSize DEF Index

\* What is read from a ring is a sequence, as long as the count says.
LEMMA ReadInOrder ==
  ASSUME NEW S, NEW f \in [Index -> S], NEW r \in Index, NEW n \in 0 .. INBOX, NEW h,
         h = [i \in 1 .. n |-> h[i]], \A i \in 1 .. n : h[i] = f[(r + i - 1) % INBOX]
  PROVE  /\ h \in Seq(S) /\ Len(h) = n
         /\ \A i \in 1 .. n : h[i] = f[(r + i - 1) % INBOX]
<1>1. n \in Nat /\ r \in Nat
  BY RingSize DEF Index
<1>2. \A k \in Int : k % INBOX \in 0 .. INBOX - 1
  BY RingSize
<1>3. \A i \in 1 .. n : (r + i - 1) % INBOX \in Index
  BY <1>1, <1>2 DEF Index
<1>4. \A i \in 1 .. n : f[(r + i - 1) % INBOX] \in S
  BY <1>3
<1>5. h \in [1 .. n -> S]
  BY <1>4
<1>6. h \in Seq(S)
  BY <1>1, <1>5, SeqDef
<1>7. Len(h) = n
  BY <1>1, <1>5, <1>6, LenProperties
<1> QED  BY <1>6, <1>7

\* The replies held, before and after a step that keeps the types.
LEMMA HeldIsASequence ==
  /\ InboxTypeOK =>
       /\ Held \in Seq(Numbers \cup {NoReply}) /\ Len(Held) = inbox_n
       /\ \A i \in 1 .. inbox_n : Held[i] = inbox[(inbox_r + i - 1) % INBOX]
  /\ InboxTypeOK' =>
       /\ Held' \in Seq(Numbers \cup {NoReply}) /\ Len(Held') = inbox_n'
       /\ \A i \in 1 .. inbox_n' : Held'[i] = inbox'[(inbox_r' + i - 1) % INBOX]
<1>1. ASSUME InboxTypeOK
      PROVE  /\ Held \in Seq(Numbers \cup {NoReply}) /\ Len(Held) = inbox_n
             /\ \A i \in 1 .. inbox_n : Held[i] = inbox[(inbox_r + i - 1) % INBOX]
  <2> DEFINE M == Numbers \cup {NoReply}
  <2>1. /\ inbox \in [Index -> M]
        /\ inbox_r \in Index /\ inbox_n \in 0 .. INBOX
    BY <1>1 DEF InboxTypeOK
  <2>2. Held = [i \in 1 .. inbox_n |-> Held[i]]
    BY DEF Held
  <2>3. \A i \in 1 .. inbox_n : Held[i] = inbox[(inbox_r + i - 1) % INBOX]
    BY DEF Held
  <2> HIDE DEF M
  <2>4. Held \in Seq(M) /\ Len(Held) = inbox_n
    BY <2>1, <2>2, <2>3, ReadInOrder
  <2> QED  BY <2>3, <2>4 DEF M
<1>2. ASSUME InboxTypeOK'
      PROVE  /\ Held' \in Seq(Numbers \cup {NoReply}) /\ Len(Held') = inbox_n'
             /\ \A i \in 1 .. inbox_n' : Held'[i] = inbox'[(inbox_r' + i - 1) % INBOX]
  <2> DEFINE M == Numbers \cup {NoReply}
  <2>1. /\ inbox' \in [Index -> M]
        /\ inbox_r' \in Index /\ inbox_n' \in 0 .. INBOX
    BY <1>2 DEF InboxTypeOK
  <2>2. Held' = [i \in 1 .. inbox_n' |-> Held'[i]]
    BY DEF Held
  <2>3. \A i \in 1 .. inbox_n' : Held'[i] = inbox'[(inbox_r' + i - 1) % INBOX]
    BY DEF Held
  <2> HIDE DEF M
  <2>4. Held' \in Seq(M) /\ Len(Held') = inbox_n'
    BY <2>1, <2>2, <2>3, ReadInOrder
  <2> QED  BY <2>3, <2>4 DEF M
<1> QED  BY <1>1, <1>2

-----------------------------------------------------------------------------
(* The inductive invariant.                                                *)

\* The write index is as far ahead of the read index as there are replies; a reply
\* that is about to be put in the ring is a reply, and the session has not failed;
\* a session that has is left by its reader, which is started once, by the opener.
RingInv ==
    /\ inbox_w = (inbox_r + inbox_n) % INBOX
    /\ reader = "deliver" => bytes \in Numbers /\ ~failed
    /\ failed => reader \in {"leaving", "ended"}
    /\ owner = "opening" => reader = "unstarted"

InboxInv == InboxTypeOK /\ RingInv

LEMMA InboxStarts == InboxInit => InboxInv
<1> SUFFICES ASSUME InboxInit PROVE InboxInv
  OBVIOUS
<1>1. InboxTypeOK
  <2>1. {closing, failed, lossy, woken} \subseteq BOOLEAN
    BY DEF InboxInit
  <2>2. 0 \in Index /\ 0 \in 0 .. INBOX /\ 0 \in 0 .. MaxReplies
    BY RingSize DEF Index
  <2>3. inbox \in [Index -> Numbers \cup {NoReply}]
    BY DEF InboxInit
  <2> QED  BY <2>1, <2>2, <2>3 DEF InboxInit, InboxTypeOK
<1>2. (0 + 0) % INBOX = 0
  BY RingSize, Around DEF Index
<1> QED  BY <1>1, <1>2 DEF InboxInit, InboxInv, RingInv

\* What a reply put in the ring, and one taken from it, does to the indices.
LEMMA Forward ==
  ASSUME NEW r \in Index, NEW n \in 0 .. INBOX
  PROVE  /\ (r + 1) % INBOX \in Index
         /\ n = INBOX => (((r + n) % INBOX) + 1) % INBOX = (r + 1) % INBOX
         /\ n < INBOX => (((r + n) % INBOX) + 1) % INBOX = (r + (n + 1)) % INBOX
         /\ n > 0 => (r + n) % INBOX = (((r + 1) % INBOX) + (n - 1)) % INBOX
         /\ (((r + 1) % INBOX) + INBOX) % INBOX = (r + 1) % INBOX
<1>1. r \in Nat /\ n \in Nat /\ r < INBOX /\ n <= INBOX /\ 1 \in 0 .. INBOX /\ 0 \in 0 .. INBOX
  BY RingSize DEF Index
<1>2. (r + 1) % INBOX = IF r + 1 < INBOX THEN r + 1 ELSE r + 1 - INBOX
  BY <1>1, Around
<1>3. (r + n) % INBOX = IF r + n < INBOX THEN r + n ELSE r + n - INBOX
  BY Around
<1>4. (r + 1) % INBOX \in Index /\ (r + n) % INBOX \in Index
  BY <1>1, <1>2, <1>3, RingSize DEF Index
<1>5. (((r + n) % INBOX) + 1) % INBOX =
        IF ((r + n) % INBOX) + 1 < INBOX THEN ((r + n) % INBOX) + 1 ELSE ((r + n) % INBOX) + 1 - INBOX
  BY <1>1, <1>4, Around
<1>6. n < INBOX => (r + (n + 1)) % INBOX =
        IF r + (n + 1) < INBOX THEN r + (n + 1) ELSE r + (n + 1) - INBOX
  <2>1. n < INBOX => n + 1 \in 0 .. INBOX
    BY <1>1, RingSize
  <2> QED  BY <2>1, Around
<1>7. n > 0 => (((r + 1) % INBOX) + (n - 1)) % INBOX =
        IF ((r + 1) % INBOX) + (n - 1) < INBOX THEN ((r + 1) % INBOX) + (n - 1)
        ELSE ((r + 1) % INBOX) + (n - 1) - INBOX
  <2>1. n > 0 => n - 1 \in 0 .. INBOX
    BY <1>1, RingSize
  <2> QED  BY <2>1, <1>4, Around
<1>8. (((r + 1) % INBOX) + INBOX) % INBOX = (r + 1) % INBOX
  <2>1. INBOX \in 0 .. INBOX
    BY RingSize
  <2>2. (((r + 1) % INBOX) + INBOX) % INBOX =
          IF ((r + 1) % INBOX) + INBOX < INBOX THEN ((r + 1) % INBOX) + INBOX
          ELSE ((r + 1) % INBOX) + INBOX - INBOX
    BY <2>1, <1>4, Around
  <2> HIDE DEF Index
  <2>3. (r + 1) % INBOX \in Nat
    BY <1>4 DEF Index
  <2> QED  BY <2>2, <2>3, RingSize
<1>10. n < INBOX => (((r + n) % INBOX) + 1) % INBOX = (r + (n + 1)) % INBOX
  BY <1>1, <1>3, <1>5, <1>6, RingSize
<1>11. n = INBOX => (((r + n) % INBOX) + 1) % INBOX = (r + 1) % INBOX
  BY <1>1, <1>2, <1>3, <1>5, RingSize
<1>12. n > 0 => (r + n) % INBOX = (((r + 1) % INBOX) + (n - 1)) % INBOX
  BY <1>1, <1>2, <1>3, <1>7, RingSize
<1> QED  BY <1>4, <1>8, <1>10, <1>11, <1>12

LEMMA DeliverKeeps == ASSUME InboxInv, Deliver PROVE InboxInv'
<1>1. inbox_r \in Index /\ inbox_n \in 0 .. INBOX /\ inbox_n \in Nat /\ bytes \in Numbers /\ ~failed
  BY RingSize DEF InboxInv, InboxTypeOK, RingInv, Deliver
<1>2. /\ inbox_w = (inbox_r + inbox_n) % INBOX
      /\ inbox_w' = (inbox_w + 1) % INBOX
  BY DEF InboxInv, RingInv, Deliver
<1>3. inbox' \in [Index -> Numbers \cup {NoReply}]
  BY <1>1 DEF InboxInv, InboxTypeOK, Deliver
<1>4. inbox_w \in Index
  BY DEF InboxInv, InboxTypeOK
<1>5. inbox_w' \in Index
  BY <1>2, <1>4, Forward, RingSize
<1>6. inbox_r' \in Index /\ inbox_n' \in 0 .. INBOX /\ inbox_w' = (inbox_r' + inbox_n') % INBOX
  <2>1. CASE Full
    <3>1. inbox_r' = (inbox_r + 1) % INBOX /\ inbox_n' = inbox_n /\ inbox_n = INBOX
      BY <2>1 DEF Deliver, Oldest, Full
    <3>2. INBOX \in 0 .. INBOX
      BY RingSize
    <3>3. /\ (inbox_r + 1) % INBOX \in Index
          /\ (((inbox_r + INBOX) % INBOX) + 1) % INBOX = (inbox_r + 1) % INBOX
          /\ (((inbox_r + 1) % INBOX) + INBOX) % INBOX = (inbox_r + 1) % INBOX
      BY <1>1, <3>2, Forward, RingSize
    <3> QED  BY <1>2, <3>1, <3>2, <3>3
  <2>2. CASE ~Full
    <3>1. inbox_r' = inbox_r /\ inbox_n' = inbox_n + 1 /\ inbox_n # INBOX
      BY <2>2 DEF Deliver, Full
    <3>2. inbox_n < INBOX
      BY <1>1, <3>1, RingSize
    <3>3. (((inbox_r + inbox_n) % INBOX) + 1) % INBOX = (inbox_r + (inbox_n + 1)) % INBOX
      BY <1>1, <3>2, Forward
    <3> QED  BY <1>1, <1>2, <3>1, <3>2, <3>3, RingSize
  <2> QED  BY <2>1, <2>2
<1>7. /\ reader' \in {"leaving", "top"} /\ bytes' = NoReply
      /\ UNCHANGED <<closing, failed, lossy, caller, owner, arrived, taken>>
  BY DEF Deliver, flags
<1>8. woken' \in BOOLEAN
  BY DEF Deliver, Wake
<1>9. reader = "deliver"
  BY DEF Deliver
<1>10. InboxTypeOK'
  BY <1>3, <1>5, <1>6, <1>7, <1>8 DEF InboxInv, InboxTypeOK
<1> QED  BY <1>1, <1>6, <1>7, <1>9, <1>10 DEF InboxInv, RingInv

LEMMA PopKeeps ==
  ASSUME InboxInv, Pop
  PROVE  /\ inbox_r' \in Index /\ inbox_n' \in 0 .. INBOX /\ UNCHANGED inbox_w
         /\ inbox_w' = (inbox_r' + inbox_n') % INBOX /\ taken' \in Numbers \cup {NoReply}
<1>1. inbox_r \in Index /\ inbox_n \in 0 .. INBOX /\ inbox_n > 0 /\ inbox_w = (inbox_r + inbox_n) % INBOX
  BY DEF InboxInv, InboxTypeOK, RingInv, Pop
<1>2. inbox_r' = (inbox_r + 1) % INBOX /\ inbox_n' = inbox_n - 1 /\ UNCHANGED inbox_w
  BY DEF Pop, Oldest
<1>3. inbox_n' \in 0 .. INBOX
  BY <1>1, <1>2, RingSize
<1>4. taken' \in Numbers \cup {NoReply}
  BY <1>1 DEF InboxInv, InboxTypeOK, Pop
<1>5. /\ (inbox_r + 1) % INBOX \in Index
      /\ (inbox_r + inbox_n) % INBOX = (((inbox_r + 1) % INBOX) + (inbox_n - 1)) % INBOX
  BY <1>1, Forward
<1> QED  BY <1>1, <1>2, <1>3, <1>4, <1>5

LEMMA ReaderKeeps == ASSUME InboxInv, ReaderStep PROVE InboxInv'
<1> USE DEF InboxInv, InboxTypeOK, RingInv, ring, flags, history
<1>1. CASE ReaderLoops
  BY <1>1 DEF ReaderLoops
<1>2. CASE ReadsNothing
  BY <1>2 DEF ReadsNothing
<1>3. CASE ReadFails
  BY <1>3 DEF ReadFails
<1>4. CASE ReadsReply
  <2>1. arrived \in Numbers /\ arrived + 1 \in 0 .. MaxReplies
    BY <1>4, RingSize DEF ReadsReply, Numbers
  <2> QED  BY <1>4, <2>1 DEF ReadsReply
<1>5. CASE Deliver
  BY <1>5, DeliverKeeps
<1>6. CASE FindsFull
  BY <1>6 DEF FindsFull
<1>7. CASE Overflow
  BY <1>7 DEF Overflow, Wake
<1>8. CASE ReaderLeaves
  BY <1>8 DEF ReaderLeaves, Wake
<1> QED  BY <1>1, <1>2, <1>3, <1>4, <1>5, <1>6, <1>7, <1>8 DEF ReaderStep

LEMMA CallerKeeps ==
  ASSUME InboxInv, Recv \/ RecvWaits \/ RecvWakes \/ RecvReturns
  PROVE  InboxInv'
<1>1. CASE Recv \/ RecvWaits \/ RecvWakes
  <2>1. UNCHANGED <<ring, flags, reader, bytes, owner, history>> /\ woken' \in BOOLEAN
    BY <1>1 DEF InboxInv, InboxTypeOK, Recv, RecvWaits, RecvWakes
  <2>2. caller' \in {"checking", "waiting"}
    BY <1>1 DEF Recv, RecvWaits, RecvWakes
  <2> QED  BY <2>1, <2>2 DEF InboxInv, InboxTypeOK, RingInv, ring, flags, history
<1>2. CASE RecvReturns
  <2>1. /\ UNCHANGED <<inbox, inbox_w>>
        /\ inbox_r' \in Index /\ inbox_n' \in 0 .. INBOX
        /\ inbox_w' = (inbox_r' + inbox_n') % INBOX /\ taken' \in Numbers \cup {NoReply}
    <3>1. CASE Pop
      BY <3>1, PopKeeps DEF Pop
    <3>2. CASE UNCHANGED <<ring, taken>>
      BY <3>2 DEF InboxInv, InboxTypeOK, RingInv, ring
    <3> QED  BY <1>2, <3>1, <3>2 DEF RecvReturns
  <2>2. caller' = "out" /\ woken' = FALSE /\ UNCHANGED <<flags, reader, bytes, owner, arrived>>
    BY <1>2 DEF RecvReturns
  <2> QED  BY <2>1, <2>2 DEF InboxInv, InboxTypeOK, RingInv, flags
<1> QED  BY <1>1, <1>2

LEMMA OwnerKeeps ==
  ASSUME InboxInv, StartReader \/ OpenFails \/ SetLossy \/ Close \/ Join \/ Free
  PROVE  InboxInv'
<1>1. UNCHANGED <<ring, failed, bytes, caller, woken, history>>
  BY DEF flags, StartReader, OpenFails, SetLossy, Close, Join, Free
<1>2. closing' \in BOOLEAN /\ lossy' \in BOOLEAN
  BY DEF InboxInv, InboxTypeOK, flags, StartReader, OpenFails, SetLossy, Close, Join, Free
<1>3. owner' \in {"open", "closing", "joined", "freed"} 
  BY DEF StartReader, OpenFails, SetLossy, Close, Join, Free
<1>4. UNCHANGED reader \/ (reader = "unstarted" /\ reader' = "top")
  BY DEF InboxInv, RingInv, StartReader, OpenFails, SetLossy, Close, Join, Free
<1> QED  BY <1>1, <1>2, <1>3, <1>4 DEF InboxInv, InboxTypeOK, RingInv, ring, history

LEMMA InboxInvariance == InboxSpec => []InboxInv
<1>1. InboxInv /\ UNCHANGED inboxVars => InboxInv'
  BY DEF InboxInv, InboxTypeOK, RingInv, inboxVars, ring, flags, history
<1>2. InboxInv /\ [InboxNext]_inboxVars => InboxInv'
  BY <1>1, ReaderKeeps, CallerKeeps, OwnerKeeps DEF InboxNext
<1> QED  BY <1>2, InboxStarts, PTL DEF InboxSpec

\* The types of the ring and of its replies hold at all times, its write index included.
THEOREM InboxTypes == InboxSpec => []InboxTypeOK
<1>1. InboxInv => InboxTypeOK
  BY DEF InboxInv
<1> QED  BY <1>1, InboxInvariance, PTL

-----------------------------------------------------------------------------
(* The ring is a channel.                                                  *)

\* The index of a reply that is held is not the one the next is written at.
LEMMA ElsewhereWritten ==
  ASSUME NEW r \in Index, NEW n \in 0 .. INBOX, NEW i \in 1 .. INBOX, NEW k \in Nat,
         k = (r + n) % INBOX, i <= n, n = INBOX => i > 1
  PROVE  (r + i - 1) % INBOX \in Index /\ (r + i - 1) % INBOX # k
<1>1. r \in Nat /\ n \in Nat /\ i \in Nat /\ r < INBOX /\ i - 1 \in 0 .. INBOX
  BY RingSize DEF Index
<1>2. (r + (i - 1)) % INBOX = IF r + (i - 1) < INBOX THEN r + (i - 1) ELSE r + (i - 1) - INBOX
  BY <1>1, Around
<1>3. (r + n) % INBOX = IF r + n < INBOX THEN r + n ELSE r + n - INBOX
  BY Around
<1>4. r + (i - 1) = r + i - 1
  BY <1>1
<1> QED  BY <1>1, <1>2, <1>3, <1>4, RingSize DEF Index

\* Without its oldest, what is held is read from one index further.
LEMMA OneFurther ==
  ASSUME NEW r \in Index, NEW i \in 1 .. INBOX
  PROVE  (((r + 1) % INBOX) + i - 1) % INBOX = (r + (i + 1) - 1) % INBOX
<1>1. r \in Nat /\ i \in Nat /\ r < INBOX /\ i - 1 \in 0 .. INBOX /\ 1 \in 0 .. INBOX /\ i \in 0 .. INBOX
  BY RingSize DEF Index
<1>2. (r + 1) % INBOX = IF r + 1 < INBOX THEN r + 1 ELSE r + 1 - INBOX
  BY <1>1, Around
<1>3. (r + 1) % INBOX \in Index
  BY <1>1, <1>2, RingSize DEF Index
<1>4. (((r + 1) % INBOX) + (i - 1)) % INBOX =
        IF ((r + 1) % INBOX) + (i - 1) < INBOX THEN ((r + 1) % INBOX) + (i - 1)
        ELSE ((r + 1) % INBOX) + (i - 1) - INBOX
  BY <1>1, <1>3, Around
<1>5. (r + i) % INBOX = IF r + i < INBOX THEN r + i ELSE r + i - INBOX
  BY <1>1, Around
<1>6. ((r + 1) % INBOX) + (i - 1) = ((r + 1) % INBOX) + i - 1 /\ r + (i + 1) - 1 = r + i
  BY <1>1, <1>3 DEF Index
<1>7. (((r + 1) % INBOX) + (i - 1)) % INBOX = (r + i) % INBOX
  BY <1>1, <1>2, <1>4, <1>5, RingSize
<1> QED  BY <1>6, <1>7

\* While there is room, a reply put in the ring is appended to what is held.
LEMMA HeldGrows ==
  ASSUME InboxInv, InboxInv', Deliver, ~Full
  PROVE  Held' = Append(Held, bytes)
<1> DEFINE M == Numbers \cup {NoReply}
<1>1. /\ inbox_r \in Index /\ inbox_n \in 0 .. INBOX /\ bytes \in M /\ inbox_w \in Index
      /\ inbox_w = (inbox_r + inbox_n) % INBOX /\ inbox \in [Index -> M]
  BY DEF InboxInv, InboxTypeOK, RingInv, Deliver
<1>2. /\ inbox_r' = inbox_r /\ inbox_n' = inbox_n + 1
      /\ inbox' = [inbox EXCEPT ![inbox_w] = bytes]
  BY DEF Deliver
<1>3. inbox_n \in Nat /\ inbox_n + 1 \in 1 .. INBOX /\ inbox_w \in Nat /\ inbox_r \in Nat
  BY <1>1, RingSize DEF Full, Index
<1>4. Held \in Seq(M) /\ Len(Held) = inbox_n
  BY HeldIsASequence DEF InboxInv
<1>5. \A i \in 1 .. inbox_n : Held[i] = inbox[(inbox_r + i - 1) % INBOX]
  BY HeldIsASequence DEF InboxInv
<1>6. InboxTypeOK'
  BY DEF InboxInv
<1>7. Held' \in Seq(M) /\ Len(Held') = inbox_n + 1
  BY <1>2, <1>6, HeldIsASequence
<1>8. \A i \in 1 .. inbox_n + 1 : Held'[i] = inbox'[(inbox_r + i - 1) % INBOX]
  BY <1>2, <1>3 DEF Held
<1>9. /\ Append(Held, bytes) \in Seq(M) /\ Len(Append(Held, bytes)) = inbox_n + 1
      /\ \A i \in 1 .. inbox_n + 1 :
           Append(Held, bytes)[i] = IF i = inbox_n + 1 THEN bytes ELSE Held[i]
  BY <1>1, <1>4, AppendProperties
<1>10. ASSUME NEW i \in 1 .. inbox_n + 1 PROVE Held'[i] = Append(Held, bytes)[i]
  <2> HIDE DEF M
  <2>1. CASE i = inbox_n + 1
    <3>1. (inbox_r + i - 1) % INBOX = inbox_w
      <4>1. inbox_r + i - 1 = inbox_r + inbox_n
        BY <1>3, <2>1
      <4> QED  BY <4>1, <1>1
    <3>2. inbox'[inbox_w] = bytes
      BY <1>1, <1>2
    <3> QED  BY <1>8, <1>9, <2>1, <3>1, <3>2
  <2>2. CASE i # inbox_n + 1
    <3>1. i \in 1 .. inbox_n /\ i \in 1 .. INBOX /\ i <= inbox_n /\ inbox_n # INBOX
      BY <1>3, <2>2, RingSize
    <3>2. (inbox_r + i - 1) % INBOX \in Index /\ (inbox_r + i - 1) % INBOX # inbox_w
      BY <1>1, <1>3, <3>1, ElsewhereWritten
    <3>3. inbox'[(inbox_r + i - 1) % INBOX] = inbox[(inbox_r + i - 1) % INBOX]
      BY <1>1, <1>2, <3>2
    <3> QED  BY <1>5, <1>8, <1>9, <2>2, <3>1, <3>3
  <2> QED  BY <2>1, <2>2
<1> HIDE DEF M
<1> QED  BY <1>3, <1>7, <1>9, <1>10, SeqEqual

\* A full ring of a lossy session loses its oldest reply for the new one.
LEMMA HeldTurns ==
  ASSUME InboxInv, InboxInv', Deliver, Full
  PROVE  Held # << >> /\ Held' = Append(Tail(Held), bytes)
<1> DEFINE M == Numbers \cup {NoReply}
<1>1. /\ inbox_r \in Index /\ inbox_n = INBOX /\ bytes \in M /\ inbox_w \in Index
      /\ inbox_w = (inbox_r + inbox_n) % INBOX /\ inbox \in [Index -> M]
  BY DEF InboxInv, InboxTypeOK, RingInv, Deliver, Full
<1>2. /\ inbox_r' = (inbox_r + 1) % INBOX /\ inbox_n' = INBOX
      /\ inbox' = [inbox EXCEPT ![inbox_w] = bytes]
  BY <1>1 DEF Deliver, Oldest
<1>3. INBOX \in 0 .. INBOX /\ inbox_w \in Nat /\ inbox_r \in Nat
  BY <1>1, RingSize DEF Index
<1>4. Held \in Seq(M) /\ Len(Held) = INBOX
  BY <1>1, HeldIsASequence DEF InboxInv
<1>5. \A i \in 1 .. INBOX : Held[i] = inbox[(inbox_r + i - 1) % INBOX]
  BY <1>1, HeldIsASequence DEF InboxInv
<1>6. InboxTypeOK'
  BY DEF InboxInv
<1>7. Held' \in Seq(M) /\ Len(Held') = INBOX
  BY <1>2, <1>6, HeldIsASequence
<1>8. \A i \in 1 .. INBOX : Held'[i] = inbox'[(inbox_r + (i + 1) - 1) % INBOX]
  <2>1. \A i \in 1 .. INBOX : Held'[i] = inbox'[(inbox_r' + i - 1) % INBOX]
    BY <1>2, <1>3 DEF Held
  <2> QED  BY <1>1, <1>2, <2>1, OneFurther
<1>9. Held # << >>
  BY <1>4, RingSize, EmptySeq
<1>10. /\ Tail(Held) \in Seq(M) /\ Len(Tail(Held)) = INBOX - 1
       /\ \A i \in 1 .. INBOX - 1 : Tail(Held)[i] = Held[i + 1]
  BY <1>4, <1>9, HeadTailProperties
<1>11. /\ Append(Tail(Held), bytes) \in Seq(M) /\ Len(Append(Tail(Held), bytes)) = INBOX
       /\ \A i \in 1 .. INBOX :
            Append(Tail(Held), bytes)[i] = IF i = INBOX THEN bytes ELSE Tail(Held)[i]
  <2>1. INBOX - 1 + 1 = INBOX
    BY RingSize
  <2> QED  BY <1>1, <1>10, <2>1, AppendProperties
<1>12. ASSUME NEW i \in 1 .. INBOX PROVE Held'[i] = Append(Tail(Held), bytes)[i]
  <2> HIDE DEF M
  <2>1. CASE i = INBOX
    <3>1. (inbox_r + (i + 1) - 1) % INBOX = inbox_w
      <4>1. inbox_r + (i + 1) - 1 = inbox_r + inbox_n
        BY <1>1, <1>3, <2>1, RingSize
      <4> QED  BY <4>1, <1>1
    <3>2. inbox'[inbox_w] = bytes
      BY <1>1, <1>2
    <3> QED  BY <1>8, <1>11, <2>1, <3>1, <3>2
  <2>2. CASE i # INBOX
    <3>1. /\ i \in 1 .. INBOX - 1 /\ i + 1 \in 1 .. INBOX /\ i + 1 <= INBOX /\ i + 1 > 1
      BY <2>2, RingSize
    <3>2. /\ (inbox_r + (i + 1) - 1) % INBOX \in Index
          /\ (inbox_r + (i + 1) - 1) % INBOX # inbox_w
      BY <1>1, <1>3, <3>1, ElsewhereWritten
    <3>3. inbox'[(inbox_r + (i + 1) - 1) % INBOX] = inbox[(inbox_r + (i + 1) - 1) % INBOX]
      BY <1>1, <1>2, <3>2
    <3>4. Held[i + 1] = inbox[(inbox_r + (i + 1) - 1) % INBOX]
      BY <1>5, <3>1
    <3> QED  BY <1>8, <1>10, <1>11, <2>2, <3>1, <3>3, <3>4
  <2> QED  BY <2>1, <2>2
<1> HIDE DEF M
<1> QED  BY <1>7, <1>9, <1>11, <1>12, SeqEqual

\* The reply a recv takes is the oldest of those held.
LEMMA HeldIsTaken ==
  ASSUME InboxInv, InboxInv', Pop
  PROVE  Held # << >> /\ taken' = Head(Held) /\ Held' = Tail(Held)
<1> DEFINE M == Numbers \cup {NoReply}
<1>1. inbox_r \in Index /\ inbox_n \in 1 .. INBOX /\ inbox_n \in Nat /\ inbox_r \in Nat
  BY RingSize DEF InboxInv, InboxTypeOK, Pop, Index
<1>2. /\ inbox_r' = (inbox_r + 1) % INBOX /\ inbox_n' = inbox_n - 1 /\ inbox' = inbox
      /\ taken' = inbox[inbox_r]
  BY DEF Pop, Oldest
<1>4. Held \in Seq(M) /\ Len(Held) = inbox_n
  BY HeldIsASequence DEF InboxInv
<1>5. \A i \in 1 .. inbox_n : Held[i] = inbox[(inbox_r + i - 1) % INBOX]
  BY HeldIsASequence DEF InboxInv
<1>6. InboxTypeOK'
  BY DEF InboxInv
<1>7. Held' \in Seq(M) /\ Len(Held') = inbox_n - 1
  BY <1>2, <1>6, HeldIsASequence
<1>8. \A i \in 1 .. inbox_n - 1 : Held'[i] = inbox[(inbox_r + (i + 1) - 1) % INBOX]
  <2>1. \A i \in 1 .. inbox_n - 1 : Held'[i] = inbox[(inbox_r' + i - 1) % INBOX]
    BY <1>1, <1>2 DEF Held
  <2>2. \A i \in 1 .. inbox_n - 1 : i \in 1 .. INBOX
    BY <1>1, RingSize
  <2> QED  BY <1>1, <1>2, <2>1, <2>2, OneFurther
<1>9. Held # << >>
  BY <1>1, <1>4, EmptySeq
<1>10. /\ Tail(Held) \in Seq(M) /\ Len(Tail(Held)) = inbox_n - 1
       /\ \A i \in 1 .. inbox_n - 1 : Tail(Held)[i] = Held[i + 1]
  BY <1>4, <1>9, HeadTailProperties
<1>11. taken' = Head(Held)
  <2>1. inbox_r + 1 - 1 = inbox_r /\ 1 \in 1 .. inbox_n
    BY <1>1
  <2>2. inbox_r % INBOX = inbox_r
    <3>1. (inbox_r + 0) % INBOX = IF inbox_r + 0 < INBOX THEN inbox_r + 0 ELSE inbox_r + 0 - INBOX
      BY <1>1, RingSize, Around
    <3>2. inbox_r + 0 = inbox_r /\ inbox_r < INBOX
      BY <1>1, RingSize DEF Index
    <3> QED  BY <3>1, <3>2
  <2>3. Held[1] = inbox[inbox_r]
    BY <1>5, <2>1, <2>2
  <2> QED  BY <1>2, <1>4, <2>3
<1>12. ASSUME NEW i \in 1 .. inbox_n - 1 PROVE Held'[i] = Tail(Held)[i]
  <2>1. i + 1 \in 1 .. inbox_n
    BY <1>1
  <2> QED  BY <1>5, <1>8, <1>10, <2>1
<1> HIDE DEF M
<1> QED  BY <1>7, <1>9, <1>10, <1>11, <1>12, SeqEqual

\* A step that leaves the ring alone holds what was held.
LEMMA HeldStays == ASSUME UNCHANGED ring PROVE UNCHANGED Held
BY DEF ring, Held

LEMMA ReaderIsAnArrival ==
  ASSUME InboxInv, InboxInv', ReaderStep
  PROVE  Channel!Next \/ UNCHANGED <<taken, Held, ~lossy, Broken>>
<1> USE DEF flags, history, Broken
<1>1. CASE ReaderLoops
  BY <1>1, HeldStays DEF ReaderLoops, Channel!Next, Channel!Break
<1>2. CASE ReadsNothing
  BY <1>2, HeldStays DEF ReadsNothing, Channel!Next, Channel!Break
<1>3. CASE ReadFails
  BY <1>3, HeldStays DEF ReadFails, Channel!Next, Channel!Break
<1>4. CASE ReadsReply
  BY <1>4, HeldStays DEF ReadsReply
<1>5. CASE Deliver
  <2>1. bytes \in Numbers /\ ~Broken /\ ~Broken' /\ UNCHANGED <<taken, lossy>>
    BY <1>5 DEF InboxInv, RingInv, Deliver
  <2>2. Len(Held) = inbox_n /\ inbox_n \in 0 .. INBOX
    BY HeldIsASequence DEF InboxInv, InboxTypeOK
  <2>3. CASE ~Full
    <3>1. Len(Held) < INBOX
      BY <2>2, <2>3, RingSize DEF Full
    <3>2. Held' = Append(Held, bytes)
      BY <1>5, <2>3, HeldGrows
    <3>3. Channel!Arrive(bytes)
      BY <2>1, <3>1, <3>2 DEF Channel!Arrive
    <3> QED  BY <2>1, <3>3 DEF Channel!Next
  <2>4. CASE Full
    <3>1. ~(Len(Held) < INBOX) /\ lossy
      BY <1>5, <2>2, <2>4, RingSize DEF Full, Deliver
    <3>2. Held' = Append(Tail(Held), bytes)
      BY <1>5, <2>4, HeldTurns
    <3>3. Channel!Arrive(bytes)
      BY <2>1, <3>1, <3>2 DEF Channel!Arrive
    <3> QED  BY <2>1, <3>3 DEF Channel!Next
  <2> QED  BY <2>3, <2>4
<1>6. CASE FindsFull
  BY <1>6, HeldStays DEF FindsFull, Channel!Next, Channel!Break
<1>7. CASE Overflow
  BY <1>7, HeldStays DEF Overflow
<1>8. CASE ReaderLeaves
  BY <1>8, HeldStays DEF ReaderLeaves
<1> QED  BY <1>1, <1>2, <1>3, <1>4, <1>5, <1>6, <1>7, <1>8 DEF ReaderStep

LEMMA CallerTakes ==
  ASSUME InboxInv, InboxInv', Recv \/ RecvWaits \/ RecvWakes \/ RecvReturns
  PROVE  Channel!Next \/ UNCHANGED <<taken, Held, ~lossy, Broken>>
<1>1. UNCHANGED <<lossy, Broken>>
  BY DEF Recv, RecvWaits, RecvWakes, RecvReturns, flags, Broken
<1>2. CASE UNCHANGED <<ring, taken>>
  BY <1>1, <1>2, HeldStays
<1>3. CASE Pop
  BY <1>1, <1>3, HeldIsTaken DEF Channel!Next, Channel!Take
<1>4. Pop \/ UNCHANGED <<ring, taken>>
  BY DEF Recv, RecvWaits, RecvWakes, RecvReturns, history
<1> QED  BY <1>2, <1>3, <1>4

LEMMA OwnerRelaxes ==
  ASSUME InboxInv, StartReader \/ OpenFails \/ SetLossy \/ Close \/ Join \/ Free
  PROVE  Channel!Next \/ UNCHANGED <<taken, Held, ~lossy, Broken>>
<1>1. UNCHANGED <<taken, Held, Broken>>
  <2>1. UNCHANGED <<ring, taken, failed>>
    BY DEF StartReader, OpenFails, SetLossy, Close, Join, Free, flags, history
  <2>2. UNCHANGED reader \/ (reader = "unstarted" /\ reader' = "top")
    BY DEF InboxInv, RingInv, StartReader, OpenFails, SetLossy, Close, Join, Free
  <2> QED  BY <2>1, <2>2, HeldStays DEF Broken
<1>2. UNCHANGED lossy \/ lossy' = TRUE
  BY DEF StartReader, OpenFails, SetLossy, Close, Join, Free, flags
<1> QED  BY <1>1, <1>2 DEF Channel!Next, Channel!Relax

\* For any ring and any number of replies: to whoever owns the driver the session is the
\* channel it promises, a FIFO that a strict session fails rather than shorten and a lossy
\* one shortens at its oldest end, however the reader, the receiver, oizys_session_set_lossy
\* and oizys_session_close interleave.
THEOREM SessionIsAChannel == InboxSpec => ImplementsChannel
<1>1. InboxInit => Channel!Init
  <2>1. InboxInit => Held = << >>
    BY DEF InboxInit, Held
  <2> QED  BY <2>1 DEF InboxInit, Channel!Init, Broken
<1>2. InboxInv /\ InboxInv' /\ [InboxNext]_inboxVars => [Channel!Next]_(Channel!vars)
  <2>1. UNCHANGED inboxVars => UNCHANGED <<taken, Held, ~lossy, Broken>>
    BY HeldStays DEF inboxVars, flags, history, Broken
  <2> QED  BY <2>1, ReaderIsAnArrival, CallerTakes, OwnerRelaxes DEF InboxNext, Channel!vars
<1> QED  BY <1>1, <1>2, InboxInvariance, PTL DEF InboxSpec, ImplementsChannel, Channel!Spec

-----------------------------------------------------------------------------
(* Waking and closing.                                                     *)

\* A recv belongs to a session that is open, and only the owner closes it.
AloneInv ==
    /\ owner # "open" => caller = "out"
    /\ closing => owner \notin {"opening", "open"}

LEMMA ReaderWakes == ASSUME InboxInv, WaiterIsLetGo, ReaderStep PROVE WaiterIsLetGo'
<1> USE DEF WaiterIsLetGo
<1>1. CASE ReaderLoops \/ ReadsNothing \/ ReadsReply \/ FindsFull
    BY <1>1 DEF ReaderLoops, ReadsNothing, ReadsReply, FindsFull, ring, flags, history
<1>2. CASE ReadFails
    BY <1>2 DEF ReadFails
<1>3. CASE Deliver \/ Overflow \/ ReaderLeaves
    BY <1>3 DEF Deliver, Overflow, ReaderLeaves, Wake, InboxInv, InboxTypeOK
<1> QED BY <1>1, <1>2, <1>3 DEF ReaderStep

LEMMA OthersWake ==
    ASSUME InboxInv, AloneInv, WaiterIsLetGo,
           \/ Recv \/ RecvWaits \/ RecvWakes \/ RecvReturns
           \/ StartReader \/ OpenFails \/ SetLossy \/ Close \/ Join \/ Free
    PROVE  WaiterIsLetGo' /\ AloneInv'
<1>1. CASE Recv \/ RecvWakes \/ RecvReturns
    BY <1>1 DEF Recv, RecvWakes, RecvReturns, WaiterIsLetGo, AloneInv, flags
<1>2. CASE RecvWaits
    BY <1>2 DEF RecvWaits, MustWait, WaiterIsLetGo, AloneInv, InboxInv, InboxTypeOK, ring, flags
<1>3. CASE StartReader \/ OpenFails \/ SetLossy \/ Close \/ Join \/ Free
    BY <1>3 DEF StartReader, OpenFails, SetLossy, Close, Join, Free, WaiterIsLetGo, AloneInv,
                ring, flags, InboxInv, RingInv
<1> QED BY <1>1, <1>2, <1>3

LEMMA WakingKeeps ==
    InboxInv /\ AloneInv /\ WaiterIsLetGo /\ [InboxNext]_inboxVars => AloneInv' /\ WaiterIsLetGo'
<1> SUFFICES ASSUME InboxInv, AloneInv, WaiterIsLetGo, [InboxNext]_inboxVars
             PROVE  AloneInv' /\ WaiterIsLetGo'
    OBVIOUS
<1>1. CASE ReaderStep
    <2>1. UNCHANGED <<owner, closing, caller>>
        BY <1>1 DEF ReaderStep, ReaderLoops, ReadsNothing, ReadFails, ReadsReply, Deliver,
                    FindsFull, Overflow, ReaderLeaves, flags
    <2> QED BY <1>1, <2>1, ReaderWakes DEF AloneInv
<1>2. CASE UNCHANGED inboxVars
    BY <1>2 DEF inboxVars, ring, flags, AloneInv, WaiterIsLetGo
<1> QED BY <1>1, <1>2, OthersWake DEF InboxNext

LEMMA WakingInvariance == InboxSpec => [](AloneInv /\ WaiterIsLetGo)
<1>1. InboxInit => AloneInv /\ WaiterIsLetGo
    BY DEF InboxInit, AloneInv, WaiterIsLetGo
<1> QED BY <1>1, WakingKeeps, InboxInvariance, PTL DEF InboxSpec

\* However a delivery, an overflow, a failed read and the switch to lossy fall around its test
\* of the ring: a recv that sleeps has nothing to be told of, or has been told, or the reader
\* is on its way to tell it.  NoLostWakeup needs no more than that the threads run.
THEOREM WaitersAreLetGo == InboxSpec => []WaiterIsLetGo
BY WakingInvariance, PTL

\* What close frees has no user left, wherever the reader was in the ring when it was told and
\* whoever was in recv: it was joined first, and a recv has an open session.
THEOREM ClosesAlone == InboxSpec => []ClosedAlone
<1>1. InboxInit => ClosedAlone
    BY DEF InboxInit, ClosedAlone
<1>2. ASSUME InboxInv, AloneInv, ClosedAlone, [InboxNext]_inboxVars
      PROVE  ClosedAlone'
    <2>1. CASE ReaderStep
        <3>1. UNCHANGED <<owner, caller>> /\ reader \notin {"unstarted", "ended"}
            BY <2>1 DEF ReaderStep, ReaderLoops, ReadsNothing, ReadFails, ReadsReply, Deliver,
                        FindsFull, Overflow, ReaderLeaves
        <3> QED BY <1>2, <3>1 DEF ClosedAlone
    <2>2. CASE Recv \/ RecvWaits \/ RecvWakes \/ RecvReturns
        BY <1>2, <2>2 DEF Recv, RecvWaits, RecvWakes, RecvReturns, ClosedAlone, AloneInv
    <2>3. CASE StartReader \/ OpenFails \/ SetLossy \/ Close \/ Join \/ Free
        BY <1>2, <2>3 DEF StartReader, OpenFails, SetLossy, Close, Join, Free, ClosedAlone, AloneInv
    <2>4. CASE UNCHANGED inboxVars
        BY <1>2, <2>4 DEF inboxVars, ClosedAlone
    <2> QED BY <1>2, <2>1, <2>2, <2>3, <2>4 DEF InboxNext
<1> QED BY <1>1, <1>2, InboxInvariance, WakingInvariance, PTL DEF InboxSpec

\* A session that closes does so alone, and its reader comes nearer to its end with every
\* step: there are three at most until it can be joined and the ring freed.
THEOREM ReadersRunDown == InboxSpec => ClosingRunsDown
<1>1. ASSUME InboxInv, AloneInv, [InboxNext]_inboxVars, closing
      PROVE  /\ closing' /\ Distance(reader') <= Distance(reader)
             /\ ReaderStep => Distance(reader') < Distance(reader)
             /\ caller = "out"
    <2>0. owner \notin {"opening", "open"} /\ caller = "out"
        BY <1>1 DEF AloneInv
    <2>1. CASE ReaderStep
        <3>1. closing' = closing
            BY <2>1 DEF ReaderStep, ReaderLoops, ReadsNothing, ReadFails, ReadsReply, Deliver,
                        FindsFull, Overflow, ReaderLeaves, flags
        <3>2. \/ reader \in {"top", "reading", "overflow"} /\ reader' = "leaving"
              \/ reader = "deliver" /\ reader' \in {"top", "leaving", "overflow"}
              \/ reader = "leaving" /\ reader' = "ended"
            BY <1>1, <2>1 DEF ReaderStep, ReaderLoops, ReadsNothing, ReadFails, ReadsReply, Deliver,
                              FindsFull, Overflow, ReaderLeaves
        <3>3. Distance(reader') < Distance(reader) /\ Distance(reader') <= Distance(reader)
            BY <3>2 DEF Distance
        <3> QED BY <1>1, <2>0, <3>1, <3>3
    <2>2. CASE UNCHANGED <<reader, closing>>
        BY <1>1, <2>0, <2>1, <2>2 DEF Distance
    <2>3. CASE Recv \/ RecvWaits \/ RecvWakes \/ RecvReturns
        BY <1>1, <2>0, <2>2, <2>3 DEF Recv, RecvWaits, RecvWakes, RecvReturns, flags
    <2>4. CASE StartReader \/ OpenFails \/ SetLossy \/ Close \/ Join \/ Free
        BY <1>1, <2>0, <2>2, <2>4 DEF StartReader, OpenFails, SetLossy, Close, Join, Free, flags
    <2>5. CASE UNCHANGED inboxVars
        BY <1>1, <2>2, <2>5 DEF inboxVars, flags
    <2> QED BY <1>1, <2>1, <2>3, <2>4, <2>5 DEF InboxNext
<1>2. InboxInv /\ AloneInv /\ [InboxNext]_inboxVars
        => [closing => /\ closing' /\ Distance(reader') <= Distance(reader)
                       /\ ReaderStep => Distance(reader') < Distance(reader)
                       /\ caller = "out"]_inboxVars
    BY <1>1
<1> QED BY <1>2, InboxInvariance, WakingInvariance, PTL DEF InboxSpec, ClosingRunsDown
===============================================================================
