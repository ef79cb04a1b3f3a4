---------------------------- MODULE ScanoutProofs ----------------------------
(***************************************************************************)
(* Theorems about Scanout, for every grid, every ring of two or three      *)
(* buffers, every sweep period and every set of contents and settings.     *)
(***************************************************************************)
EXTENDS Scanout, TLAPS

\* A sequence counter whose wrap keeps the ring in step: 2^32 with the two
\* buffers the dock has by default.
RingDividesWrap == SeqModulus % DockBuffers = 0

-----------------------------------------------------------------------------
(* Helper facts about the ledger and the ring.                             *)

LEMMA TileHoldsItself == \A s \in Strips : s \in MacroTile(s)
  BY DEF MacroTile, Strips

LEMMA PhaseStays ==
  \A p \in 0 .. SweepPeriod - 1 : NextPhase(p) \in 0 .. SweepPeriod - 1
  BY LedgerAssumption DEF NextPhase

\* Modulo by a variable, in the only range it is used.
LEMMA WrapOnce ==
  ASSUME NEW q \in 0 .. SeqModulus - 1, NEW k \in Nat, k <= SeqModulus
  PROVE  Advance(q, k) = IF q + k < SeqModulus THEN q + k ELSE q + k - SeqModulus
  BY ScanoutAssumption DEF Advance

LEMMA SeqStays ==
  ASSUME NEW q \in 0 .. SeqModulus - 1, NEW k \in Nat
  PROVE  Advance(q, k) \in 0 .. SeqModulus - 1
  BY ScanoutAssumption DEF Advance

LEMMA SlotInRing ==
  ASSUME NEW q \in Nat
  PROVE  Slot(q) \in Buffers
  BY ScanoutAssumption DEF Slot, Buffers

LEMMA RingFitsCounter ==
  ASSUME RingDividesWrap
  PROVE  SeqModulus >= DockBuffers
  <1>1. CASE DockBuffers = 2
    BY <1>1, ScanoutAssumption DEF RingDividesWrap
  <1>2. CASE DockBuffers = 3
    BY <1>2, ScanoutAssumption DEF RingDividesWrap
  <1> QED BY <1>1, <1>2, ScanoutAssumption

\* Consecutive presentations step the ring by one, across the counter's wrap.
LEMMA SlotSteps ==
  ASSUME RingDividesWrap, NEW q \in 0 .. SeqModulus - 1, NEW k \in 0 .. DockBuffers - 1
  PROVE  Slot(Advance(q, k)) = (Slot(q) + k) % DockBuffers
  <1>1. k \in Nat /\ k <= SeqModulus
    BY RingFitsCounter, ScanoutAssumption
  <1>2. Advance(q, k) = IF q + k < SeqModulus THEN q + k ELSE q + k - SeqModulus
    BY <1>1, WrapOnce
  <1>3. CASE DockBuffers = 2
    BY <1>2, <1>3, ScanoutAssumption DEF RingDividesWrap, Slot
  <1>4. CASE DockBuffers = 3
    BY <1>2, <1>4, ScanoutAssumption DEF RingDividesWrap, Slot
  <1> QED BY <1>3, <1>4, ScanoutAssumption

\* A full turn of copies lands on every buffer.
LEMMA FullTurn ==
  ASSUME RingDividesWrap, frame_seq \in 0 .. SeqModulus - 1
  PROVE  Buffers \subseteq Landed(Repeats)
  <1> SUFFICES ASSUME NEW b \in Buffers
               PROVE  \E k \in 0 .. Repeats - 1 : Slot(Advance(frame_seq, k)) = b
    BY DEF Landed
  <1> DEFINE p == Slot(frame_seq)
             k == IF b >= p THEN b - p ELSE b + DockBuffers - p
  <1>1. p \in Buffers
    BY SlotInRing
  <1>2. k \in 0 .. DockBuffers - 1 /\ (p + k) % DockBuffers = b
    <2>1. CASE DockBuffers = 2
      BY <1>1, <2>1 DEF Buffers
    <2>2. CASE DockBuffers = 3
      BY <1>1, <2>2 DEF Buffers
    <2> QED BY <2>1, <2>2, ScanoutAssumption
  <1>3. Slot(Advance(frame_seq, k)) = b
    BY <1>2, SlotSteps
  <1> QED BY <1>2, <1>3, ScanoutAssumption, LedgerAssumption

-----------------------------------------------------------------------------
(* The inductive invariant.                                                *)

NoImage == [s \in Strips |-> None]
Image == [Strips -> Content]

\* What has been captured and what the ledger and the cache hold of it.
LedgerInv ==
  /\ surface \in Image \cup {NoImage}
  /\ ~failed =>
       /\ hashes \in Image \cup {NoImage}
       /\ pending = hashes
       /\ ~keyframe_owed \/ blanked => hashes \in Image
       /\ hashes = NoImage => body = NoImage
       /\ hashes \in Image =>
            \A s \in Strips : /\ body[s] \in Body
                              /\ body[s].hash = hashes[s]
                              /\ body[s].px = hashes[s]

\* Presentations since buffer b was last written: 1 for the newest.
Lag(b) ==
  LET next == Slot(frame_seq)
  IN  IF b < next THEN next - b ELSE next + DockBuffers - b

\* Every presentation a strip has paid for put it, as cached, in the buffer
\* that presentation landed in.
RingInv ==
  ~failed /\ ~blanked /\ ~keyframe_owed =>
    \A s \in Strips, b \in Buffers :
      Lag(b) <= Repeats - debt[s] => bufs[b][s] = body[s]

\* The glass shows the cache, or is black in standby or on its way back.
GlassInv ==
  /\ Streaming => WakingDark \/ \A s \in Strips : bufs[shown][s] = body[s]
  /\ ~failed /\ blanked => \A s \in Strips : bufs[shown][s] = Black

\* Frames since the sweep last read the row of strip s.
SweepDist(s) ==
  LET row == s[1] % SweepPeriod
  IN  IF row < sweep THEN sweep - 1 - row ELSE sweep + SweepPeriod - 1 - row

AgeInv == ~failed => \A s \in Strips : age[s] <= SweepDist(s)

IInv == TypeOK /\ LedgerInv /\ RingInv /\ GlassInv /\ AgeInv

\* The ledger has an image exactly when it is not the empty one.
LEMMA ImageNotEmpty == NoImage \notin Image
  <1>1. <<0, 0>> \in Strips
    BY LedgerAssumption DEF Strips
  <1> QED BY <1>1, ScanoutAssumption DEF NoImage, Image

LEMMA RowInSweep == \A s \in Strips : s[1] \in Int /\ s[1] % SweepPeriod \in 0 .. SweepPeriod - 1
  BY LedgerAssumption DEF Strips

\* The sweep distance is always short of the period ...
LEMMA DistBounded ==
  ASSUME sweep \in 0 .. SweepPeriod - 1, NEW s \in Strips
  PROVE  SweepDist(s) \in 0 .. SweepPeriod - 1
  BY RowInSweep, LedgerAssumption DEF SweepDist

\* ... and grows by one a frame until the sweep reads the row again.
LEMMA DistSteps ==
  ASSUME sweep \in 0 .. SweepPeriod - 1, sweep' = NextPhase(sweep),
         NEW s \in Strips
  PROVE  /\ SweepDist(s)' \in 0 .. SweepPeriod - 1
         /\ s \notin SweptBy(sweep) => SweepDist(s)' = SweepDist(s) + 1
  BY RowInSweep, LedgerAssumption DEF SweepDist, NextPhase, SweptBy

\* A single presentation ages every buffer but the one it writes.
LEMMA LagSteps ==
  ASSUME RingDividesWrap, frame_seq \in 0 .. SeqModulus - 1,
         frame_seq' = Advance(frame_seq, 1), NEW b \in Buffers
  PROVE  /\ Lag(b) \in 1 .. DockBuffers
         /\ b = Slot(frame_seq) => Lag(b) = DockBuffers /\ Lag(b)' = 1
         /\ b # Slot(frame_seq) => Lag(b)' = Lag(b) + 1
  <1>1. Slot(frame_seq) \in Buffers
    BY SlotInRing
  <1>2. Slot(frame_seq)' = (Slot(frame_seq) + 1) % DockBuffers
    <2>1. 1 \in 0 .. DockBuffers - 1
      BY ScanoutAssumption
    <2>2. Slot(Advance(frame_seq, 1)) = (Slot(frame_seq) + 1) % DockBuffers
      BY <2>1, SlotSteps
    <2> QED BY <2>2 DEF Slot
  <1>3. CASE DockBuffers = 2
    BY <1>1, <1>2, <1>3 DEF Lag, Buffers
  <1>4. CASE DockBuffers = 3
    BY <1>1, <1>2, <1>4 DEF Lag, Buffers
  <1> QED BY <1>3, <1>4, ScanoutAssumption

-----------------------------------------------------------------------------
(* The initial state.                                                      *)

\* A new driver, over a dock that holds anything.
LEMMA InitIInv == Init => IInv
  <1> SUFFICES ASSUME Init PROVE IInv
    OBVIOUS
  <1> USE LedgerAssumption, ScanoutAssumption
  <1>1. TypeOK
    <2>1. bufs \in [Buffers -> [Strips -> Cell]] /\ shown \in Buffers
      BY DEF Init, Buffers, Cell
    <2>2. frame_seq \in 0 .. SeqModulus - 1 /\ sweep \in 0 .. SweepPeriod - 1
      BY DEF Init
    <2>3. debt \in [Strips -> 0 .. Repeats] /\ age \in [Strips -> Nat]
      BY DEF Init
    <2> QED BY <2>1, <2>2, <2>3 DEF Init, TypeOK
  <1>2. LedgerInv
    BY ImageNotEmpty DEF Init, LedgerInv, NoImage
  <1>3. RingInv /\ GlassInv
    BY DEF Init, RingInv, GlassInv, Streaming, Presented
  <1>4. AgeInv
    BY <1>1, DistBounded DEF Init, AgeInv, TypeOK
  <1> QED BY <1>1, <1>2, <1>3, <1>4 DEF IInv

-----------------------------------------------------------------------------
(* Presentations.                                                          *)

\* Painting keeps the dock's buffers what they are.
LEMMA PaintedTypes ==
  ASSUME bufs \in [Buffers -> [Strips -> Cell]],
         NEW slots, NEW strips, NEW image, image \in [Strips -> Cell]
  PROVE  Painted(slots, strips, image) \in [Buffers -> [Strips -> Cell]]
  BY DEF Painted

LEMMA SubmitTypes ==
  ASSUME TypeOK, NEW strips, NEW image \in [Strips -> Cell], NEW n \in Nat \ {0},
         Submit(strips, image, n)
  PROVE  /\ bufs' \in [Buffers -> [Strips -> Cell]]
         /\ frame_seq' \in 0 .. SeqModulus - 1
         /\ shown' \in Buffers
  <1>1. frame_seq \in 0 .. SeqModulus - 1 /\ bufs \in [Buffers -> [Strips -> Cell]]
    BY DEF TypeOK
  <1>2. Advance(frame_seq, n - 1) \in 0 .. SeqModulus - 1
    <2>1. n - 1 \in Nat
      OBVIOUS
    <2> QED BY <1>1, <2>1, SeqStays
  <1>3. shown' \in Buffers
    <2>1. shown' = Slot(Advance(frame_seq, n - 1))
      BY DEF Submit
    <2> QED BY <1>2, <2>1, SlotInRing
  <1>4. frame_seq' \in 0 .. SeqModulus - 1
    BY <1>1, SeqStays DEF Submit
  <1>5. bufs' \in [Buffers -> [Strips -> Cell]]
    BY <1>1, PaintedTypes DEF Submit
  <1> QED BY <1>3, <1>4, <1>5

LEMMA SubmitFailsTypes ==
  ASSUME TypeOK, NEW strips, NEW image \in [Strips -> Cell], NEW n \in Nat \ {0},
         SubmitFails(strips, image, n)
  PROVE  /\ bufs' \in [Buffers -> [Strips -> Cell]]
         /\ frame_seq' \in 0 .. SeqModulus - 1
         /\ shown' \in Buffers
  <1>1. /\ frame_seq \in 0 .. SeqModulus - 1
        /\ bufs \in [Buffers -> [Strips -> Cell]]
        /\ shown \in Buffers
    BY DEF TypeOK
  <1>2. PICK done \in 0 .. n - 1 :
          /\ bufs' = Painted(Landed(done), strips, image)
          /\ shown' = IF done = 0 THEN shown ELSE Slot(Advance(frame_seq, done - 1))
          /\ frame_seq' = Advance(frame_seq, done + 1)
    BY DEF SubmitFails
  <1>3. done + 1 \in Nat /\ (done # 0 => done - 1 \in Nat)
    OBVIOUS
  <1>4. frame_seq' \in 0 .. SeqModulus - 1
    BY <1>1, <1>2, <1>3, SeqStays
  <1>5. shown' \in Buffers
    <2>1. CASE done = 0
      BY <1>1, <1>2, <2>1
    <2>2. CASE done # 0
      <3>1. Advance(frame_seq, done - 1) \in 0 .. SeqModulus - 1
        BY <1>1, <1>3, <2>2, SeqStays
      <3> QED BY <1>2, <2>2, <3>1, SlotInRing
    <2> QED BY <2>1, <2>2
  <1>6. bufs' \in [Buffers -> [Strips -> Cell]]
    BY <1>1, <1>2, PaintedTypes
  <1> QED BY <1>4, <1>5, <1>6

\* A keyframe's Repeats copies of every strip: the ring holds nothing else.
LEMMA KeyframeFillsRing ==
  ASSUME RingDividesWrap, TypeOK, NEW image, Submit(Strips, image, Repeats),
         image \in [Strips -> Cell]
  PROVE  \A b \in Buffers, s \in Strips : bufs'[b][s] = image[s]
  <1>1. Buffers \subseteq Landed(Repeats)
    BY FullTurn DEF TypeOK
  <1>2. bufs' = Painted(Landed(Repeats), Strips, image)
    BY DEF Submit
  <1> QED BY <1>1, <1>2 DEF Painted

\* A delta's one copy paints its strips into the next buffer and lights it.
LEMMA DeltaPaintsOne ==
  ASSUME TypeOK, NEW strips \in SUBSET Strips, NEW image, Submit(strips, image, 1)
  PROVE  /\ frame_seq' = Advance(frame_seq, 1)
         /\ shown' = Slot(frame_seq)
         /\ \A b \in Buffers, s \in Strips :
              bufs'[b][s] = IF b = Slot(frame_seq) /\ s \in strips
                            THEN image[s] ELSE bufs[b][s]
  <1>1. Advance(frame_seq, 0) = frame_seq
    BY ScanoutAssumption, SMTT(20) DEF TypeOK, Advance
  <1>2. Landed(1) = {Slot(frame_seq)}
    BY <1>1 DEF Landed
  <1>3. bufs' = Painted({Slot(frame_seq)}, strips, image)
    BY <1>2 DEF Submit
  <1>4. \A b \in Buffers, s \in Strips :
          bufs'[b][s] = IF b = Slot(frame_seq) /\ s \in strips
                        THEN image[s] ELSE bufs[b][s]
    BY <1>3 DEF Painted
  <1> QED BY <1>1, <1>4 DEF Submit

-----------------------------------------------------------------------------
(* One frame.                                                              *)

\* The plan of one frame, as Present computes it.
FrameHash(px, usable, marked, reload) ==
  Fingerprint(px, hashes, Marked(usable, marked, Keyframe(reload)))
FrameDebt(hash) == Charge(hash, hashes, debt)
FrameBodies(px, hash, owed, reload) ==
  [s \in Strips |->
     IF s \in owed
     THEN Encoded(s, px[s], hash[s], NeedsRecode(reload),
                  Tag(toneStore, IF reload THEN calStore ELSE cal))
     ELSE body[s]]

\* What the plan reads: every strip its pixels or its old fingerprint, and
\* its pixels wherever it was marked.
LEMMA PlanReads ==
  ASSUME TypeOK, LedgerInv, ~failed,
         NEW px \in Image, NEW marked \in SUBSET Strips,
         NEW usable \in BOOLEAN, NEW reload \in BOOLEAN
  PROVE  LET hash == FrameHash(px, usable, marked, reload)
         IN  /\ hash \in Image
             /\ \A s \in Strips : \/ hash[s] = px[s]
                                  \/ hash[s] = hashes[s] /\ s \notin SweptBy(sweep)
             /\ Keyframe(reload) => hash = px
             /\ ~Keyframe(reload) => hashes \in Image
  <1> DEFINE hash == FrameHash(px, usable, marked, reload)
             M == Marked(usable, marked, Keyframe(reload))
  <1>1. ~Keyframe(reload) => hashes \in Image
    BY DEF Keyframe, LedgerInv
  <1>2. Keyframe(reload) => M = Strips
    BY DEF Marked, FullPass
  <1>3. Strips \cap SweptBy(sweep) \subseteq M
    BY DEF Marked, SweptBy
  <1>4. hash = [s \in Strips |-> IF s \in M THEN px[s] ELSE hashes[s]]
    BY DEF Fingerprint, FrameHash
  <1> HIDE DEF hash
  <1>5. \A s \in Strips : hash[s] = IF s \in M THEN px[s] ELSE hashes[s]
    BY <1>4
  <1>6. Keyframe(reload) => hash = px
    BY <1>2, <1>4 DEF Image
  <1>7. hash \in Image
    <2>1. CASE Keyframe(reload)
      BY <1>6, <2>1
    <2>2. CASE ~Keyframe(reload)
      BY <1>1, <1>4, <2>2 DEF Image
    <2> QED BY <2>1, <2>2
  <1> QED BY <1>1, <1>3, <1>5, <1>6, <1>7 DEF hash

\* What charging does to the debt of each strip.
LEMMA ChargeFacts ==
  ASSUME debt \in [Strips -> 0 .. Repeats], NEW hash
  PROVE  LET charged == FrameDebt(hash)
         IN  /\ charged \in [Strips -> 0 .. Repeats]
             /\ \A s \in Strips : /\ hash[s] # hashes[s] => charged[s] = Repeats
                                  /\ charged[s] \in {Repeats, debt[s]}
  <1> DEFINE charged == FrameDebt(hash)
  <1>1. charged = [s \in Strips |->
          IF \E t \in MacroTile(s) : hash[t] # hashes[t] THEN Repeats ELSE debt[s]]
    BY DEF Charge, FrameDebt
  <1> HIDE DEF charged
  <1>2. charged \in [Strips -> 0 .. Repeats]
    BY <1>1, LedgerAssumption
  <1>3. ASSUME NEW s \in Strips
        PROVE  /\ hash[s] # hashes[s] => charged[s] = Repeats
               /\ charged[s] \in {Repeats, debt[s]}
    <2>1. s \in MacroTile(s)
      BY TileHoldsItself
    <2> QED BY <1>1, <2>1
  <1> QED BY <1>2, <1>3 DEF charged

\* Every strip a frame sends has been encoded from the pixels it is
\* fingerprinted by; a strip that did not move keeps its cached body.
LEMMA EncodeFacts ==
  ASSUME TypeOK, LedgerInv, ~failed,
         NEW px \in Image, NEW reload \in BOOLEAN,
         NEW hash \in Image, NEW owed \in SUBSET Strips,
         \A s \in Strips : hash[s] = px[s] \/ hash[s] = hashes[s],
         Keyframe(reload) => hash = px /\ owed = Strips,
         ~Keyframe(reload) => hashes \in Image,
         \A s \in Strips : s \notin owed => hash[s] = hashes[s]
  PROVE  LET fresh == FrameBodies(px, hash, owed, reload)
         IN  /\ fresh \in [Strips -> Body]
             /\ \A s \in Strips : fresh[s].hash = hash[s] /\ fresh[s].px = hash[s]
             /\ ~Keyframe(reload) =>
                  \A s \in Strips : hash[s] = hashes[s] => fresh[s] = body[s]
  <1> DEFINE fresh == FrameBodies(px, hash, owed, reload)
             tag == Tag(toneStore, IF reload THEN calStore ELSE cal)
             stale == NeedsRecode(reload)
             new(s) == [hash |-> hash[s], px |-> px[s], tag |-> tag]
  <1>1. tag \in Tags
    BY DEF TypeOK, Tag, Tags
  <1>2. \A s \in Strips : hash[s] \in Content /\ px[s] \in Content
    BY DEF Image
  <1>3. \A s \in Strips : /\ new(s) \in Body
                          /\ new(s).hash = hash[s]
                          /\ new(s).px = px[s]
    BY <1>1, <1>2 DEF Body
  <1>4. \A s \in Strips : body[s] # None =>
          body[s] \in Body /\ body[s].px = body[s].hash
    <2>1. CASE hashes \in Image
      BY <2>1 DEF LedgerInv
    <2>2. CASE hashes = NoImage
      BY <2>2 DEF LedgerInv, NoImage
    <2> QED BY <2>1, <2>2 DEF LedgerInv
  <1>5. ASSUME NEW s \in Strips
        PROVE  /\ fresh[s] \in Body
               /\ fresh[s].hash = hash[s]
               /\ fresh[s].px = hash[s]
               /\ ~Keyframe(reload) /\ hash[s] = hashes[s] => fresh[s] = body[s]
    <2> DEFINE reuse == ~stale /\ body[s] # None /\ body[s].hash = hash[s]
    <2>1. fresh[s] = IF s \in owed THEN (IF reuse THEN body[s] ELSE new(s)) ELSE body[s]
      BY DEF Encoded, FrameBodies
    <2> HIDE DEF fresh
    <2>2. CASE Keyframe(reload)
      <3>1. s \in owed /\ hash[s] = px[s]
        BY <2>2
      <3>2. CASE reuse
        BY <1>4, <2>1, <2>2, <3>1, <3>2
      <3>3. CASE ~reuse
        BY <1>3, <2>1, <2>2, <3>1, <3>3
      <3> QED BY <3>2, <3>3
    <2>3. CASE ~Keyframe(reload)
      <3>1. /\ body[s] \in Body
            /\ body[s].hash = hashes[s]
            /\ body[s].px = hashes[s]
        BY <2>3 DEF LedgerInv
      <3>2. ~stale
        BY <2>3 DEF Keyframe
      <3>3. body[s] # None
        BY <3>1, ScanoutAssumption
      <3>4. CASE hash[s] = hashes[s]
        BY <2>1, <3>1, <3>2, <3>3, <3>4
      <3>5. CASE hash[s] # hashes[s]
        <4>1. s \in owed /\ ~reuse /\ hash[s] = px[s]
          BY <3>1, <3>5
        <4> QED BY <1>3, <2>1, <3>5, <4>1
      <3> QED BY <3>4, <3>5
    <2> QED BY <2>2, <2>3
  <1>6. fresh \in [Strips -> Body]
    BY <1>5 DEF FrameBodies
  <1> QED BY <1>5, <1>6

\* One frame keeps the invariant, whether it is found to owe nothing, reaches
\* the dock, or fails the head.
LEMMA PresentKeeps ==
  ASSUME RingDividesWrap, IInv, ~failed,
         NEW px \in Image, NEW marked \in SUBSET Strips,
         NEW usable \in BOOLEAN, NEW reload \in BOOLEAN,
         Present(px, usable, marked, reload)
  PROVE  IInv'
  <1> DEFINE K == Keyframe(reload)
             hash == FrameHash(px, usable, marked, reload)
             charged == FrameDebt(hash)
             owed == Owed(K, charged)
             fresh == FrameBodies(px, hash, owed, reload)
             n == Presentations(K)
  <1>1. TypeOK /\ LedgerInv /\ RingInv /\ GlassInv /\ AgeInv
    BY DEF IInv
  <1>2. /\ hash \in Image
        /\ \A s \in Strips : hash[s] = px[s] \/ (hash[s] = hashes[s] /\ s \notin SweptBy(sweep))
        /\ K => hash = px
        /\ ~K => hashes \in Image
    BY <1>1, PlanReads
  <1>3. /\ charged \in [Strips -> 0 .. Repeats]
        /\ \A s \in Strips : /\ hash[s] # hashes[s] => charged[s] = Repeats
                             /\ charged[s] \in {Repeats, debt[s]}
    BY <1>1, ChargeFacts DEF TypeOK
  <1>4. /\ owed \in SUBSET Strips
        /\ K => owed = Strips
        /\ \A s \in Strips : s \notin owed =>
             ~K /\ charged[s] = 0 /\ debt[s] = 0 /\ hash[s] = hashes[s]
    <2> HIDE DEF K, hash, charged
    <2>1. \A s \in Strips : s \in owed <=> K \/ charged[s] > 0
      BY DEF Owed
    <2>2. \A s \in Strips : charged[s] \in 0 .. Repeats
      BY <1>3
    <2> QED BY <1>3, <2>1, <2>2, LedgerAssumption DEF Owed
  <1>5. /\ fresh \in [Strips -> Body]
        /\ \A s \in Strips : fresh[s].hash = hash[s] /\ fresh[s].px = hash[s]
        /\ ~K => \A s \in Strips : hash[s] = hashes[s] => fresh[s] = body[s]
    BY <1>1, <1>2, <1>4, EncodeFacts
  <1>6. /\ surface' = px
        /\ blanked' = FALSE
        /\ InstallCorrection(reload)
        /\ sweep' = NextPhase(sweep)
        /\ pending' = hash
    BY DEF Present, FrameHash, FrameDebt, FrameBodies
  <1>7. \/ /\ owed = {}
           /\ keyframe_owed' = K /\ recode' = NeedsRecode(reload)
           /\ age' = Ageing(px, hashes)
           /\ UNCHANGED <<hashes, debt, body, failed, dock>>
        \/ /\ owed # {}
           /\ body' = fresh
           /\ Submit(owed, fresh, n)
           /\ debt' = Settled(K, charged)
           /\ hashes' = hash
           /\ keyframe_owed' = FALSE /\ recode' = FALSE
           /\ age' = Ageing(px, hash)
           /\ UNCHANGED failed
        \/ /\ debt' = charged
           /\ keyframe_owed' = K /\ recode' = NeedsRecode(reload)
           /\ failed' = TRUE
           /\ UNCHANGED dock \/ SubmitFails(owed, fresh, n)
           /\ UNCHANGED <<hashes, body, age>>
    BY DEF Present, FrameHash, FrameDebt, FrameBodies
  <1> HIDE DEF K, hash, charged, owed, fresh
  <1>8. Repeats \in Nat \ {0} /\ n \in Nat \ {0} /\ (K => n = Repeats) /\ (~K => n = 1)
    BY LedgerAssumption DEF Presentations
  <1> HIDE DEF n
  <1>9. fresh \in [Strips -> Cell]
    BY <1>5 DEF Cell
  <1>10. /\ surface' \in Image
         /\ sweep' \in 0 .. SweepPeriod - 1
         /\ tone' \in Tones /\ toneStore' \in Tones
         /\ cal' \in Cals /\ calStore' \in Cals
         /\ blanked' = FALSE
         /\ pending' \in Image
    BY <1>1, <1>2, <1>6, PhaseStays DEF TypeOK, InstallCorrection
  <1>11. K \in BOOLEAN /\ NeedsRecode(reload) \in BOOLEAN
    BY <1>1 DEF K, Keyframe, NeedsRecode, Recal, TypeOK
  <1>12. \A known : Ageing(px, known) \in [Strips -> Nat]
    BY <1>1 DEF Ageing, TypeOK
  <1>13. \A s \in Strips : hash[s] \in Content
    BY <1>2 DEF Image
  <1>14. \A s \in Strips : Ageing(px, hash)[s] <= SweepDist(s)'
    <2>1. ASSUME NEW s \in Strips PROVE Ageing(px, hash)[s] <= SweepDist(s)'
      <3>1. Ageing(px, hash)[s] = IF hash[s] = px[s] THEN 0 ELSE age[s] + 1
        BY DEF Ageing
      <3>2. /\ SweepDist(s)' \in 0 .. SweepPeriod - 1
            /\ s \notin SweptBy(sweep) => SweepDist(s)' = SweepDist(s) + 1
        BY <1>1, <1>6, DistSteps DEF TypeOK
      <3>3. age[s] \in Nat /\ age[s] <= SweepDist(s) /\ SweepDist(s) \in 0 .. SweepPeriod - 1
        BY <1>1, DistBounded DEF AgeInv, TypeOK
      <3>4. hash[s] = px[s] \/ s \notin SweptBy(sweep)
        BY <1>2
      <3> QED BY <3>1, <3>2, <3>3, <3>4, LedgerAssumption
    <2> QED BY <2>1
  <1>15. CASE /\ owed = {}
              /\ keyframe_owed' = K /\ recode' = NeedsRecode(reload)
              /\ age' = Ageing(px, hashes)
              /\ UNCHANGED <<hashes, debt, body, failed, dock>>
    <2>1. /\ ~K
          /\ \A s \in Strips : hash[s] = hashes[s] /\ debt[s] = 0
      <3>1. <<0, 0>> \in Strips
        BY LedgerAssumption DEF Strips
      <3> QED BY <1>4, <1>15, <3>1
    <2>2. hash = hashes
      BY <1>2, <2>1 DEF Image
    <2>3. TypeOK'
      BY <1>1, <1>10, <1>11, <1>12, <1>15 DEF TypeOK, dock, Image
    <2>4. LedgerInv'
      BY <1>1, <1>2, <1>6, <1>15, <2>1, <2>2 DEF LedgerInv
    <2>5. RingInv'
      <3>1. ~blanked /\ ~keyframe_owed
        BY <2>1 DEF K, Keyframe
      <3> QED BY <1>1, <1>15, <3>1 DEF RingInv, Lag, dock
    <2>6. GlassInv'
      <3>1. ~blanked /\ ~keyframe_owed /\ Presented' = Presented
        BY <1>15, <2>1 DEF K, Keyframe, Presented
      <3>2. Streaming' => Streaming /\ ~WakingDark
        BY <1>15, <3>1 DEF Streaming, WakingDark
      <3> QED BY <1>1, <1>10, <1>15, <3>2 DEF GlassInv, dock
    <2>7. AgeInv'
      BY <1>15, <1>14, <2>2 DEF AgeInv
    <2> QED BY <2>3, <2>4, <2>5, <2>6, <2>7 DEF IInv
  <1>16. CASE /\ owed # {}
              /\ body' = fresh
              /\ Submit(owed, fresh, n)
              /\ debt' = Settled(K, charged)
              /\ hashes' = hash
              /\ keyframe_owed' = FALSE /\ recode' = FALSE
              /\ age' = Ageing(px, hash)
              /\ UNCHANGED failed
    <2>1. /\ bufs' \in [Buffers -> [Strips -> Cell]]
          /\ frame_seq' \in 0 .. SeqModulus - 1
          /\ shown' \in Buffers
      BY <1>1, <1>8, <1>9, <1>16, SubmitTypes
    <2>2. /\ debt' \in [Strips -> 0 .. Repeats]
          /\ K => \A s \in Strips : debt'[s] = 0
          /\ ~K => \A s \in Strips : debt'[s] = IF charged[s] = 0 THEN 0 ELSE charged[s] - 1
      <3>1. debt' = [s \in Strips |-> IF K \/ charged[s] = 0 THEN 0 ELSE charged[s] - 1]
        BY <1>16 DEF Settled
      <3>2. \A s \in Strips : (IF K \/ charged[s] = 0 THEN 0 ELSE charged[s] - 1) \in 0 .. Repeats
        BY <1>3, LedgerAssumption
      <3> QED BY <3>1, <3>2
    <2>3. TypeOK'
      <3>1. body' \in [Strips -> Body \cup {None}]
        BY <1>5, <1>16
      <3>2. hashes' \in [Strips -> Content \cup {None}]
        BY <1>2, <1>16 DEF Image
      <3>3. age' \in [Strips -> Nat]
        BY <1>12, <1>16
      <3> QED BY <1>1, <1>10, <1>16, <2>1, <2>2, <3>1, <3>2, <3>3 DEF TypeOK, Image
    <2>4. LedgerInv'
      BY <1>2, <1>5, <1>6, <1>16, ImageNotEmpty DEF LedgerInv
    <2>5. CASE K
      <3>1. \A b \in Buffers, s \in Strips : bufs'[b][s] = fresh[s]
        BY <1>1, <1>4, <1>8, <1>9, <1>16, <2>5, KeyframeFillsRing
      <3>2. RingInv'
        BY <1>16, <3>1 DEF RingInv
      <3>3. GlassInv'
        BY <1>10, <1>16, <2>1, <3>1 DEF GlassInv
      <3> QED BY <1>14, <1>16, <2>3, <2>4, <3>2, <3>3 DEF IInv, AgeInv
    <2>6. CASE ~K
      <3>1. ~blanked /\ ~keyframe_owed
        BY <2>6 DEF K, Keyframe
      <3>2. /\ frame_seq' = Advance(frame_seq, 1)
            /\ shown' = Slot(frame_seq)
            /\ \A b \in Buffers, s \in Strips :
                 bufs'[b][s] = IF b = Slot(frame_seq) /\ s \in owed
                               THEN fresh[s] ELSE bufs[b][s]
        BY <1>1, <1>4, <1>8, <1>16, <2>6, DeltaPaintsOne
      <3>3. \A b \in Buffers :
              /\ Lag(b) \in 1 .. DockBuffers
              /\ b = Slot(frame_seq) => Lag(b) = DockBuffers /\ Lag(b)' = 1
              /\ b # Slot(frame_seq) => Lag(b)' = Lag(b) + 1
        BY <1>1, <3>2, LagSteps DEF TypeOK
      <3>4. Slot(frame_seq) \in Buffers
        BY <1>1, SlotInRing DEF TypeOK
      <3>5. ASSUME NEW b \in Buffers, NEW s \in Strips,
                   Lag(b)' <= Repeats - debt'[s]
            PROVE  bufs'[b][s] = fresh[s]
        <4>1. debt[s] \in 0 .. Repeats /\ charged[s] \in 0 .. Repeats
          BY <1>1, <1>3 DEF TypeOK
        <4>2. CASE s \notin owed
          <5>1. debt[s] = 0 /\ fresh[s] = body[s]
            BY <1>4, <1>5, <2>6, <4>2
          <5>2. Lag(b) <= Repeats - debt[s]
            BY <3>3, <5>1, ScanoutAssumption, LedgerAssumption
          <5>3. bufs[b][s] = body[s]
            BY <1>1, <3>1, <5>2 DEF RingInv
          <5> QED BY <3>2, <4>2, <5>1, <5>3
        <4>3. CASE s \in owed /\ b = Slot(frame_seq)
          BY <3>2, <4>3
        <4>4. CASE s \in owed /\ b # Slot(frame_seq)
          <5>1. charged[s] # 0 /\ debt'[s] = charged[s] - 1
            BY <2>2, <2>6, <4>1, <4>4 DEF Owed, owed
          <5>2. Lag(b) <= Repeats - charged[s] /\ Lag(b) \in 1 .. DockBuffers
            BY <3>3, <3>5, <4>1, <4>4, <5>1, LedgerAssumption
          <5>3. charged[s] # Repeats
            BY <4>1, <5>2, LedgerAssumption
          <5>4. charged[s] = debt[s] /\ hash[s] = hashes[s]
            BY <1>3, <5>3
          <5>5. fresh[s] = body[s]
            BY <1>5, <2>6, <5>4
          <5>6. bufs[b][s] = body[s]
            BY <1>1, <3>1, <5>2, <5>4 DEF RingInv
          <5> QED BY <3>2, <4>4, <5>5, <5>6
        <4> QED BY <4>2, <4>3, <4>4
      <3>6. RingInv'
        BY <1>16, <3>5 DEF RingInv, Buffers
      <3>7. GlassInv'
        <4>1. ASSUME NEW s \in Strips PROVE bufs'[shown'][s] = fresh[s]
          <5>1. PICK b \in Buffers : b = Slot(frame_seq)
            BY <3>4
          <5>2. charged[s] \in 0 .. Repeats
            BY <1>3
          <5>3. debt'[s] <= Repeats - 1
            BY <2>2, <2>6, <5>2, LedgerAssumption
          <5>4. shown' = b /\ Lag(b)' = 1
            BY <3>2, <3>3, <5>1
          <5>5. debt'[s] \in 0 .. Repeats
            BY <2>2
          <5>6. Lag(b)' <= Repeats - debt'[s]
            BY <5>3, <5>4, <5>5, LedgerAssumption
          <5> QED BY <3>5, <5>4, <5>6
        <4> QED BY <1>10, <1>16, <4>1 DEF GlassInv
      <3> QED BY <1>14, <1>16, <2>3, <2>4, <3>6, <3>7 DEF IInv, AgeInv
    <2> QED BY <2>5, <2>6
  <1>17. CASE /\ debt' = charged
              /\ keyframe_owed' = K /\ recode' = NeedsRecode(reload)
              /\ failed' = TRUE
              /\ UNCHANGED dock \/ SubmitFails(owed, fresh, n)
              /\ UNCHANGED <<hashes, body, age>>
    <2>1. /\ bufs' \in [Buffers -> [Strips -> Cell]]
          /\ frame_seq' \in 0 .. SeqModulus - 1
          /\ shown' \in Buffers
      BY <1>1, <1>8, <1>9, <1>17, SubmitFailsTypes DEF TypeOK, dock
    <2>2. TypeOK'
      BY <1>1, <1>3, <1>10, <1>11, <1>17, <2>1 DEF TypeOK, Image
    <2> QED
      BY <1>10, <1>17, <2>2 DEF IInv, LedgerInv, RingInv, GlassInv, AgeInv, Streaming
  <1> QED BY <1>7, <1>15, <1>16, <1>17

-----------------------------------------------------------------------------
(* The refresh clock and the environment.                                  *)

\* The clock's black frames.
LEMMA BlankKeeps == IInv /\ Blank => IInv'
  <1> SUFFICES ASSUME IInv, Blank PROVE IInv'
    OBVIOUS
  <1> DEFINE dark == [s \in Strips |-> Black]
  <1>1. TypeOK /\ LedgerInv /\ RingInv /\ GlassInv /\ AgeInv
    BY DEF IInv
  <1>2. dark \in [Strips -> Cell]
    BY DEF Cell
  <1>3. /\ UNCHANGED <<surface, hashes, pending, debt, sweep, keyframe_owed, body, age>>
        /\ UNCHANGED <<tone, cal, recode, toneStore, calStore>>
    BY DEF Blank, ledger, settings
  <1>4. /\ CanRefresh /\ Presented
        /\ \/ Submit(Strips, dark, 2) /\ blanked' = TRUE /\ failed' = failed
           \/ /\ \E sent \in 0 .. 2 : IF sent = 0 THEN UNCHANGED dock
                                      ELSE Submit(Strips, dark, sent)
              /\ failed' = TRUE /\ blanked' = blanked
    BY DEF Blank
  <1> HIDE DEF dark
  <1>5. /\ bufs' \in [Buffers -> [Strips -> Cell]]
        /\ frame_seq' \in 0 .. SeqModulus - 1
        /\ shown' \in Buffers
    <2>1. CASE Submit(Strips, dark, 2)
      BY <1>1, <1>2, <2>1, SubmitTypes
    <2>2. ASSUME NEW sent \in 0 .. 2,
                 IF sent = 0 THEN UNCHANGED dock ELSE Submit(Strips, dark, sent)
          PROVE  <1>5!:
      <3>1. CASE sent = 0
        BY <1>1, <2>2, <3>1 DEF TypeOK, dock
      <3>2. CASE sent # 0
        <4>1. sent \in Nat \ {0}
          BY <3>2
        <4> QED BY <1>1, <1>2, <2>2, <3>2, <4>1, SubmitTypes
      <3> QED BY <3>1, <3>2
    <2> QED BY <1>4, <2>1, <2>2
  <1>6. TypeOK'
    BY <1>1, <1>3, <1>4, <1>5 DEF TypeOK
  <1>7. LedgerInv'
    <2>1. hashes \in Image
      BY <1>1, <1>4 DEF LedgerInv, Presented, NoImage, CanRefresh
    <2> QED BY <1>1, <1>3, <1>4, <2>1 DEF LedgerInv, CanRefresh
  <1>8. ~failed' => blanked' /\ \A s \in Strips : bufs'[shown'][s] = Black
    <2>1. ASSUME ~failed', NEW s \in Strips
          PROVE  blanked' /\ bufs'[shown'][s] = Black
      <3>1. Submit(Strips, dark, 2) /\ blanked' = TRUE
        BY <1>4, <2>1
      <3>2. shown' \in Landed(2)
        BY <3>1 DEF Submit, Landed
      <3>3. bufs' = Painted(Landed(2), Strips, dark)
        BY <3>1 DEF Submit
      <3>4. bufs'[shown'][s] = dark[s]
        BY <1>5, <3>2, <3>3 DEF Painted
      <3> QED BY <3>1, <3>4 DEF dark
    <2>2. ~failed' => blanked'
      BY <1>4
    <2> QED BY <2>1, <2>2
  <1>9. RingInv' /\ GlassInv'
    BY <1>8 DEF RingInv, GlassInv, Streaming
  <1>10. AgeInv'
    BY <1>1, <1>3, <1>4 DEF AgeInv, SweepDist, CanRefresh
  <1> QED BY <1>6, <1>7, <1>9, <1>10 DEF IInv

\* The clock's repayment, wake-up and keepalive.
LEMMA RefreshKeeps ==
  ASSUME RingDividesWrap, IInv, NEW reload \in BOOLEAN, NEW keepalive \in BOOLEAN,
         Refresh(reload, keepalive)
  PROVE  IInv'
  <1> DEFINE K == keyframe_owed \/ blanked \/ (keepalive /\ Presented)
             owed == Owed(K, debt)
             n == Presentations(K)
  <1>1. TypeOK /\ LedgerInv /\ RingInv /\ GlassInv /\ AgeInv
    BY DEF IInv
  <1>2. /\ CanRefresh /\ blanked' = FALSE /\ InstallCorrection(reload)
        /\ UNCHANGED <<surface, sweep, body, age>>
    BY DEF Refresh
  <1>3. \/ /\ NeedsRecode(reload) /\ recode' = TRUE /\ keyframe_owed' = TRUE
           /\ UNCHANGED <<hashes, pending, debt, failed, dock>>
        \/ /\ owed = {} /\ keyframe_owed' = K
           /\ UNCHANGED <<hashes, pending, debt, recode, failed, dock>>
        \/ /\ Submit(owed, body, n) /\ hashes' = pending
           /\ debt' = Settled(K, debt) /\ keyframe_owed' = FALSE
           /\ UNCHANGED <<pending, recode, failed>>
        \/ /\ SubmitFails(owed, body, n) /\ keyframe_owed' = K /\ failed' = TRUE
           /\ UNCHANGED <<hashes, pending, debt, recode>>
    BY DEF Refresh
  <1>4. ~failed /\ (keyframe_owed => blanked) /\ hashes \in Image
    BY <1>1, <1>2 DEF CanRefresh, LedgerInv
  <1>5. /\ body \in [Strips -> Body] /\ body \in [Strips -> Cell]
        /\ K \in BOOLEAN
        /\ n \in Nat \ {0} /\ (K => n = Repeats) /\ (~K => n = 1)
    <2>1. body \in [Strips -> Body]
      BY <1>1, <1>4 DEF LedgerInv, TypeOK
    <2>2. K \in BOOLEAN
      BY <1>1 DEF TypeOK, Presented
    <2> QED BY <2>1, <2>2, LedgerAssumption DEF Cell, Presentations
  <1>6. /\ owed \in SUBSET Strips
        /\ K => owed = Strips
        /\ ~K => \A s \in Strips : s \in owed <=> debt[s] # 0
    <2>1. \A s \in Strips : debt[s] \in 0 .. Repeats
      BY <1>1 DEF TypeOK
    <2>2. \A s \in Strips : debt[s] # 0 <=> debt[s] > 0
      BY <2>1
    <2> HIDE DEF K
    <2> QED BY <2>2 DEF Owed
  <1> HIDE DEF K, owed, n
  <1>7. /\ surface' = surface /\ sweep' = sweep /\ body' = body /\ age' = age
        /\ blanked' = FALSE
        /\ tone' \in Tones /\ toneStore' \in Tones
        /\ cal' \in Cals /\ calStore' \in Cals
    BY <1>1, <1>2 DEF InstallCorrection, TypeOK
  <1>8. AgeInv'
    BY <1>1, <1>4, <1>7 DEF AgeInv, SweepDist
  <1>9. CASE /\ NeedsRecode(reload) /\ recode' = TRUE /\ keyframe_owed' = TRUE
             /\ UNCHANGED <<hashes, pending, debt, failed, dock>>
    <2>1. TypeOK'
      BY <1>1, <1>7, <1>9 DEF TypeOK, dock
    <2>2. LedgerInv' /\ RingInv'
      BY <1>1, <1>4, <1>7, <1>9 DEF LedgerInv, RingInv
    <2>3. GlassInv'
      <3>1. bufs' = bufs /\ shown' = shown /\ failed' = failed /\ Presented' = Presented
        BY <1>9 DEF dock, Presented
      <3>2. CASE blanked
        BY <1>1, <1>4, <1>7, <1>9, <3>1, <3>2 DEF GlassInv, Streaming, WakingDark
      <3>3. CASE ~blanked
        <4>1. ~WakingDark
          BY <1>4, <3>3 DEF WakingDark
        <4> QED BY <1>1, <1>7, <3>1, <3>3, <4>1 DEF GlassInv, Streaming
      <3> QED BY <3>2, <3>3
    <2> QED BY <1>8, <2>1, <2>2, <2>3 DEF IInv
  <1>10. CASE /\ owed = {} /\ keyframe_owed' = K
              /\ UNCHANGED <<hashes, pending, debt, recode, failed, dock>>
    <2>1. ~K
      <3>1. <<0, 0>> \in Strips
        BY LedgerAssumption DEF Strips
      <3> QED BY <1>6, <1>10, <3>1
    <2>2. ~keyframe_owed /\ ~blanked /\ keyframe_owed' = FALSE
      BY <1>5, <1>10, <2>1 DEF K
    <2>3. TypeOK'
      BY <1>1, <1>7, <1>10, <2>2 DEF TypeOK, dock
    <2>4. LedgerInv'
      BY <1>1, <1>7, <1>10, <2>2 DEF LedgerInv
    <2>5. RingInv'
      BY <1>1, <1>7, <1>10, <2>2 DEF RingInv, Lag, dock
    <2>6. GlassInv'
      BY <1>1, <1>7, <1>10, <2>2 DEF GlassInv, Streaming, Presented, WakingDark, dock
    <2> QED BY <1>8, <2>3, <2>4, <2>5, <2>6 DEF IInv
  <1>11. CASE /\ Submit(owed, body, n) /\ hashes' = pending
              /\ debt' = Settled(K, debt) /\ keyframe_owed' = FALSE
              /\ UNCHANGED <<pending, recode, failed>>
    <2>1. /\ bufs' \in [Buffers -> [Strips -> Cell]]
          /\ frame_seq' \in 0 .. SeqModulus - 1
          /\ shown' \in Buffers
      BY <1>1, <1>5, <1>11, SubmitTypes
    <2>2. hashes' = hashes
      BY <1>1, <1>4, <1>11 DEF LedgerInv
    <2>3. /\ debt' \in [Strips -> 0 .. Repeats]
          /\ \A s \in Strips : debt'[s] = IF K \/ debt[s] = 0 THEN 0 ELSE debt[s] - 1
      <3>1. debt' = [s \in Strips |-> IF K \/ debt[s] = 0 THEN 0 ELSE debt[s] - 1]
        BY <1>11 DEF Settled
      <3>2. \A s \in Strips : debt[s] \in 0 .. Repeats
        BY <1>1 DEF TypeOK
      <3>3. \A s \in Strips : (IF K \/ debt[s] = 0 THEN 0 ELSE debt[s] - 1) \in 0 .. Repeats
        BY <3>2, LedgerAssumption
      <3> QED BY <3>1, <3>3
    <2>4. TypeOK'
      BY <1>1, <1>7, <1>11, <2>1, <2>2, <2>3 DEF TypeOK
    <2>5. LedgerInv'
      BY <1>1, <1>4, <1>7, <1>11, <2>2 DEF LedgerInv
    <2>6. CASE K
      <3>1. \A b \in Buffers, s \in Strips : bufs'[b][s] = body[s]
        BY <1>1, <1>5, <1>6, <1>11, <2>6, KeyframeFillsRing
      <3>2. RingInv' /\ GlassInv'
        BY <1>7, <2>1, <3>1 DEF RingInv, GlassInv
      <3> QED BY <1>8, <2>4, <2>5, <3>2 DEF IInv
    <2>7. CASE ~K
      <3>1. ~blanked /\ ~keyframe_owed
        BY <2>7 DEF K
      <3>2. /\ frame_seq' = Advance(frame_seq, 1)
            /\ shown' = Slot(frame_seq)
            /\ \A b \in Buffers, s \in Strips :
                 bufs'[b][s] = IF b = Slot(frame_seq) /\ s \in owed
                               THEN body[s] ELSE bufs[b][s]
        BY <1>1, <1>5, <1>6, <1>11, <2>7, DeltaPaintsOne
      <3>3. \A b \in Buffers :
              /\ Lag(b) \in 1 .. DockBuffers
              /\ b = Slot(frame_seq) => Lag(b) = DockBuffers /\ Lag(b)' = 1
              /\ b # Slot(frame_seq) => Lag(b)' = Lag(b) + 1
        BY <1>1, <3>2, LagSteps DEF TypeOK
      <3>4. Slot(frame_seq) \in Buffers
        BY <1>1, SlotInRing DEF TypeOK
      <3>5. ASSUME NEW b \in Buffers, NEW s \in Strips,
                   Lag(b)' <= Repeats - debt'[s]
            PROVE  bufs'[b][s] = body[s]
        <4>1. debt[s] \in 0 .. Repeats
          BY <1>1 DEF TypeOK
        <4>2. CASE s \in owed /\ b = Slot(frame_seq)
          BY <3>2, <4>2
        <4>3. CASE ~(s \in owed /\ b = Slot(frame_seq))
          <5>1. Lag(b) <= Repeats - debt[s]
            BY <1>6, <2>3, <2>7, <3>3, <3>5, <4>1, <4>3, ScanoutAssumption, LedgerAssumption
          <5>2. bufs[b][s] = body[s]
            BY <1>1, <1>4, <3>1, <5>1 DEF RingInv
          <5> QED BY <3>2, <4>3, <5>2
        <4> QED BY <4>2, <4>3
      <3>6. RingInv'
        BY <1>7, <3>5 DEF RingInv, Buffers
      <3>7. GlassInv'
        <4>1. ASSUME NEW s \in Strips PROVE bufs'[shown'][s] = body[s]
          <5>1. CASE s \in owed
            BY <3>2, <3>4, <5>1
          <5>2. CASE s \notin owed
            <6>1. debt[s] = 0
              BY <1>6, <2>7, <5>2
            <6>2. PICK b \in Buffers : b = Slot(frame_seq)
              BY <3>4
            <6>3. Lag(b) <= Repeats - debt[s]
              BY <3>3, <6>1, <6>2, ScanoutAssumption, LedgerAssumption
            <6>4. bufs[b][s] = body[s]
              BY <1>1, <1>4, <3>1, <6>3 DEF RingInv
            <6> QED BY <3>2, <5>2, <6>2, <6>4
          <5> QED BY <5>1, <5>2
        <4> QED BY <1>7, <4>1 DEF GlassInv
      <3> QED BY <1>8, <2>4, <2>5, <3>6, <3>7 DEF IInv
    <2> QED BY <2>6, <2>7
  <1>12. CASE /\ SubmitFails(owed, body, n) /\ keyframe_owed' = K /\ failed' = TRUE
              /\ UNCHANGED <<hashes, pending, debt, recode>>
    <2>1. /\ bufs' \in [Buffers -> [Strips -> Cell]]
          /\ frame_seq' \in 0 .. SeqModulus - 1
          /\ shown' \in Buffers
      BY <1>1, <1>5, <1>12, SubmitFailsTypes
    <2>2. TypeOK'
      BY <1>1, <1>5, <1>7, <1>12, <2>1 DEF TypeOK
    <2> QED
      BY <1>1, <1>7, <1>8, <1>12, <2>2 DEF IInv, LedgerInv, RingInv, GlassInv, Streaming
  <1> QED BY <1>3, <1>9, <1>10, <1>11, <1>12

\* Edits, the other head's reload and a restart.
LEMMA EnvironmentKeeps ==
  IInv /\ (EditTone \/ EditCal \/ OtherHeadReload \/ Restart) => IInv'
  <1> SUFFICES ASSUME IInv, EditTone \/ EditCal \/ OtherHeadReload \/ Restart
               PROVE  IInv'
    OBVIOUS
  <1>1. TypeOK /\ LedgerInv /\ RingInv /\ GlassInv /\ AgeInv
    BY DEF IInv
  <1>2. CASE EditTone \/ EditCal \/ OtherHeadReload
    <2>1. /\ UNCHANGED <<surface, hashes, pending, debt, sweep, keyframe_owed, body>>
          /\ UNCHANGED <<blanked, failed, frame_seq, bufs, shown, age>>
      BY <1>2 DEF EditTone, EditCal, OtherHeadReload, ledger, dock
    <2>2. TypeOK'
      BY <1>1, <1>2, <2>1 DEF TypeOK, EditTone, EditCal, OtherHeadReload
    <2>3. LedgerInv' /\ RingInv' /\ GlassInv' /\ AgeInv'
      BY <1>1, <2>1 DEF LedgerInv, RingInv, Lag, GlassInv, AgeInv, SweepDist,
                       Streaming, Presented, WakingDark
    <2> QED BY <2>2, <2>3 DEF IInv
  <1>3. CASE Restart
    <2>1. TypeOK'
      <3>1. frame_seq' \in 0 .. SeqModulus - 1 /\ sweep' \in 0 .. SweepPeriod - 1
        BY <1>3, ScanoutAssumption, LedgerAssumption DEF Restart
      <3>2. debt' \in [Strips -> 0 .. Repeats] /\ age' \in [Strips -> Nat]
        BY <1>3, LedgerAssumption DEF Restart
      <3> QED BY <1>1, <1>3, <3>1, <3>2, ScanoutAssumption DEF Restart, TypeOK
    <2>2. LedgerInv'
      BY <1>3, ImageNotEmpty DEF Restart, LedgerInv, NoImage
    <2>3. RingInv' /\ GlassInv'
      BY <1>3 DEF Restart, RingInv, GlassInv, Streaming, Presented
    <2>4. AgeInv'
      <3>1. \A s \in Strips : SweepDist(s)' \in 0 .. SweepPeriod - 1
        BY <1>3, RowInSweep, LedgerAssumption DEF Restart, SweepDist
      <3> QED BY <1>3, <3>1, LedgerAssumption DEF Restart, AgeInv
    <2> QED BY <2>1, <2>2, <2>3, <2>4 DEF IInv
  <1> QED BY <1>2, <1>3

\* Every step keeps the invariant.
LEMMA NextKeeps ==
  ASSUME RingDividesWrap, IInv, [Next]_vars
  PROVE  IInv'
  <1>1. CASE Frame
    <2>1. PICK px \in [Strips -> Content], marked \in SUBSET Strips,
               usable \in BOOLEAN, reload \in BOOLEAN :
            ~failed /\ Present(px, usable, marked, reload)
      BY <1>1 DEF Frame
    <2> QED BY <2>1, PresentKeeps DEF Image
  <1>2. CASE Repaint
    <2>1. PICK reload \in BOOLEAN :
            /\ ~failed /\ (\E s \in Strips : surface[s] # None)
            /\ Present(surface, FALSE, {}, reload)
      BY <1>2 DEF Repaint
    <2>2. surface \in Image
      BY <2>1 DEF IInv, LedgerInv, NoImage
    <2>3. {} \in SUBSET Strips /\ FALSE \in BOOLEAN
      OBVIOUS
    <2> QED BY <2>1, <2>2, <2>3, PresentKeeps
  <1>3. CASE Blank
    BY <1>3, BlankKeeps
  <1>4. CASE RefreshTick
    BY <1>4, RefreshKeeps DEF RefreshTick
  <1>5. CASE EditTone \/ EditCal \/ OtherHeadReload \/ Restart
    BY <1>5, EnvironmentKeeps
  <1>6. CASE UNCHANGED vars
    <2>1. /\ UNCHANGED <<surface, hashes, pending, debt, sweep, keyframe_owed, body>>
          /\ UNCHANGED <<tone, cal, recode, toneStore, calStore>>
          /\ UNCHANGED <<blanked, failed, frame_seq, bufs, shown, age>>
      BY <1>6 DEF vars, ledger, settings, dock
    <2>2. TypeOK'
      BY <2>1 DEF IInv, TypeOK
    <2> QED BY <2>1, <2>2 DEF IInv, LedgerInv, RingInv, Lag, GlassInv, AgeInv, SweepDist,
                              Streaming, Presented, WakingDark
  <1> QED BY <1>1, <1>2, <1>3, <1>4, <1>5, <1>6 DEF Next

\* The invariant says what the runs check.
LEMMA IInvImplies ==
  IInv => TypeOK /\ PaidStripIsOnEveryBuffer /\ PanelShowsLedger /\ MissedRectBounded
  <1> SUFFICES ASSUME IInv
               PROVE  TypeOK /\ PaidStripIsOnEveryBuffer /\ PanelShowsLedger
                      /\ MissedRectBounded
    OBVIOUS
  <1>1. TypeOK /\ LedgerInv /\ RingInv /\ GlassInv /\ AgeInv
    BY DEF IInv
  <1>2. PaidStripIsOnEveryBuffer
    <2>1. ASSUME Streaming, ~keyframe_owed, NEW s \in Strips, debt[s] = 0, NEW b \in Buffers
          PROVE  bufs[b][s] = body[s]
      <3>1. Slot(frame_seq) \in Buffers
        BY <1>1, SlotInRing DEF TypeOK
      <3>2. Lag(b) <= DockBuffers
        BY <3>1, ScanoutAssumption DEF Lag, Buffers
      <3>3. Lag(b) <= Repeats - debt[s]
        <4>1. Lag(b) \in Int
          BY <3>1, ScanoutAssumption DEF Lag, Buffers
        <4> QED BY <2>1, <3>2, <4>1, ScanoutAssumption, LedgerAssumption
      <3> QED BY <1>1, <2>1, <3>3 DEF RingInv, Streaming
    <2> QED BY <2>1 DEF PaidStripIsOnEveryBuffer
  <1>3. PanelShowsLedger
    <2>1. ASSUME Streaming, ~WakingDark, NEW s \in Strips
          PROVE  bufs[shown][s] \in Body /\ bufs[shown][s].px = hashes[s]
      BY <1>1, <2>1 DEF GlassInv, LedgerInv, Streaming, Presented, NoImage
    <2> QED BY <2>1 DEF PanelShowsLedger
  <1>4. MissedRectBounded
    <2>1. ASSUME ~failed, NEW s \in Strips PROVE age[s] < SweepPeriod
      <3>1. age[s] <= SweepDist(s) /\ age[s] \in Nat
        BY <1>1, <2>1 DEF AgeInv, TypeOK
      <3>2. SweepDist(s) \in 0 .. SweepPeriod - 1
        BY <1>1, DistBounded DEF TypeOK
      <3> QED BY <3>1, <3>2, LedgerAssumption
    <2> QED BY <2>1 DEF MissedRectBounded
  <1> QED BY <1>1, <1>2, <1>3, <1>4

LEMMA Invariance ==
  ASSUME RingDividesWrap
  PROVE  Spec => []IInv
  <1>1. IInv /\ [Next]_vars => IInv'
    BY NextKeeps
  <1> QED BY <1>1, InitIInv, PTL DEF Spec

-----------------------------------------------------------------------------
(* The theorems.                                                           *)

\* The head's state keeps its types under every interleaving of frames, clock
\* ticks, edits, failures and restarts.
THEOREM TypeCorrect ==
  ASSUME RingDividesWrap
  PROVE  Spec => []TypeOK
  BY Invariance, IInvImplies, PTL

\* Delta repayment is enough: a strip leaves the ledger only when every
\* buffer of the dock's ring holds it.
THEOREM PaidStripsPaid ==
  ASSUME RingDividesWrap
  PROVE  Spec => []PaidStripIsOnEveryBuffer
  BY Invariance, IInvImplies, PTL

\* The glass is exactly the image the ledger recorded, or black on the way
\* out of standby.
THEOREM PanelTracksLedger ==
  ASSUME RingDividesWrap
  PROVE  Spec => []PanelShowsLedger
  BY Invariance, IInvImplies, PTL

\* The verification sweep bounds how long an unreported change goes unseen.
THEOREM SweepBoundsStaleness ==
  ASSUME RingDividesWrap
  PROVE  Spec => []MissedRectBounded
  BY Invariance, IInvImplies, PTL

-----------------------------------------------------------------------------
(* A step that repays a keyframe.                                          *)

KeyframeStep ==
  (keyframe_owed \/ blanked) /\ ~keyframe_owed' /\ ~blanked'
    => \A b \in Buffers : bufs'[b] = body'

\* A ring painted whole holds the cache itself, buffer by buffer.
LEMMA RingHoldsCache ==
  ASSUME TypeOK', NEW image, image \in [Strips -> Body], body' = image,
         \A b \in Buffers, s \in Strips : bufs'[b][s] = image[s]
  PROVE  \A b \in Buffers : bufs'[b] = body'
  <1>1. ASSUME NEW b \in Buffers PROVE bufs'[b] = body'
    <2>1. bufs'[b] \in [Strips -> Cell]
      BY DEF TypeOK, Buffers
    <2> QED BY <2>1
  <1> QED BY <1>1

LEMMA PresentRepays ==
  ASSUME RingDividesWrap, IInv, IInv', ~failed,
         NEW px \in Image, NEW marked \in SUBSET Strips,
         NEW usable \in BOOLEAN, NEW reload \in BOOLEAN,
         Present(px, usable, marked, reload)
  PROVE  KeyframeStep
  <1> DEFINE K == Keyframe(reload)
             hash == FrameHash(px, usable, marked, reload)
             charged == FrameDebt(hash)
             owed == Owed(K, charged)
             fresh == FrameBodies(px, hash, owed, reload)
             n == Presentations(K)
  <1> SUFFICES ASSUME keyframe_owed \/ blanked, ~keyframe_owed', ~blanked'
               PROVE  \A b \in Buffers : bufs'[b] = body'
    BY DEF KeyframeStep
  <1>1. K
    BY DEF Keyframe
  <1>2. /\ body' = fresh
        /\ Submit(owed, fresh, n)
    BY <1>1 DEF Present, FrameHash, FrameDebt, FrameBodies
  <1>3. n = Repeats /\ owed = Strips
    BY <1>1 DEF Presentations, Owed
  <1>4. hash \in Image /\ hash = px
    BY <1>1, PlanReads DEF IInv
  <1> HIDE DEF hash, charged
  <1>5. fresh \in [Strips -> Body]
    <2>1. /\ owed \in SUBSET Strips
          /\ \A s \in Strips : hash[s] = px[s]
          /\ \A s \in Strips : s \in owed
      BY <1>3, <1>4
    <2>2. TypeOK /\ LedgerInv
      BY DEF IInv
    <2> HIDE DEF owed
    <2> QED BY <1>1, <1>3, <1>4, <2>1, <2>2, EncodeFacts
  <1> HIDE DEF K, owed, fresh, n
  <1>6. fresh \in [Strips -> Cell]
    BY <1>5 DEF Cell
  <1>7. \A b \in Buffers, s \in Strips : bufs'[b][s] = fresh[s]
    BY <1>2, <1>3, <1>6, KeyframeFillsRing DEF IInv
  <1> QED BY <1>2, <1>5, <1>7, RingHoldsCache DEF IInv

LEMMA RefreshRepays ==
  ASSUME RingDividesWrap, IInv, IInv', NEW reload \in BOOLEAN, NEW keepalive \in BOOLEAN,
         Refresh(reload, keepalive)
  PROVE  KeyframeStep
  <1> DEFINE K == keyframe_owed \/ blanked \/ (keepalive /\ Presented)
  <1> SUFFICES ASSUME keyframe_owed \/ blanked, ~keyframe_owed', ~blanked'
               PROVE  \A b \in Buffers : bufs'[b] = body'
    BY DEF KeyframeStep
  <1>1. K
    OBVIOUS
  <1>2. Submit(Owed(K, debt), body, Presentations(K)) /\ body' = body
    BY <1>1 DEF Refresh
  <1>3. Submit(Strips, body, Repeats)
    BY <1>1, <1>2 DEF Presentations, Owed
  <1>4. body \in [Strips -> Body] /\ body \in [Strips -> Cell]
    <2>1. hashes \in Image /\ ~failed
      BY DEF Refresh, CanRefresh, IInv, LedgerInv
    <2> QED BY <2>1 DEF IInv, LedgerInv, TypeOK, Cell
  <1>5. \A b \in Buffers, s \in Strips : bufs'[b][s] = body[s]
    BY <1>3, <1>4, KeyframeFillsRing DEF IInv
  <1> QED BY <1>2, <1>4, <1>5, RingHoldsCache DEF IInv

\* A keyframe clears the ledger only with every buffer of the ring repainted.
THEOREM KeyframesFillTheRing ==
  ASSUME RingDividesWrap
  PROVE  Spec => KeyframeReachesEveryBuffer
  <1>1. ASSUME IInv, IInv', [Next]_vars PROVE [KeyframeStep]_vars
    <2>1. CASE Frame
      <3>1. PICK px \in [Strips -> Content], marked \in SUBSET Strips,
                 usable \in BOOLEAN, reload \in BOOLEAN :
              ~failed /\ Present(px, usable, marked, reload)
        BY <2>1 DEF Frame
      <3> QED BY <1>1, <3>1, PresentRepays DEF Image
    <2>2. CASE Repaint
      <3>1. PICK reload \in BOOLEAN :
              /\ ~failed /\ (\E s \in Strips : surface[s] # None)
              /\ Present(surface, FALSE, {}, reload)
        BY <2>2 DEF Repaint
      <3>2. surface \in Image
        BY <1>1, <3>1 DEF IInv, LedgerInv, NoImage
      <3>3. {} \in SUBSET Strips /\ FALSE \in BOOLEAN
        OBVIOUS
      <3> QED BY <1>1, <3>1, <3>2, <3>3, PresentRepays
    <2>3. CASE Blank
      BY <2>3 DEF Blank, KeyframeStep, CanRefresh, ledger
    <2>4. CASE RefreshTick
      BY <1>1, <2>4, RefreshRepays DEF RefreshTick
    <2>5. CASE EditTone \/ EditCal \/ OtherHeadReload
      BY <2>5 DEF EditTone, EditCal, OtherHeadReload, KeyframeStep, ledger
    <2>6. CASE Restart
      BY <2>6 DEF Restart, KeyframeStep
    <2> QED BY <1>1, <2>1, <2>2, <2>3, <2>4, <2>5, <2>6 DEF Next
  <1> QED BY <1>1, Invariance, PTL DEF Spec, KeyframeReachesEveryBuffer, KeyframeStep

-----------------------------------------------------------------------------
(* The head implements the abstract panel.                                 *)

PanelGlass == IF Lit THEN [s \in Strips |-> bufs[shown][s].px] ELSE None

\* What is lit is the ledger's image, whole.
GlassIsLedger ==
  /\ Lit => PanelGlass = hashes /\ hashes \in Image
  /\ ~Lit => PanelGlass = None

LEMMA GlassIsImage == IInv => GlassIsLedger
  <1>1. ASSUME IInv, Lit PROVE PanelGlass = hashes /\ hashes \in Image
    <2>1. hashes \in Image
      BY <1>1 DEF Lit, Streaming, Presented, IInv, LedgerInv, NoImage
    <2>2. \A s \in Strips : bufs[shown][s].px = hashes[s]
      BY <1>1, IInvImplies DEF Lit, PanelShowsLedger
    <2> QED BY <1>1, <2>1, <2>2 DEF PanelGlass, Image
  <1> QED BY <1>1 DEF GlassIsLedger, PanelGlass

\* A step that touches neither the desktop, nor the ledger's image, nor the
\* staleness history turns the glass dark or relights the image it had.
LEMMA GlassOnly ==
  ASSUME IInv', UNCHANGED <<surface, hashes, age>>
  PROVE  AbstractPanel!Darken \/ AbstractPanel!Relight
  <1>1. /\ Lit' => PanelGlass' = hashes' /\ hashes' \in Image
        /\ ~Lit' => PanelGlass' = None
    <2>1. GlassIsLedger'
      BY GlassIsImage, PTL
    <2> QED BY <2>1 DEF GlassIsLedger
  <1>2. CASE ~Lit'
    BY <1>1, <1>2 DEF AbstractPanel!Darken, PanelGlass
  <1>3. CASE Lit'
    <2>1. hashes # [s \in Strips |-> None]
      BY <1>1, <1>3, ImageNotEmpty DEF NoImage
    <2> QED BY <1>1, <1>3, <2>1 DEF AbstractPanel!Relight, AbstractPanel!Nothing, PanelGlass
  <1> QED BY <1>2, <1>3

\* A frame shows an allowed image, or fails the head.
LEMMA PresentShows ==
  ASSUME RingDividesWrap, IInv, IInv', ~failed,
         NEW px \in Image, NEW marked \in SUBSET Strips,
         NEW usable \in BOOLEAN, NEW reload \in BOOLEAN,
         Present(px, usable, marked, reload)
  PROVE  AbstractPanel!Show \/ AbstractPanel!Fail
  <1> DEFINE K == Keyframe(reload)
             hash == FrameHash(px, usable, marked, reload)
             charged == FrameDebt(hash)
             owed == Owed(K, charged)
  <1>1. TypeOK /\ LedgerInv /\ TypeOK' /\ LedgerInv'
    BY DEF IInv
  <1>2. /\ hash \in Image
        /\ \A s \in Strips : hash[s] = px[s] \/ hash[s] = hashes[s]
    BY <1>1, PlanReads
  <1>3. surface' = px /\ blanked' = FALSE
    BY DEF Present
  <1>4. \/ /\ owed = {} /\ keyframe_owed' = K /\ age' = Ageing(px, hashes)
           /\ UNCHANGED <<hashes, failed>>
        \/ /\ hashes' = hash /\ keyframe_owed' = FALSE
           /\ age' = Ageing(px, hash) /\ failed' = failed
        \/ failed' = TRUE /\ UNCHANGED <<hashes, age>>
    BY DEF Present, FrameHash, FrameDebt
  <1> HIDE DEF hash, charged
  <1>5. CASE failed' = TRUE /\ UNCHANGED <<hashes, age>>
    <2>1. PanelGlass' = None
      BY <1>5 DEF PanelGlass, Lit, Streaming
    <2> QED BY <1>3, <1>5, <2>1 DEF AbstractPanel!Fail, PanelGlass, Image
  <1>6. CASE /\ ~failed' /\ ~keyframe_owed' /\ hashes' \in Image
             /\ age' = Ageing(px, hashes')
             /\ \A s \in Strips : hashes'[s] = px[s] \/ hashes'[s] = hashes[s]
    <2>1. Lit'
      BY <1>3, <1>6, ImageNotEmpty DEF Lit, Streaming, Presented, WakingDark, NoImage
    <2>2. PanelGlass' = hashes'
      <3>1. GlassIsLedger'
        BY GlassIsImage, PTL
      <3> QED BY <2>1, <3>1 DEF GlassIsLedger
    <2>3. \A s \in Strips : age'[s] < SweepPeriod
      <3>1. MissedRectBounded'
        BY IInvImplies, PTL
      <3> QED BY <1>6, <3>1 DEF MissedRectBounded
    <2>4. age' = [s \in Strips |-> IF hashes'[s] = surface'[s] THEN 0 ELSE age[s] + 1]
      BY <1>3, <1>6 DEF Ageing
    <2>5. \A s \in Strips : hashes'[s] \in {surface'[s], hashes[s]}
      BY <1>3, <1>6
    <2> QED BY <1>3, <1>6, <2>2, <2>3, <2>4, <2>5
            DEF AbstractPanel!Show, PanelGlass, Image
  <1>7. CASE /\ owed = {} /\ keyframe_owed' = K /\ age' = Ageing(px, hashes)
             /\ UNCHANGED <<hashes, failed>>
    <2>1. ~K
      <3>1. <<0, 0>> \in Strips
        BY LedgerAssumption DEF Strips
      <3> QED BY <1>7, <3>1 DEF Owed
    <2>2. hashes \in Image
      BY <1>1, <2>1, PlanReads
    <2> QED BY <1>6, <1>7, <2>1, <2>2
  <1>8. CASE /\ hashes' = hash /\ keyframe_owed' = FALSE
             /\ age' = Ageing(px, hash) /\ failed' = failed
    BY <1>2, <1>6, <1>8
  <1> QED BY <1>4, <1>5, <1>7, <1>8

\* Every step of the head is a step of the panel.
LEMMA StepImplements ==
  ASSUME RingDividesWrap, IInv, IInv', [Next]_vars
  PROVE  [AbstractPanel!Next]_(AbstractPanel!vars)
  <1>1. CASE Frame
    <2>1. PICK px \in [Strips -> Content], marked \in SUBSET Strips,
               usable \in BOOLEAN, reload \in BOOLEAN :
            ~failed /\ Present(px, usable, marked, reload)
      BY <1>1 DEF Frame
    <2> QED BY <2>1, PresentShows DEF Image, AbstractPanel!Next
  <1>2. CASE Repaint
    <2>1. PICK reload \in BOOLEAN :
            /\ ~failed /\ (\E s \in Strips : surface[s] # None)
            /\ Present(surface, FALSE, {}, reload)
      BY <1>2 DEF Repaint
    <2>2. surface \in Image
      BY <2>1 DEF IInv, LedgerInv, NoImage
    <2>3. {} \in SUBSET Strips /\ FALSE \in BOOLEAN
      OBVIOUS
    <2> QED BY <2>1, <2>2, <2>3, PresentShows DEF AbstractPanel!Next
  <1>3. CASE Blank
    <2>1. UNCHANGED <<surface, hashes, age>>
      BY <1>3 DEF Blank, ledger
    <2> QED BY <2>1, GlassOnly DEF AbstractPanel!Next
  <1>4. CASE RefreshTick
    <2>1. surface' = surface /\ age' = age /\ hashes' \in {hashes, pending}
      BY <1>4 DEF RefreshTick, Refresh
    <2>2. pending = hashes
      BY <1>4 DEF RefreshTick, Refresh, CanRefresh, IInv, LedgerInv
    <2> QED BY <2>1, <2>2, GlassOnly DEF AbstractPanel!Next
  <1>5. CASE EditTone \/ EditCal \/ OtherHeadReload
    <2>1. UNCHANGED <<surface, hashes, age>>
      BY <1>5 DEF EditTone, EditCal, OtherHeadReload, ledger
    <2> QED BY <2>1, GlassOnly DEF AbstractPanel!Next
  <1>6. CASE Restart
    <2>1. ~Lit'
      BY <1>6 DEF Restart, Lit, Streaming, Presented
    <2> QED BY <1>6, <2>1 DEF Restart, AbstractPanel!Next, AbstractPanel!SetUp,
                              AbstractPanel!Off, AbstractPanel!Nothing
  <1>7. CASE UNCHANGED vars
    <2>1. UNCHANGED <<surface, hashes, age>>
      BY <1>7 DEF vars, ledger
    <2> QED BY <2>1, GlassOnly DEF AbstractPanel!Next
  <1> QED BY <1>1, <1>2, <1>3, <1>4, <1>5, <1>6, <1>7 DEF Next

\* The driver implements the panel: no interleaving shows a torn image, or
\* one staler than the sweep allows.
THEOREM HeadImplementsPanel ==
  ASSUME RingDividesWrap
  PROVE  Spec => ImplementsPanel
  <1>1. Init => AbstractPanel!Off
    BY DEF Init, AbstractPanel!Off, AbstractPanel!Nothing, Lit, Streaming, Presented
  <1>2. IInv /\ IInv' /\ [Next]_vars => [AbstractPanel!Next]_(AbstractPanel!vars)
    BY StepImplements
  <1> QED BY <1>1, <1>2, Invariance, PTL DEF Spec, ImplementsPanel, AbstractPanel!Spec
-----------------------------------------------------------------------------
(* No patchwork.                                                           *)

\* Every cached strip was encoded at one setting, and at the one installed
\* unless a re-encode is due.
TagInv ==
  ~failed /\ hashes \in Image =>
    /\ \A s, t \in Strips : body[s].tag = body[t].tag
    /\ ~recode => \A s \in Strips : body[s].tag = Tag(tone, cal)

\* A frame that is not told to re-encode adds strips at the installed setting
\* to a cache that is at it; one that is replaces the cache whole.
LEMMA PresentKeepsTags ==
  ASSUME IInv, TagInv, ~failed,
         NEW px \in Image, NEW marked \in SUBSET Strips,
         NEW usable \in BOOLEAN, NEW reload \in BOOLEAN,
         Present(px, usable, marked, reload)
  PROVE  TagInv'
  <1> DEFINE K == Keyframe(reload)
             hash == FrameHash(px, usable, marked, reload)
             owed == Owed(K, FrameDebt(hash))
             fresh == FrameBodies(px, hash, owed, reload)
             tag == Tag(toneStore, IF reload THEN calStore ELSE cal)
  <1>1. TypeOK /\ LedgerInv
    BY DEF IInv
  <1>2. tone' = toneStore /\ cal' = IF reload THEN calStore ELSE cal
    BY DEF Present, InstallCorrection
  <1>3. ~NeedsRecode(reload) => ~recode /\ tag = Tag(tone, cal)
    BY DEF NeedsRecode, Recal
  <1>4. ~K => hashes \in Image /\ ~NeedsRecode(reload)
    BY <1>1, PlanReads DEF Keyframe
  <1>5. K => owed = Strips
    BY DEF Owed
  <1>6. \/ /\ owed = {} /\ recode' = NeedsRecode(reload)
           /\ UNCHANGED <<hashes, body, failed>>
        \/ /\ body' = fresh /\ recode' = FALSE
        \/ failed' = TRUE
    BY DEF Present, FrameHash, FrameDebt, FrameBodies
  <1>7. tag = Tag(tone', cal')
    BY <1>2
  <1> HIDE DEF K, hash
  <1>8. CASE owed = {} /\ recode' = NeedsRecode(reload) /\ UNCHANGED <<hashes, body, failed>>
    <2>1. ~K
      <3>1. <<0, 0>> \in Strips
        BY LedgerAssumption DEF Strips
      <3> QED BY <1>5, <1>8, <3>1
    <2> QED BY <1>3, <1>4, <1>7, <1>8, <2>1 DEF TagInv
  <1>9. CASE body' = fresh /\ recode' = FALSE
    <2>1. ASSUME NEW s \in Strips PROVE fresh[s].tag = tag
      <3>1. body[s] # None /\ ~NeedsRecode(reload) => body[s].tag = tag
        <4>1. CASE hashes \in Image
          BY <1>3, <4>1 DEF TagInv
        <4>2. CASE hashes = NoImage
          BY <1>1, <4>2 DEF LedgerInv, NoImage
        <4> QED BY <1>1, <4>1, <4>2 DEF LedgerInv
      <3>2. fresh[s] = IF s \in owed
                       THEN Encoded(s, px[s], hash[s], NeedsRecode(reload), tag)
                       ELSE body[s]
        BY DEF FrameBodies
      <3> HIDE DEF fresh, owed, tag
      <3>3. CASE s \in owed
        BY <3>1, <3>2, <3>3 DEF Encoded
      <3>4. CASE s \notin owed
        <4>1. ~K
          BY <1>5, <3>4
        <4>2. body[s] # None
          BY <1>1, <1>4, <4>1, ScanoutAssumption DEF LedgerInv
        <4> QED BY <1>4, <3>1, <3>2, <3>4, <4>1, <4>2
      <3> QED BY <3>3, <3>4
    <2> HIDE DEF fresh, tag
    <2> QED BY <1>7, <1>9, <2>1 DEF TagInv
  <1>10. CASE failed' = TRUE
    BY <1>10 DEF TagInv
  <1> QED BY <1>6, <1>8, <1>9, <1>10

LEMMA NextKeepsTags ==
  ASSUME IInv, TagInv, [Next]_vars
  PROVE  TagInv'
  <1>1. CASE Frame
    BY <1>1, PresentKeepsTags DEF Frame, Image
  <1>2. CASE Repaint
    <2>1. PICK reload \in BOOLEAN :
            /\ ~failed /\ (\E s \in Strips : surface[s] # None)
            /\ Present(surface, FALSE, {}, reload)
      BY <1>2 DEF Repaint
    <2>2. surface \in Image
      BY <2>1 DEF IInv, LedgerInv, NoImage
    <2>3. {} \in SUBSET Strips /\ FALSE \in BOOLEAN
      OBVIOUS
    <2> QED BY <2>1, <2>2, <2>3, PresentKeepsTags
  <1>3. CASE Blank
    BY <1>3 DEF Blank, TagInv, ledger, settings, Image
  <1>4. CASE RefreshTick
    <2>1. PICK reload \in BOOLEAN, keepalive \in BOOLEAN : Refresh(reload, keepalive)
      BY <1>4 DEF RefreshTick
    <2>2. body' = body /\ hashes' = hashes
      BY <2>1 DEF Refresh, CanRefresh, IInv, LedgerInv
    <2>3. ~failed' => ~failed
      BY <2>1 DEF Refresh, CanRefresh
    <2>4. CASE NeedsRecode(reload)
      BY <2>1, <2>2, <2>3, <2>4 DEF Refresh, TagInv, Image
    <2>5. CASE ~NeedsRecode(reload)
      <3>1. tone' = tone /\ cal' = cal
        BY <2>1, <2>5 DEF Refresh, InstallCorrection, NeedsRecode, Recal
      <3>2. recode' = recode
        BY <2>1, <2>5 DEF Refresh
      <3> QED BY <2>2, <2>3, <3>1, <3>2 DEF TagInv, Image
    <2> QED BY <2>4, <2>5
  <1>5. CASE EditTone \/ EditCal
    BY <1>5 DEF EditTone, EditCal, TagInv, ledger, Image
  <1>6. CASE OtherHeadReload
    BY <1>6 DEF OtherHeadReload, TagInv, ledger, Image
  <1>7. CASE Restart
    <2>1. hashes' = NoImage
      BY <1>7 DEF Restart, NoImage
    <2> QED BY <2>1, ImageNotEmpty DEF TagInv, Image, NoImage
  <1>8. CASE UNCHANGED vars
    BY <1>8 DEF vars, ledger, settings, TagInv, Image
  <1> QED BY <1>1, <1>2, <1>3, <1>4, <1>5, <1>6, <1>7, <1>8 DEF Next

\* Tiles encoded at two settings never share the glass: while a change of the
\* settings waits, the glass keeps the old ones or is black, and the frame that
\* brings the new ones replaces every tile (apply_head_correction).
THEOREM SettingsNeverMix ==
  ASSUME RingDividesWrap
  PROVE  Spec => []NoPatchwork
  <1>1. Init => TagInv
    BY ImageNotEmpty DEF Init, TagInv, NoImage
  <1>2. IInv /\ TagInv /\ [Next]_vars => TagInv'
    BY NextKeepsTags
  <1>3. IInv /\ TagInv => NoPatchwork
    <2>1. ASSUME IInv, TagInv, Streaming, NEW s \in Strips, NEW t \in Strips
          PROVE  bufs[shown][s].tag = bufs[shown][t].tag
      <3>1. CASE WakingDark
        BY <3>1 DEF WakingDark
      <3>2. CASE ~WakingDark
        <4>1. bufs[shown][s] = body[s] /\ bufs[shown][t] = body[t]
          BY <2>1, <3>2 DEF IInv, GlassInv
        <4>2. ~failed /\ hashes \in Image
          BY <2>1 DEF IInv, LedgerInv, Streaming, Presented, NoImage
        <4> QED BY <2>1, <4>1, <4>2 DEF TagInv
      <3> QED BY <3>1, <3>2
    <2> QED BY <2>1 DEF NoPatchwork
  <1> QED BY <1>1, <1>2, <1>3, Invariance, PTL DEF Spec

-----------------------------------------------------------------------------
(* No setting is forgotten.                                                *)

\* A lit panel that owes a keyframe owes it to a settings change.
OweInv == Streaming /\ keyframe_owed => recode

\* A frame leaves no keyframe owed unless it fails the head.
LEMMA PresentOwes ==
  ASSUME IInv, ~failed, NEW px \in Image, NEW marked \in SUBSET Strips,
         NEW usable \in BOOLEAN, NEW reload \in BOOLEAN,
         Present(px, usable, marked, reload)
  PROVE  failed' \/ ~keyframe_owed'
  <1> DEFINE owed == Owed(Keyframe(reload), FrameDebt(FrameHash(px, usable, marked, reload)))
  <1>1. \/ owed = {} /\ keyframe_owed' = Keyframe(reload)
        \/ keyframe_owed' = FALSE
        \/ failed' = TRUE
    BY DEF Present, FrameHash, FrameDebt
  <1>2. owed = {} => ~Keyframe(reload)
    <2>1. <<0, 0>> \in Strips
      BY LedgerAssumption DEF Strips
    <2> QED BY <2>1 DEF Owed
  <1> QED BY <1>1, <1>2

LEMMA NextKeepsOwed ==
  ASSUME IInv, OweInv, [Next]_vars
  PROVE  OweInv'
  <1>1. CASE Frame
    <2>1. failed' \/ ~keyframe_owed'
      BY <1>1, PresentOwes DEF Frame, Image
    <2> QED BY <2>1 DEF OweInv, Streaming
  <1>2. CASE Repaint
    <2>1. PICK reload \in BOOLEAN :
            /\ ~failed /\ (\E s \in Strips : surface[s] # None)
            /\ Present(surface, FALSE, {}, reload)
      BY <1>2 DEF Repaint
    <2>2. surface \in Image
      BY <2>1 DEF IInv, LedgerInv, NoImage
    <2>3. failed' \/ ~keyframe_owed'
      BY <2>1, <2>2, PresentOwes
    <2> QED BY <2>3 DEF OweInv, Streaming
  <1>3. CASE Blank
    BY <1>3 DEF Blank, OweInv, Streaming
  <1>4. CASE RefreshTick
    <2>1. PICK reload \in BOOLEAN, keepalive \in BOOLEAN : Refresh(reload, keepalive)
      BY <1>4 DEF RefreshTick
    <2> DEFINE K == keyframe_owed \/ blanked \/ (keepalive /\ Presented)
    <2>2. \/ recode'
          \/ Owed(K, debt) = {} /\ keyframe_owed' = K
          \/ ~keyframe_owed'
          \/ failed'
      BY <2>1 DEF Refresh
    <2>3. Owed(K, debt) = {} => ~K
      <3>1. <<0, 0>> \in Strips
        BY LedgerAssumption DEF Strips
      <3> QED BY <3>1 DEF Owed
    <2> HIDE DEF K
    <2> QED BY <2>2, <2>3 DEF OweInv, Streaming
  <1>5. CASE EditTone \/ EditCal
    BY <1>5 DEF EditTone, EditCal, OweInv, Streaming, Presented, ledger
  <1>6. CASE OtherHeadReload
    BY <1>6 DEF OtherHeadReload, OweInv
  <1>7. CASE Restart
    BY <1>7 DEF Restart, OweInv, Streaming, Presented
  <1>8. CASE UNCHANGED vars
    BY <1>8 DEF vars, ledger, settings, OweInv, Streaming, Presented
  <1> QED BY <1>1, <1>2, <1>3, <1>4, <1>5, <1>6, <1>7, <1>8 DEF Next

\* While a lit panel shows a strip at other settings than the ones saved, the
\* clock has something left to find: what SettingsReachPanel needs of safety.
THEOREM EditsAreNotForgotten ==
  ASSUME RingDividesWrap
  PROVE  Spec => []NoSettingIsForgotten
  <1>1. Init => TagInv /\ OweInv
    BY ImageNotEmpty DEF Init, TagInv, NoImage, OweInv, Streaming, Presented
  <1>2. IInv /\ TagInv /\ OweInv /\ [Next]_vars => TagInv' /\ OweInv'
    BY NextKeepsTags, NextKeepsOwed
  <1>3. IInv /\ TagInv /\ OweInv => NoSettingIsForgotten
    <2>1. ASSUME IInv, TagInv, OweInv, Streaming,
                 ~recode, tone = toneStore, cal = calStore, NEW s \in Strips
          PROVE  bufs[shown][s] \in Body /\ bufs[shown][s].tag = Tag(toneStore, calStore)
      <3>1. bufs[shown][s] = body[s]
        BY <2>1 DEF OweInv, WakingDark, IInv, GlassInv
      <3>2. hashes \in Image /\ ~failed
        BY <2>1 DEF IInv, LedgerInv, Streaming, Presented, NoImage
      <3>3. body[s] \in Body
        BY <2>1, <3>2 DEF IInv, LedgerInv
      <3>4. body[s].tag = Tag(tone, cal)
        BY <2>1, <3>2 DEF TagInv
      <3> QED BY <2>1, <3>1, <3>3, <3>4
    <2> QED BY <2>1 DEF NoSettingIsForgotten
  <1> QED BY <1>1, <1>2, <1>3, Invariance, PTL DEF Spec

-----------------------------------------------------------------------------
(* Debt is paid off.                                                       *)

PaidStep ==
  ~failed /\ ~failed' /\ surface' = surface =>
    /\ \A s \in Strips : debt'[s] > debt[s] =>
           \E t \in MacroTile(s) : hashes[t] # surface[t] /\ hashes'[t] = surface[t]
    /\ \A t \in Strips : hashes[t] = surface[t] => hashes'[t] = surface[t]
    /\ Tick /\ ~recode' => \A s \in Strips : debt[s] > 0 => debt'[s] < debt[s]

\* What settling does to the debt of each strip.
LEMMA SettleFacts ==
  ASSUME NEW owing \in [Strips -> 0 .. Repeats], NEW keyframe \in BOOLEAN, NEW s \in Strips
  PROVE  /\ Settled(keyframe, owing)[s] <= owing[s]
         /\ owing[s] > 0 => Settled(keyframe, owing)[s] < owing[s]
  <1>1. owing[s] \in Nat
    BY LedgerAssumption
  <1>2. Settled(keyframe, owing)[s] = IF keyframe \/ owing[s] = 0 THEN 0 ELSE owing[s] - 1
    BY DEF Settled
  <1> QED BY <1>1, <1>2

\* A strip is charged only for a change in its macro tile.
LEMMA ChargeHasCause ==
  ASSUME debt \in [Strips -> 0 .. Repeats], NEW hash, NEW s \in Strips,
         FrameDebt(hash)[s] # debt[s]
  PROVE  \E t \in MacroTile(s) : hash[t] # hashes[t]
  BY DEF FrameDebt, Charge

\* A frame of a still desktop charges only for what the sweep has just found,
\* and what it found is in the ledger from then on.
LEMMA PresentPays ==
  ASSUME IInv, ~failed, ~failed', surface \in Image, NEW marked \in SUBSET Strips,
         NEW usable \in BOOLEAN, NEW reload \in BOOLEAN,
         Present(surface, usable, marked, reload)
  PROVE  /\ \A s \in Strips : debt'[s] > debt[s] =>
               \E t \in MacroTile(s) : hashes[t] # surface[t] /\ hashes'[t] = surface[t]
         /\ \A t \in Strips : hashes[t] = surface[t] => hashes'[t] = surface[t]
  <1> DEFINE K == Keyframe(reload)
             hash == FrameHash(surface, usable, marked, reload)
             charged == FrameDebt(hash)
  <1>1. TypeOK /\ LedgerInv
    BY DEF IInv
  <1>2. \A t \in Strips : hash[t] = surface[t] \/ hash[t] = hashes[t]
    BY <1>1, PlanReads
  <1>3. \/ UNCHANGED <<hashes, debt>>
        \/ hashes' = hash /\ debt' = Settled(K, charged)
    BY DEF Present, FrameHash, FrameDebt
  <1>4. debt \in [Strips -> 0 .. Repeats]
    BY <1>1 DEF TypeOK
  <1>5. charged \in [Strips -> 0 .. Repeats] /\ K \in BOOLEAN
    BY <1>1, <1>4, ChargeFacts DEF Keyframe, NeedsRecode, Recal, TypeOK
  <1>6. \A s \in Strips : charged[s] # debt[s] => \E t \in MacroTile(s) : hash[t] # hashes[t]
    BY <1>4, ChargeHasCause
  <1> HIDE DEF hash, charged, K
  <1>7. CASE UNCHANGED <<hashes, debt>>
    <2>1. \A s \in Strips : debt[s] \in Nat
      BY <1>4, LedgerAssumption
    <2> QED BY <1>7, <2>1
  <1>8. CASE hashes' = hash /\ debt' = Settled(K, charged)
    <2>1. ASSUME NEW s \in Strips, debt'[s] > debt[s]
          PROVE  \E t \in MacroTile(s) : hashes[t] # surface[t] /\ hashes'[t] = surface[t]
      <3>1. charged[s] # debt[s]
        <4>1. debt'[s] <= charged[s]
          BY <1>5, <1>8, SettleFacts
        <4>2. debt[s] \in Nat /\ charged[s] \in Nat /\ debt'[s] \in Int
          BY <1>4, <1>5, <1>8, LedgerAssumption DEF Settled
        <4> QED BY <2>1, <4>1, <4>2
      <3>2. PICK t \in MacroTile(s) : hash[t] # hashes[t]
        BY <1>6, <3>1
      <3>3. t \in Strips
        BY <3>2 DEF MacroTile
      <3> QED BY <1>2, <1>8, <3>2, <3>3
    <2>2. \A t \in Strips : hashes[t] = surface[t] => hashes'[t] = surface[t]
      BY <1>2, <1>8
    <2> QED BY <2>1, <2>2
  <1> QED BY <1>3, <1>7, <1>8

\* A tick of the clock charges nothing, and pays from every strip it owes
\* unless it finds the cache out of date.
LEMMA RefreshPays ==
  ASSUME IInv, ~failed', NEW reload \in BOOLEAN, NEW keepalive \in BOOLEAN,
         Refresh(reload, keepalive)
  PROVE  /\ hashes' = hashes
         /\ \A s \in Strips : debt'[s] <= debt[s]
         /\ ~recode' => \A s \in Strips : debt[s] > 0 => debt'[s] < debt[s]
  <1> DEFINE K == keyframe_owed \/ blanked \/ (keepalive /\ Presented)
  <1>1. debt \in [Strips -> 0 .. Repeats] /\ K \in BOOLEAN
    BY DEF IInv, TypeOK, Presented
  <1>2. \A s \in Strips : debt[s] \in Nat
    BY <1>1, LedgerAssumption
  <1>3. hashes' = hashes
    BY DEF Refresh, CanRefresh, IInv, LedgerInv
  <1>4. \/ recode' = TRUE /\ debt' = debt
        \/ Owed(K, debt) = {} /\ debt' = debt
        \/ debt' = Settled(K, debt)
    BY DEF Refresh
  <1> HIDE DEF K
  <1>5. CASE recode' = TRUE /\ debt' = debt
    BY <1>2, <1>3, <1>5
  <1>6. CASE Owed(K, debt) = {} /\ debt' = debt
    <2>1. \A s \in Strips : ~(debt[s] > 0)
      BY <1>6 DEF Owed
    <2> QED BY <1>2, <1>3, <1>6, <2>1
  <1>7. CASE debt' = Settled(K, debt)
    BY <1>1, <1>3, <1>7, SettleFacts
  <1> QED BY <1>4, <1>5, <1>6, <1>7

\* On a still desktop debt has one cause, a change the rects had missed, which
\* the ledger then knows for good; and each tick pays: what DebtDrains needs of
\* safety.
THEOREM StillDesktopsPayOff ==
  ASSUME RingDividesWrap
  PROVE  Spec => DebtIsPaidOff
  <1>1. ASSUME IInv, IInv', [Next]_vars PROVE [PaidStep]_vars
    <2> SUFFICES ASSUME ~failed, ~failed', surface' = surface
                 PROVE  PaidStep
      BY DEF PaidStep
    <2>1. \A s \in Strips : debt[s] \in Nat /\ debt'[s] \in Nat
      BY <1>1, LedgerAssumption DEF IInv, TypeOK
    <2>2. CASE RefreshTick
      <3>1. PICK reload \in BOOLEAN, keepalive \in BOOLEAN : Refresh(reload, keepalive)
        BY <2>2 DEF RefreshTick
      <3>2. /\ hashes' = hashes
            /\ \A s \in Strips : debt'[s] <= debt[s]
            /\ ~recode' => \A s \in Strips : debt[s] > 0 => debt'[s] < debt[s]
        BY <1>1, <3>1, RefreshPays
      <3>3. \A s \in Strips : ~(debt'[s] > debt[s])
        BY <2>1, <3>2
      <3> QED BY <3>2, <3>3 DEF PaidStep
    <2> SUFFICES ASSUME ~RefreshTick
                 PROVE  PaidStep
      BY <2>2
    <2>3. ~Tick
      BY DEF Tick
    <2>4. CASE UNCHANGED <<hashes, debt>>
      BY <2>1, <2>3, <2>4 DEF PaidStep
    <2>5. CASE Frame
      <3>1. PICK px \in [Strips -> Content], marked \in SUBSET Strips,
                 usable \in BOOLEAN, reload \in BOOLEAN :
              ~failed /\ Present(px, usable, marked, reload)
        BY <2>5 DEF Frame
      <3>2. px = surface
        BY <3>1 DEF Present
      <3> QED BY <1>1, <2>3, <3>1, <3>2, PresentPays DEF PaidStep, Image
    <2>6. CASE Repaint
      <3>1. PICK reload \in BOOLEAN :
              /\ ~failed /\ (\E s \in Strips : surface[s] # None)
              /\ Present(surface, FALSE, {}, reload)
        BY <2>6 DEF Repaint
      <3>2. surface \in Image
        BY <1>1, <3>1 DEF IInv, LedgerInv, NoImage
      <3>3. {} \in SUBSET Strips /\ FALSE \in BOOLEAN
        OBVIOUS
      <3> QED BY <1>1, <2>3, <3>1, <3>2, <3>3, PresentPays DEF PaidStep
    <2>7. CASE Blank
      BY <2>4, <2>7 DEF Blank, ledger
    <2>8. CASE EditTone \/ EditCal \/ OtherHeadReload
      BY <2>4, <2>8 DEF EditTone, EditCal, OtherHeadReload, ledger
    <2>9. CASE Restart
      BY <2>9 DEF Restart
    <2>10. CASE UNCHANGED vars
      BY <2>4, <2>10 DEF vars, ledger
    <2> QED BY <1>1, <2>5, <2>6, <2>7, <2>8, <2>9, <2>10 DEF Next
  <1> QED BY <1>1, Invariance, PTL DEF Spec, DebtIsPaidOff, PaidStep
=============================================================================
