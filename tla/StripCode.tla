------------------------------ MODULE StripCode ------------------------------
(***************************************************************************)
(* The code of one strip: what wht.c makes of the pixels of a 64x16 strip, *)
(* and the tables by which driver.c tells the dock to read it.  The two    *)
(* are written apart and have to agree bit for bit; the dock reports no    *)
(* error when they do not, and decodes the rest of the half-strip off by   *)
(* one bit.                                                                *)
(*                                                                         *)
(* A stream is a sequence of bits in the order they are written.  A block  *)
(* of a plane is a function on Cells, <<row, column>>.  Nothing here has   *)
(* state: a strip is a function of its pixels and of the tone.             *)
(***************************************************************************)
EXTENDS Integers, Sequences, FiniteSets
LOCAL INSTANCE SequencesExt
LOCAL INSTANCE FiniteSetsExt

Blocks == 0 .. 15       \* 8 by 2, row by row
Planes == 0 .. 2        \* blue difference, red difference, luma
Luma == 2
Cells == (0 .. 7) \X (0 .. 7)
Scans == 0 .. 63

------------------------------------------------------------------------------
(* From pixels to coefficients.                                            *)

Clamp(low, value, high) == IF value < low THEN low ELSE IF value > high THEN high ELSE value

\* Contrast about the middle, then brightness from black; both in 256ths, set within limits.
ToneMap(level, gain, contrast) ==
    LET shaped == Clamp(0, 128 + ((level - 128) * Clamp(128, contrast, 384) + 128) \div 256, 255)
    IN Clamp(0, (shaped * Clamp(0, gain, 256) + 128) \div 256, 255)

\* What the converter reads for a level of red, green or blue.  `lut` is the calibration's
\* table of the channel; at unity it is read as it is.
ActiveLut(lut, channel, gain, contrast, warmth) ==
    LET percent == Clamp(0, warmth, 100)
        warm == CASE channel = "red" -> 256
                  [] channel = "green" -> 256 - (percent * 46) \div 100
                  [] channel = "blue" -> 256 - (percent * 123) \div 100
    IN IF gain = 256 /\ contrast = 256 /\ warmth = 0 THEN lut
       ELSE [level \in 0 .. 255 |-> (ToneMap(lut[level], gain, contrast) * warm + 128) \div 256]

\* A pixel in the encoder's fixed point.
Sample(r, g, b) ==
    [plane \in Planes |-> IF plane = Luma THEN 64 * g + 64 * (((r - g) + (b - g)) \div 4)
                          ELSE 64 * ((IF plane = 0 THEN b ELSE r) - g)]

\* Of each row, the sums of the pairs and then their differences.
Pairs(v, size) ==
    [p \in Cells |->
        LET half == size \div 2
            pair == 2 * (p[2] % half)
            left == v[<<p[1], pair>>]
            right == v[<<p[1], pair + 1>>]
        IN IF p[1] >= size \/ p[2] >= size THEN v[p]
           ELSE IF p[2] < half THEN left + right ELSE left - right]
Turned(v) == [p \in Cells |-> v[<<p[2], p[1]>>]]

\* Rows, then columns, of the whole block, of its sums, and of theirs.
HaarPyramid(block) ==
    FoldLeft(LAMBDA v, size : Turned(Pairs(Turned(Pairs(v, size)), size)), block, <<8, 4, 2>>)

ScanIndex == <<
    << 0, 63,  2, 61,  8, 10, 55, 53>>, << 1, 62,  3, 60, 12, 14, 51, 49>>,
    << 4, 59,  6, 57,  9, 11, 54, 52>>, << 5, 58,  7, 56, 13, 15, 50, 48>>,
    <<16, 18, 47, 45, 24, 26, 39, 37>>, <<20, 22, 43, 41, 28, 30, 35, 33>>,
    <<17, 19, 46, 44, 25, 27, 38, 36>>, <<21, 23, 42, 40, 29, 31, 34, 32>> >>
CellAt == [scan \in Scans |-> CHOOSE p \in Cells : ScanIndex[p[1] + 1][p[2] + 1] = scan]

\* The order in which the coefficients but the first are sent.
ScanAt(position) == IF position % 2 = 1 THEN (position + 1) \div 2 ELSE 63 - position \div 2

MixedBand(scan) == scan \in (8 .. 23) \cup (40 .. 55)

QuantShift(plane, scan) ==
    IF plane # Luma
    THEN CASE scan = 0 \/ scan \in 24 .. 39 -> 12
           [] scan \in (1 .. 5) \cup (58 .. 61) \cup {63} -> 10
           [] OTHER -> 11
    ELSE CASE scan \in {0, 1, 63} -> 10
           [] scan = 62 -> 11
           [] scan \in {6, 7, 56, 57} -> 9
           [] MixedBand(scan) -> 7
           [] OTHER -> 8

\* Rounded, but that the luma plane's mixed bands truncate what is positive.
Quantize(plane, scan, value) ==
    LET step == 2 ^ QuantShift(plane, scan)
        bias == IF plane = Luma /\ MixedBand(scan) /\ value >= 0 THEN 0 ELSE step \div 2
    IN (value + bias) \div step

\* Written with the tables that are derived once and by vectors.
QuantizeBlock(plane, transformed) ==
    [scan \in Scans |-> Quantize(plane, scan, transformed[CellAt[scan]])]

\* The coefficients of a block of pixels, those of each plane; what lies off the surface is
\* black.
Coefficients(block) ==
    [plane \in Planes |-> QuantizeBlock(plane,
        HaarPyramid([p \in Cells |-> Sample(block[p][1], block[p][2], block[p][3])[plane]]))]

------------------------------------------------------------------------------
(* From coefficients to bits.                                              *)

CapSync == 7
CapDc == 10
\* Mutant: one codebook for the coefficients of all planes.
CapAc_AsChroma(plane) == 10
CapAc(plane) == IF plane = Luma THEN 9 ELSE 10

Size(value) == IF value < 0 THEN -value ELSE value
Category(value) == CHOOSE c \in 1 .. 30 : 2 ^ (c - 1) <= Size(value) /\ Size(value) < 2 ^ c

\* The n low bits of a number, the highest first.
Low(number, n) == [i \in 1 .. n |-> (number \div 2 ^ (n - i)) % 2]

\* A category in ones, ended by a zero unless it is the last there is; what the magnitude
\* adds to the least of its category; the sign.
Coded(category, magnitude, positive, cap) ==
    [i \in 1 .. category |-> 1] \o (IF category < cap THEN <<0>> ELSE <<>>)
      \o Low(magnitude - 2 ^ (category - 1), category - 1) \o <<IF positive THEN 1 ELSE 0>>

\* A magnitude past the last category is sent as the greatest of it.
Symbol(value, cap) ==
    CASE value = 0 -> <<0>>
      [] value # 0 /\ Category(value) > cap -> Coded(cap, 2 ^ cap - 1, value > 0, cap)
      [] OTHER -> Coded(Category(value), Size(value), value > 0, cap)

\* RidgeBits: a word, or at the end a byte, goes out when it is full, and the last is filled
\* up with zeros.  `bits` is <<>> when they do not fit.
Flushed(bits, capacity) ==
    LET padded == bits \o [i \in 1 .. 7 - ((Len(bits) + 7) % 8) |-> 0]
    IN IF Len(padded) > 8 * capacity THEN <<>> ELSE padded

\* `symbols` is a sequence of <<value, cap>>.
Stream(symbols) == FlattenSeq([n \in 1 .. Len(symbols) |-> Symbol(symbols[n][1], symbols[n][2])])

\* In the order of both regions: block by block, the planes of each.
BlockPlanes(blocks) ==
    [i \in 1 .. 3 * Cardinality(blocks) |->
        [block |-> Min(blocks) + (i - 1) \div 3, plane |-> (i - 1) % 3]]

\* The scan of the last coefficient that is not zero in the order of sending; 0 for none.
LastSignificant(coefficients) ==
    LET positions == {n \in 0 .. 62 : coefficients[ScanAt(n)] # 0}
    IN IF positions = {} THEN 0 ELSE ScanAt(Max(positions))

\* How it is sent: six bits and a sign are enough.
SyncValue(plane, last) ==
    IF plane = Luma THEN last - 32 ELSE IF last >= 32 THEN last - 64 ELSE last

MainSymbols(strip) ==
    LET sync(at) == SyncValue(at.plane, LastSignificant(strip[at.block][at.plane]))
        before(at) == IF at.block = 0 THEN 0 ELSE strip[at.block - 1][at.plane][0]
        dc(at) == strip[at.block][at.plane][0] - before(at)
    IN [i \in 1 .. 48 |-> <<sync(BlockPlanes(Blocks)[i]), CapSync>>]
         \o [i \in 1 .. 48 |-> <<dc(BlockPlanes(Blocks)[i]), CapDc>>]

\* How many coefficients are sent of a plane, given its last.
Sent(last) == IF last = 0 THEN 0 ELSE 1 + CHOOSE n \in 0 .. 62 : ScanAt(n) = last

RowSymbols(strip, blocks) ==
    FlattenSeq([i \in 1 .. 3 * Cardinality(blocks) |->
        LET at == BlockPlanes(blocks)[i]
            values == strip[at.block][at.plane]
        IN [n \in 1 .. Sent(LastSignificant(values)) |-> <<values[ScanAt(n - 1)], CapAc(at.plane)>>]])

HalfStrips == <<0 .. 7, 8 .. 15>>
MainCap == 4096
RowCap == 16384
StripCap == 8192        \* of every caller

\* Header, main region and rows, each padded to an even number of bytes.
StripLength(main, row0, row1) == 16 + 2 * ((main + 1) \div 2) + 2 + 2 * ((row0 + 1) \div 2)
                                   + 2 * ((row1 + 1) \div 2)

\* The values of the three regions, in order.
Regions(strip) ==
    <<MainSymbols(strip), RowSymbols(strip, HalfStrips[1]), RowSymbols(strip, HalfStrips[2])>>

\* The strip of one colour that driver.c writes by itself, for frames that are one colour.
FlatSync == <<0, 0>> \o [i \in 1 .. 6 |-> 1] \o [i \in 1 .. 7 |-> 0]
Escape(value) ==
    IF value = 0 THEN <<0>>
    ELSE Coded(Min({Category(value), 10}), Size(value), value > 0, 10)
RoundedShift(value, shift) ==
    LET size == (Size(value) + 2 ^ (shift - 1)) \div 2 ^ shift IN IF value >= 0 THEN size ELSE -size
SolidStrip(r, g, b) ==
    LET dc(plane) == RoundedShift(Sample(r, g, b)[plane], IF plane = Luma THEN 4 ELSE 6)
        bits == FlattenSeq([i \in 1 .. 16 |-> FlatSync]) \o Escape(dc(0)) \o Escape(dc(1))
                  \o Escape(dc(2)) \o [i \in 1 .. 15 * 3 |-> 0]
    IN bits \o [i \in 1 .. 7 - ((Len(bits) + 7) % 8) |-> 0]

RecordStrideCap == 4080
RecordCap == 8192
\* Mutant: a strip goes into the record that is open, however long that is.
Appended_NoNewRecord(record, length) ==
    IF record + 2 + length + 15 > RecordCap THEN 0 ELSE record + 2 + length
\* A row of strips goes into records of 4080 bytes, or of one longer strip: the length of the
\* record a strip of `length` bytes goes into, 0 when it is refused.  `record` is the length so
\* far; 16 bytes are its header, and up to 15 fill it up.
Appended(record, length) ==
    LET into == IF record > 16 /\ record + 2 + length > RecordStrideCap THEN 16 ELSE record
    IN IF into + 2 + length + 15 > RecordCap THEN 0 ELSE into + 2 + length

------------------------------------------------------------------------------
(* How the dock is told to read it: a table a codebook, of thresholds and  *)
(* of bases, indexed by the length of the code.                            *)

EscapeThreshold(category) == 2 ^ (2 * category + 1) - 2 ^ category
MagnitudeCode(category) == (2 ^ category - 1) * (2 ^ (category + 1) - 1)

\* With a special terminal the code of all ones is followed by one bit more.
DecoderTable(maxCategory, special) ==
    LET terminal == 2 * maxCategory - 2
        mask == 2 ^ maxCategory - 1
    IN [i \in 0 .. 46 |->
        CASE i % 2 = 1 /\ i \div 2 + 1 \in 1 .. maxCategory - 1 -> EscapeThreshold(i \div 2 + 1)
          [] i % 2 = 1 /\ (i - 25) \div 2 + 1 \in 1 .. maxCategory - 1 ->
                 MagnitudeCode((i - 25) \div 2 + 1)
          [] i = terminal -> 2 ^ (2 * maxCategory) - (IF special THEN 1 ELSE 0)
          [] i = 24 + terminal -> mask * mask
          [] special /\ i = terminal + 1 -> 2 ^ (2 * maxCategory + 1)
          [] special /\ i = 25 + terminal -> (2 ^ (maxCategory + 1) - 2) * 2 ^ maxCategory
          [] OTHER -> 0]

\* The order in which build_decoder_config sends them.
Tables == <<DecoderTable(9, FALSE), DecoderTable(10, FALSE), DecoderTable(10, FALSE),
            DecoderTable(4, TRUE), DecoderTable(7, TRUE)>>
AcTable(plane) == Tables[IF plane = Luma THEN 1 ELSE 2]
DcTable == Tables[3]
SyncTable == Tables[5]

\* The dock: a zero is 0.  Otherwise the code ends at the first length at which it is below
\* the threshold, and, less its base, numbers the values -1, 1, -2, 2, ...
RECURSIVE ReadOn(_, _, _, _)
ReadOn(stream, table, n, code) ==
    LET number == code - table[22 + n]
    IN CASE n > 24 -> [value |-> 0, length |-> n]
         [] n <= 24 /\ code < table[n - 2] ->
                [length |-> n, value |-> IF number % 2 = 0 THEN number \div 2
                                         ELSE -((number + 1) \div 2)]
         [] OTHER -> ReadOn(stream, table, n + 1, 2 * code + stream[n + 1])
Read(stream, table) ==
    IF stream[1] = 0 THEN [value |-> 0, length |-> 1] ELSE ReadOn(stream, table, 2, 2 + stream[2])

\* A symbol read with a table for what it is, whatever bits follow it.
ReadsAs(symbol, table) ==
    \A bit \in {0, 1} :
        LET code == Symbol(symbol[1], symbol[2])
        IN Read(code \o [i \in 1 .. 24 |-> bit], table) = [value |-> symbol[1], length |-> Len(code)]
Taken(symbol, table) ==
    CASE ReadsAs(symbol, table) -> symbol[1]
      [] ~ReadsAs(symbol, table) /\ symbol[1] > 0 -> symbol[1] - 1
      [] OTHER -> symbol[1] + 1

\* What it makes of the symbols of a strip.
Received(regions) ==
    LET at(b, plane) == 3 * b + plane + 1
        last == [b \in Blocks |-> [plane \in Planes |->
                    LET sync == Taken(regions[1][at(b, plane)], SyncTable)
                    IN IF plane = Luma THEN sync + 32 ELSE sync % 64]]
        change == [b \in Blocks |-> [plane \in Planes |->
                    Taken(regions[1][48 + at(b, plane)], DcTable)]]
        before(b, plane) == MapThenSumSet(
            LAMBDA i : Sent(last[(b \div 8) * 8 + (i - 1) \div 3][(i - 1) % 3]),
            1 .. at(b % 8, plane) - 1)
    IN [b \in Blocks |-> [plane \in Planes |->
            LET sent == Sent(last[b][plane])
                skipped == before(b, plane)
            IN [scan \in Scans |->
                  IF scan = 0 THEN MapThenSumSet(LAMBDA k : change[k][plane], 0 .. b)
                  ELSE LET n == Sent(scan)
                       IN IF n > sent THEN 0
                          ELSE Taken(regions[2 + b \div 8][skipped + n], AcTable(plane))]]]

------------------------------------------------------------------------------
(* What holds of every strip.                                              *)

Codebooks == {<<CapDc, DcTable>>} \cup {<<CapAc(plane), AcTable(plane)>> : plane \in Planes}
EveryCodeReads ==
    /\ \A book \in Codebooks : \A value \in 1 - 2 ^ book[1] .. 2 ^ book[1] - 1 :
           ReadsAs(<<value, book[1]>>, book[2])
    /\ \A plane \in Planes, scan \in Scans :
           ReadsAs(<<SyncValue(plane, scan), CapSync>>, SyncTable)

\* Blocks of two colours in patterns that have something in each band.
Patterns == <<
    {}, {p \in Cells : p[2] < 4}, {p \in Cells : p[1] >= 4},
    {p \in Cells : (p[1] + p[2]) % 2 = 0}, {p \in Cells : p[2] % 4 < 2},
    {p \in Cells : p[1] \div 4 # p[2] \div 4}, {<<7, 6>>}, {p \in Cells : p[1] > p[2]}>>
Colours == << << <<0, 0, 0>>, <<255, 255, 255>> >>, << <<255, 0, 255>>, <<0, 255, 0>> >>,
              << <<3, 90, 17>>, <<200, 10, 60>> >> >>
Kinds == [k \in 0 .. 23 |->
    LET pair == Colours[k \div 8 + 1]
    IN Coefficients([p \in Cells |-> IF p \in Patterns[(k % 8) + 1] THEN pair[2] ELSE pair[1]])]
Pictures == {[b \in Blocks |-> Kinds[(8 * k + step * b) % 24]] : k \in 0 .. 2, step \in {0, 1, 5}}

Colour(r, g, b) == [block \in Blocks |-> Coefficients([p \in Cells |-> <<r, g, b>>])]
OneColour(r, g, b) == SolidStrip(r, g, b) = Flushed(Stream(Regions(Colour(r, g, b))[1]), MainCap)

\* What the encoder writes of a strip, the dock reads with the tables it was sent, symbol by
\* symbol and coefficient by coefficient; and the strip of one colour that driver.c writes by
\* itself is the one that wht.c writes.  Protocol.md says the luma codebook's end is
\* "load-bearing": nothing reports an error when the two files disagree.
CodeReadsBack ==
    /\ EveryCodeReads
    /\ \A picture \in Pictures : Received(Regions(picture)) = picture
    /\ \A r, g, b \in {0, 201} : OneColour(r, g, b)

\* A tone leaves a level a level, so what follows holds under every setting; and none is free.
NoCorrection == [level \in 0 .. 255 |-> level]
ToneStaysInRange ==
    \A channel \in {"red", "green", "blue"} :
        /\ ActiveLut(NoCorrection, channel, 256, 256, 0) = NoCorrection
        /\ \A gain \in {0, 100, 256}, contrast \in {128, 256, 384}, warmth \in {0, 100} :
             LET lut == ActiveLut(NoCorrection, channel, gain, contrast, warmth)
             IN \A level \in 0 .. 255 :
                    lut[level] \in 0 .. 255 /\ (level > 0 => lut[level - 1] <= lut[level])

\* The transform is linear: what a sample of 1 at q alone makes of each cell.
Weights == [q \in Cells |-> HaarPyramid([p \in Cells |-> IF p = q THEN 1 ELSE 0])]

\* The least and greatest coefficient of a scan over all blocks of pixels, whose samples are
\* at their least or greatest by the sign of their weights.
Extremes == {0, 255}
SampleRange(plane) ==
    LET samples == {Sample(r, g, b)[plane] : r, g, b \in Extremes}
    IN <<Min(samples), Max(samples)>>
BandRange(plane) ==
    LET range == SampleRange(plane)
        at(p, q, least) == Weights[q][p] * range[IF (Weights[q][p] > 0) = least THEN 1 ELSE 2]
    IN [p \in Cells |-> <<MapThenSumSet(LAMBDA q : at(p, q, TRUE), Cells),
                          MapThenSumSet(LAMBDA q : at(p, q, FALSE), Cells)>>]
CoefficientRange(plane) ==
    LET bands == BandRange(plane)
    IN [scan \in Scans |-> <<Quantize(plane, scan, bands[CellAt[scan]][1]),
                             Quantize(plane, scan, bands[CellAt[scan]][2])>>]

\* The longest code of the values of a range, and no value of it past the last category.
Longest(range, cap) == Max({Len(Symbol(range[1], cap)), Len(Symbol(range[2], cap))})
InCode(range, cap) == -(2 ^ cap) < range[1] /\ range[2] < 2 ^ cap
DcRange(plane) ==
    LET dc == CoefficientRange(plane)[0] IN <<dc[1] - dc[2], dc[2] - dc[1]>>
SyncRange == <<-32, 31>>

NothingSaturates ==
    /\ \A plane \in Planes :
        /\ InCode(DcRange(plane), CapDc)
        /\ \A scan \in Scans \ {0} : InCode(CoefficientRange(plane)[scan], CapAc(plane))
    /\ \A plane \in Planes, scan \in Scans : SyncValue(plane, scan) \in SyncRange[1] .. SyncRange[2]

Bytes(bits) == (bits + 7) \div 8
LongestMain ==
    Bytes(16 * MapThenSumSet(LAMBDA plane : Longest(SyncRange, CapSync)
                                              + Longest(DcRange(plane), CapDc), Planes))
LongestRow ==
    LET block(plane) ==
            LET range == CoefficientRange(plane)
            IN MapThenSumSet(LAMBDA scan : Longest(range[scan], CapAc(plane)), Scans \ {0})
    IN Bytes(8 * MapThenSumSet(block, Planes))
LongestStrip == StripLength(LongestMain, LongestRow, LongestRow)

\* The lengths at which a strip ceases to fit into the record that is open.
NearTheStride(record) == {RecordStrideCap - 2 - record, RecordStrideCap - 1 - record, LongestStrip}

\* No picture under any tone reaches the saturation that wht.c:119 provides for, nor a limit at
\* which a strip or its record is refused, which would end the session over one strip: the
\* tone keeps a level a level, no coefficient leaves its codebook, the longest strip there can
\* be fits its buffers, and whatever the record holds, the strip can be appended.
StripsFit ==
    /\ ToneStaysInRange /\ NothingSaturates
    /\ LongestMain <= MainCap /\ LongestRow <= RowCap /\ LongestStrip <= StripCap
    /\ \A record \in 16 .. 18 + LongestStrip :
           \A length \in NearTheStride(record) \cap (1 .. LongestStrip) : Appended(record, length) # 0
==============================================================================
