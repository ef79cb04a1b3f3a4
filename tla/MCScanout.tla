------------------------------ MODULE MCScanout ------------------------------
(* Small instances of Scanout for TLC: three rows of one strip, two of them  *)
(* in one macro tile, so charging, sweeping and repaying all differ by row.  *)
(* A strip of a head that scans out is one of StripCode's.                   *)
EXTENDS Scanout, StripCode, TLC

CONSTANTS a, b, off, dim, none, cal1

Symmetry == Permutations({a, b})

\* A content stands for any pixels.  Whatever they are, the strip of them that is on a buffer
\* of the dock was read as the encoder wrote it (wht.c:112, driver.c:1302).
StripsReadBack == \A buffer \in Buffers, s \in Strips : bufs[buffer][s] \in Body => CodeReadsBack

\* Nor does a strip that is in the cache ever fail to fit its buffers or the record it is sent
\* in, under any tone: of failures, only those of the transport are left (driver.c:1184).
EveryStripFits == \A s \in Strips : body[s] # None => StripsFit

\* The history counter stays below this bound while MissedRectBounded holds.
AgeBound == \A s \in Strips : age[s] <= SweepPeriod
=============================================================================
