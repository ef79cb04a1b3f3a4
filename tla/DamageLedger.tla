---------------------------- MODULE DamageLedger ----------------------------
(***************************************************************************)
(* The damage ledger of one head (OizysCore/encode.c): which strips of the *)
(* surface still owe the dock a transmission.  This module holds the       *)
(* ledger's constants and its pure operations; Scanout.tla holds the       *)
(* ledger as state and calls them, as driver.c calls encode.c.             *)
(*                                                                         *)
(* A strip's fingerprint (two CRC32 lanes) is modelled by the content it   *)
(* identifies: collisions are left out.                                    *)
(***************************************************************************)
EXTENDS Integers

CONSTANTS
    Rows, Cols,     \* the strip grid (68 x 30 for a 1080p head)
    MacroStrips,    \* OIZYS_MACRO_STRIPS: side of the macro tile charged whole
    Repeats,        \* OIZYS_DAMAGE_REPEATS: presentations a changed strip owes
    SweepPeriod     \* OIZYS_DAMAGE_SWEEP: one row in this many is re-read

ASSUME LedgerAssumption ==
    /\ Rows \in Nat \ {0}
    /\ Cols \in Nat \ {0}
    /\ MacroStrips \in Nat \ {0}
    /\ Repeats \in Nat \ {0}
    /\ SweepPeriod \in Nat \ {0}

Strips == (0 .. Rows - 1) \X (0 .. Cols - 1)

\* Strips of the macro tile that holds strip s.
MacroTile(s) ==
    {t \in Strips : /\ t[1] \div MacroStrips = s[1] \div MacroStrips
                    /\ t[2] \div MacroStrips = s[2] \div MacroStrips}

\* Rows the verification sweep reads in phase p.
SweptBy(p) == {s \in Strips : s[1] % SweepPeriod = p}

\* Mutant: the sweep's phase never rotates.
NextPhaseStuck(p) == p
NextPhase(p) == IF p + 1 = SweepPeriod THEN 0 ELSE p + 1

-----------------------------------------------------------------------------
(* The plan: fingerprint, then charge, then report what is owed.           *)

\* A full pass is forced by an owed keyframe or an unusable rect list.
FullPass(keyframe, rectsUsable) == keyframe \/ ~rectsUsable

\* Fingerprints of this frame: read where marked, carried forward elsewhere.
Fingerprint(surface, hashes, marked) ==
    [s \in Strips |-> IF s \in marked THEN surface[s] ELSE hashes[s]]

\* Every macro tile holding a strip whose fingerprint moved owes Repeats.
Charge(pending, hashes, debt) ==
    [s \in Strips |->
        IF \E t \in MacroTile(s) : pending[t] # hashes[t] THEN Repeats ELSE debt[s]]

Owed(keyframe, debt) == {s \in Strips : keyframe \/ debt[s] > 0}

\* Mutant: a keyframe goes out once, like a delta.
PresentationsOnce(keyframe) == IF keyframe THEN 1 ELSE 1
Presentations(keyframe) == IF keyframe THEN Repeats ELSE 1

\* Mutant: a presentation pays nothing off.
SettledKeyframesOnly(keyframe, debt) ==
    [s \in Strips |-> IF keyframe THEN 0 ELSE debt[s]]

\* One frame that reached the dock: a keyframe clears the ledger, a delta
\* pays one presentation off every strip it carried.
Settled(keyframe, debt) ==
    [s \in Strips |-> IF keyframe \/ debt[s] = 0 THEN 0 ELSE debt[s] - 1]
=============================================================================
