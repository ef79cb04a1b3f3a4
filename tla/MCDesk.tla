-------------------------------- MODULE MCDesk --------------------------------
(***************************************************************************)
(* A desk of two heads, the built-in panel and, as the run has it, a       *)
(* Sidecar iPad and a monitor.                                             *)
(***************************************************************************)
EXTENDS DeskRun

CONSTANTS h1, h2, lap

TwoHeads == <<h1, h2>>
OneHead == <<h1>>

\* The heads side by side; side by side elsewhere, with the rest shoved along; and apart.
Seating(first, second, rest) ==
    [d \in Displays |-> CASE d = h1 -> first [] d = h2 -> second
                          [] d = lap -> 0 [] OTHER -> rest]

OneLayout == {Seating(0, 1, 0)}
MCLayouts == {Seating(0, 1, 0), Seating(1, 2, 2), Seating(2, 0, 0)}
===============================================================================
