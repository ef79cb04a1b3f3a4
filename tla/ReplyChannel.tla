----------------------------- MODULE ReplyChannel -----------------------------
(***************************************************************************)
(* What a session promises about the replies of the dock: a bounded FIFO   *)
(* that never loses one silently while the session is strict, and keeps    *)
(* the newest ones once it is lossy.                                       *)
(***************************************************************************)
EXTENDS Naturals, Sequences

CONSTANTS
    Capacity,       \* replies held
    Replies,        \* what the dock may send
    None            \* not one of them

VARIABLES
    taken,          \* the last reply taken
    held,           \* the replies not taken yet, oldest first
    strict,         \* a reply lost is a session failed
    broken          \* nothing more is taken from the wire

vars == <<taken, held, strict, broken>>

Init == taken = None /\ held = << >> /\ strict = TRUE /\ broken = FALSE

Arrive(m) ==
    /\ ~broken
    /\ IF Len(held) < Capacity
       THEN held' = Append(held, m) /\ UNCHANGED broken
       ELSE IF strict
       THEN broken' = TRUE /\ UNCHANGED held
       ELSE held' = Append(Tail(held), m) /\ UNCHANGED broken
    /\ UNCHANGED <<strict, taken>>

Take ==
    /\ held # << >>
    /\ taken' = Head(held) /\ held' = Tail(held)
    /\ UNCHANGED <<strict, broken>>

Break ==
    /\ broken' = TRUE
    /\ UNCHANGED <<taken, held, strict>>

Relax ==
    /\ strict' = FALSE
    /\ UNCHANGED <<taken, held, broken>>

Next == (\E m \in Replies : Arrive(m)) \/ Take \/ Break \/ Relax

Spec == Init /\ [][Next]_vars
===============================================================================
