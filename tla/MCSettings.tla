------------------------------ MODULE MCSettings ------------------------------
(***************************************************************************)
(* A slider and a toggle; the editor sets the slider, well or badly.       *)
(***************************************************************************)
EXTENDS Settings, TLC

CONSTANTS slider, toggle

MCForeign == {slider :> 2, slider :> Invalid}
===============================================================================
