-------------------------------- MODULE Panel --------------------------------
(***************************************************************************)
(* What a head promises the person in front of the panel, with none of the *)
(* mechanism: a lit panel shows one whole image; each strip of that image  *)
(* is the captured desktop's, or has been behind it for fewer than MaxLag  *)
(* captured frames.  Scanout.tla implements it.                            *)
(***************************************************************************)
EXTENDS Integers

CONSTANTS Strips, Content, MaxLag, None

VARIABLES
    desktop,    \* the last captured frame
    image,      \* the image the head stands by, None before the first frame
    lag,        \* per strip: captured frames for which image was behind
    glass       \* what is lit, or None: dark, or nothing is promised

vars == <<desktop, image, lag, glass>>

Nothing == [s \in Strips |-> None]

Off ==
    /\ desktop = Nothing
    /\ image = Nothing
    /\ lag = [s \in Strips |-> 0]
    /\ glass = None

\* A captured frame lights the panel with an image that is nowhere further
\* behind it than allowed.
Show ==
    /\ desktop' \in [Strips -> Content]
    /\ image' \in [Strips -> Content]
    /\ \A s \in Strips : image'[s] \in {desktop'[s], image[s]}
    /\ lag' = [s \in Strips |-> IF image'[s] = desktop'[s] THEN 0 ELSE lag[s] + 1]
    /\ \A s \in Strips : lag'[s] < MaxLag
    /\ glass' = image'

\* The panel goes dark, or comes back with the image it had.
Darken == glass' = None /\ UNCHANGED <<desktop, image, lag>>
Relight == image # Nothing /\ glass' = image /\ UNCHANGED <<desktop, image, lag>>

\* The head fails, on a frame or between frames: nothing is promised until
\* it has been set up again.
Fail ==
    /\ desktop' \in [Strips -> Content] \cup {desktop}
    /\ glass' = None
    /\ UNCHANGED <<image, lag>>

SetUp == Off'

Next == Show \/ Darken \/ Relight \/ Fail \/ SetUp

Spec == Off /\ [][Next]_vars
=============================================================================
