--------------------------- MODULE SlidingWindow ----------------------------
(***************************************************************************)
(* What a model that sees several frames at once is promised: the frames   *)
(* it is given are the last ones of the scene in the order they came, with *)
(* the frame asked for at the reference place.  Places before the first    *)
(* frame of the scene and after the last hold the nearest one.  How the    *)
(* frames are kept is TemporalHistory's business.                          *)
(***************************************************************************)
EXTENDS Integers, Sequences

CONSTANTS Frames,  \* prepared inputs
          HashOf,  \* [Frames -> Nat], 0 for none
          Models   \* records: frames, the length of a window, and ref

VARIABLES model,   \* the model that is selected
          scene,   \* the frames of the window's scene, oldest first
          named,   \* the last hash that was not 0
          window   \* the last window that was built

vars == <<model, scene, named, window>>

Nearest(i, n) == IF i < 1 THEN 1 ELSE IF i > n THEN n ELSE i

\* The window of length m.frames with the last frame at the reference place.
View(s, m) ==
    [t \in 0..(m.frames - 1) |-> s[Nearest(Len(s) + (t - m.ref), Len(s))]]

\* The last n frames after f came.
Slide(s, f, n) == IF Len(s) < n THEN Append(s, f) ELSE Append(Tail(s), f)

Init ==
    /\ model \in Models
    /\ scene = <<>>
    /\ named = 0
    /\ window = <<>>

\* The model is loaded again or another one is: nothing of before is shown.
Select(m) ==
    /\ model' = m
    /\ scene' = <<>>
    /\ named' = 0
    /\ UNCHANGED window

\* f comes: it is the frame that was named last, or it follows the others,
\* or a new scene starts with it.
Show(f) ==
    /\ \/ scene # <<>> /\ HashOf[f] # 0 /\ HashOf[f] = named /\ scene' = scene
       \/ scene' = Slide(scene, f, model.frames)
       \/ scene' = <<f>>
    /\ window' = View(scene', model)
    /\ named' \in {named, HashOf[f]}
    /\ UNCHANGED model

Next ==
    \/ \E m \in Models : Select(m)
    \/ \E f \in Frames : Show(f)

Spec == Init /\ [][Next]_vars
=============================================================================
