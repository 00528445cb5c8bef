------------------------- MODULE MCTemporalHistory --------------------------
(***************************************************************************)
(* Instance of TemporalHistory for TLC: two models whose windows have      *)
(* four and two frames, with the reference in the middle and at the end.  *)
(* Frames a and b have hashes of their own, c shares the hash of a, u has  *)
(* none, and s is of another size.                                         *)
(***************************************************************************)
EXTENDS TemporalHistory

CONSTANTS a, b, c, d, u, s

AllFrames == {a, b, c, d, u, s}

Hashes == [f \in AllFrames |-> CASE f = a -> 1 [] f = b -> 2 [] f = c -> 1
                                 [] f = d -> 3 [] f = u -> 0 [] f = s -> 1]

Sizes == [f \in AllFrames |-> IF f = s THEN 2 ELSE 1]

TwoModels == {[frames |-> 4, ref |-> 2], [frames |-> 2, ref |-> 1]}
=============================================================================
