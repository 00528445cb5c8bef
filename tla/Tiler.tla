-------------------------------- MODULE Tiler --------------------------------
(***************************************************************************)
(* plugin/core/Tiler.cpp: BuildTiles lays tiles over a frame.  It calls    *)
(* BuildTileAxisStarts for the columns and then for the rows; each action  *)
(* is one round of that function's loop.  The tiles are all pairs of a     *)
(* column start and a row start.                                           *)
(***************************************************************************)
EXTENDS Integers, Sequences

CONSTANTS Extents,   \* values of width and height
          TileSizes, \* values of tile_size
          Overlaps   \* values of overlap

ASSUME TilerAssumption == Extents \subseteq Int /\ TileSizes \subseteq Int /\ Overlaps \subseteq Int

VARIABLES width, height, tile_size, overlap, \* arguments of BuildTiles
          starts, \* ["x", "y" -> the starts found on that axis]
          pos,    \* the loop variable
          axis,   \* the axis whose starts are being built
          pc      \* "enter", "loop" or "done"

vars == <<width, height, tile_size, overlap, starts, pos, axis, pc>>
arguments == <<width, height, tile_size, overlap>>

AtMost(m, n) == IF m <= n THEN m ELSE n
AtLeast(m, n) == IF m <= n THEN n ELSE m

Extent(a) == IF a = "x" THEN width ELSE height

\* clamped_tile, and the distance from one tile to the next.
ClampedTile(a) == AtLeast(1, AtMost(tile_size, Extent(a)))

StepPastTile(a) == ClampedTile(a) + AtLeast(0, overlap)
Step(a) == AtLeast(1, ClampedTile(a) - AtLeast(0, overlap))

TailStart(a) == Extent(a) - ClampedTile(a)

Last(s) == s[Len(s)]

Init ==
    /\ width \in Extents
    /\ height \in Extents
    /\ tile_size \in TileSizes
    /\ overlap \in Overlaps
    /\ starts = [a \in {"x", "y"} |-> <<>>]
    /\ pos = 0
    /\ axis = "x"
    /\ pc = "enter"

\* After the columns the rows; after the rows BuildTiles is done.
RowsAgain ==
    /\ axis' = "y"
    /\ pc' = "enter"

NextAxis ==
    /\ axis' = "y"
    /\ pc' = IF axis = "x" THEN "enter" ELSE "done"

\* BuildTiles has no tiles for a frame or a tile without an extent.
NoTiles ==
    /\ pc = "enter"
    /\ width <= 0 \/ height <= 0 \/ tile_size <= 0
    /\ pc' = "done"
    /\ UNCHANGED <<arguments, starts, pos, axis>>

\* The first tile starts at the edge; on a short axis it is the only one.
FirstTile ==
    /\ pc = "enter"
    /\ width > 0 /\ height > 0 /\ tile_size > 0
    /\ starts' = [starts EXCEPT ![axis] = <<0>>]
    /\ IF Extent(axis) <= ClampedTile(axis)
         THEN NextAxis /\ UNCHANGED pos
         ELSE pos' = Step(axis) /\ pc' = "loop" /\ UNCHANGED axis
    /\ UNCHANGED arguments

\* A round of the loop, while a whole tile still ends before the edge.
StartsBeforeEdge(a, p) == p < Extent(a)
FitsBeforeEdge(a, p) == p + ClampedTile(a) < Extent(a)

NextTile ==
    /\ pc = "loop"
    /\ FitsBeforeEdge(axis, pos)
    /\ starts' = [starts EXCEPT ![axis] = Append(@, pos)]
    /\ pos' = pos + Step(axis)
    /\ UNCHANGED <<arguments, axis, pc>>

\* The last tile ends at the edge, whatever the step leaves over.
NoTailTile ==
    /\ pc = "loop"
    /\ ~FitsBeforeEdge(axis, pos)
    /\ NextAxis
    /\ UNCHANGED <<arguments, starts, pos>>

TailTile ==
    /\ pc = "loop"
    /\ ~FitsBeforeEdge(axis, pos)
    /\ IF Last(starts[axis]) # TailStart(axis)
         THEN starts' = [starts EXCEPT ![axis] = Append(@, TailStart(axis))]
         ELSE UNCHANGED starts
    /\ NextAxis
    /\ UNCHANGED <<arguments, pos>>

BuildTiles == NoTiles \/ FirstTile \/ NextTile \/ TailTile

Next == BuildTiles

Spec == Init /\ [][Next]_vars

\* One thread runs the loop to its end.
FairSpec == Spec /\ WF_vars(BuildTiles)

-----------------------------------------------------------------------------
\* The pixels of axis a that a tile starting at s reaches.
Reached(a, s) == s..(s + ClampedTile(a) - 1)

\* Types of the starts and of the loop.
TypeOK ==
    /\ width \in Extents /\ height \in Extents
    /\ tile_size \in TileSizes /\ overlap \in Overlaps
    /\ starts \in [{"x", "y"} -> Seq(Nat)]
    /\ pos \in Nat
    /\ axis \in {"x", "y"}
    /\ pc \in {"enter", "loop", "done"}

HasTiles == width > 0 /\ height > 0 /\ tile_size > 0

\* Every pixel of a frame lies in a tile, whatever the frame, the tile and
\* the overlap: ComposeTiles leaves no pixel at the zero it was filled with.
EveryPixelIsCovered ==
    pc = "done" /\ HasTiles =>
      \A x \in 0..(width - 1), y \in 0..(height - 1) :
        \E i \in DOMAIN starts["x"], j \in DOMAIN starts["y"] :
          x \in Reached("x", starts["x"][i]) /\ y \in Reached("y", starts["y"][j])

\* A tile never leaves the frame, and no tile is laid twice: a second copy
\* would count double in the weights of ComposeTiles.
TilesAreApartAndInside ==
    \A a \in {"x", "y"} :
      /\ \A i \in DOMAIN starts[a] : Reached(a, starts[a][i]) \subseteq 0..(Extent(a) - 1)
      /\ \A i, j \in DOMAIN starts[a] : i < j => starts[a][i] < starts[a][j]

\* Tiles next to each other share at least the overlap that was asked for,
\* or all but one pixel when it is larger than the tile: the seam is blended.
NeighboursOverlap ==
    \A a \in {"x", "y"} :
      \A i \in 1..(Len(starts[a]) - 1) :
        starts[a][i] + ClampedTile(a) - starts[a][i + 1]
          >= AtMost(AtLeast(0, overlap), ClampedTile(a) - 1)

\* The loop ends, also when the overlap is as large as the tile.
TilingEnds == <>(pc = "done")
=============================================================================
