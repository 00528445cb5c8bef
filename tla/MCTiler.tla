------------------------------- MODULE MCTiler -------------------------------
(***************************************************************************)
(* Instance of Tiler for TLC.  Extents and tiles from below zero to        *)
(* several tiles per axis, overlaps from negative to larger than a tile.   *)
(***************************************************************************)
EXTENDS Tiler

MCExtents == {0, 1, 4, 7}
MCTileSizes == -1..8
MCOverlaps == -1..4
=============================================================================
