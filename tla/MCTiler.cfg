CONSTANTS
    Extents <- MCExtents
    TileSizes <- MCTileSizes
    Overlaps <- MCOverlaps
SPECIFICATION FairSpec
INVARIANTS
    EveryPixelIsCovered
    TilesAreApartAndInside
    NeighboursOverlap
PROPERTY TilingEnds
CHECK_DEADLOCK FALSE
