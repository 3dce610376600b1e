SPECIFICATION Spec
CONSTANTS
    Tiles <- MCTiles
    Malformed = Malformed
    TileFiles <- MCTileFiles
CHECK_DEADLOCK FALSE
INVARIANTS
    CoversTile
    InsideTheWorld
    KeyTellsTile
PROPERTY
    EveryTileComes
