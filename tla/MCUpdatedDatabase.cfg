SPECIFICATION UpdatedSpec
CONSTANTS
    NodeIds = {1, 2, 3}
    WayIds = {1, 2}
    RelationIds = {1, 2}
    Tiles = {"a"}
    TileLists <- MCTileLists
    OldFiles <- MCOldFiles
    Databases <- MCDatabases
    Configs <- MCConfigs
    MaxUpdates = 2
CHECK_DEADLOCK FALSE
INVARIANTS
    StayingObjectsWritten
    StayingPartsWritten
    ObjectsWereThere
PROPERTIES
    RoundsAreAtomic
    UpdatedTerminates
