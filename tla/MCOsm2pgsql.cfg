SPECIFICATION Spec
CONSTANTS
    NodeIds = {1, 2}
    WayIds = {1, 2, 3}
    RelationIds = {1, 2, 3}
    Tiles = {"a", "b"}
    TileLists <- MCTileLists
    OldFiles <- MCOldFiles
    Databases <- MCDatabases
    Configs <- MCConfigs
    BatchSize = 2
    Pieces = 2
CHECK_DEADLOCK FALSE
INVARIANTS
    NoWayWithoutNodes
PROPERTIES
    Terminates
    KeepsPromise
