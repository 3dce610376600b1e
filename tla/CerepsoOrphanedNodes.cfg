SPECIFICATION MCSpec
CONSTANTS
    NodeIds = {1, 2, 3}
    WayIds = {1, 2}
    RelationIds = {1, 2, 3}
    Tiles = {"a", "b"}
    TileLists <- MCTileLists
    OldFiles <- MCOldFiles
    Databases <- MCDatabases
    Configs <- MCConfigs
CHECK_DEADLOCK FALSE
INVARIANT OrphanedNodesWritten
