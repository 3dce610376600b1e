SPECIFICATION Spec
CONSTANTS
    Generators <- MCGenerators
    Tiles <- MCTiles
    Lists <- MCLists
    QuadtreeId <- MCQuadtreeId
    MaxRuns = 2
CHECK_DEADLOCK FALSE
INVARIANTS
    PendingJobHasFile
    JobsPerSharer
    FreshTileHasJob
    SpoiledReadRepeated
    OneWriterWithoutForce
    EndedFilesComplete
PROPERTY
    RunsEnd
