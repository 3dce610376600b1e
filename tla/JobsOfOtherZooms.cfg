SPECIFICATION Spec
CONSTANTS
    Generators <- MCGenerators
    Tiles <- MCTiles
    Lists <- MCLists
    QuadtreeId <- MCQuadtreeId
    MaxRuns = 1
CHECK_DEADLOCK FALSE
PROPERTY
    OnlyOwnJobCancelled
