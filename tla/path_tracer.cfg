SPECIFICATION Spec
CONSTANTS
    Images <- SmallImages
    MinTileSize = 2
    MaxTileSize = 16
    NoTile = 1000
    GpuLists <- SmallGpuLists
CHECK_DEADLOCK FALSE
INVARIANTS
    TypeOK
    TilesCoverOnce
    NoTileBelowMinimum
    
    StatsDescribeTiles
    NothingOutlivesItsNeeds
    NothingLeaks
    CallsAreValid
    GpuIsSetUp
    SavedImageIsComplete
