SPECIFICATION Spec
CONSTANTS
    Blocks = {"floor", "wall"}
    Collidable = {"wall"}
    Guns = {"ak47"}
    NoBlock = NoBlock
    NoCell = NoCell
    NoMap = NoMap
    DefaultRows = 2
    DefaultColumns = 2
    Added = 1
    MinSpawns = 1
    MinSites = 1
    GivenMaps <- SomeMaps
    MaxEdits = 2
INVARIANTS
    NothingInsideWalls
    ShownIsTheMap
    SavingIsIdempotent
PROPERTY
    LeftDragsPaint
CHECK_DEADLOCK FALSE
