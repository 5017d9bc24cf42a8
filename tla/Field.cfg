SPECIFICATION Spec
CONSTANTS
    p1 = p1
    p2 = p2
    ByName <- TwoByName
    Joined <- TwoJoined
    Width = 2
    Height = 2
    Blocks <- CornerBlock
    CtSpawns <- Diagonals
    TtSpawns <- FreeCells
    Sites <- MiddleSite
    Block = 4
    Body = 3
    Outside <- OffTheMap
    Speed = 2
    MaxLapse = 1
    Holdable <- PairsHeld
    Margin = 2
INVARIANT
    TypeOK
PROPERTIES
    WallsStopWalkers
    SpawningEnds
