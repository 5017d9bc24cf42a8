SPECIFICATION Spec
CONSTANTS
    p1 = p1
    p2 = p2
    p3 = p3
    Players <- ThreePlayers
    PlantTime = 2
    DefuseTime = 2
    DetonationTime = 3
    MaxLapse = 2
SYMMETRY Symmetry
INVARIANTS
    TypeOK
    OneBomb
    CarriersAreSound
    DefusalHasAuthor
PROPERTIES
    DefusalFreesEveryone
    ImplementsWorld
