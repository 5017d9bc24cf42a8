SPECIFICATION Spec
CONSTANTS
    p1 = p1
    p2 = p2
    glock1 = glock1
    glock2 = glock2
    glock3 = glock3
    glock4 = glock4
    ak1 = ak1
    ak2 = ak2
    NoGun = NoGun
    Players <- TwoPlayers
    Guns <- AllGuns
    Kind <- KindOf
    MapGuns <- AnAk
    InitialAmmo <- Ammo
    ClipSize <- Clip
    MaxAmmo <- Ammo
SYMMETRY Symmetry
INVARIANTS
    TypeOK
    OnePlaceEach
    HandsAreFull
    DeadAreDisarmed
PROPERTIES
    GunsSurvive
    AmmoIsOnlySpent
