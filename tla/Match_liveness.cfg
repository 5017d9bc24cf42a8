SPECIFICATION Spec
CONSTANTS
    p1 = p1
    p2 = p2
    p3 = p3
    p4 = p4
    NoOne = NoOne
    Players <- TwoPlayers
    CounterTerrorists = 1
    Terrorists = 1
    DetonationTime = 2
    Rounds = 2
    WaitingDuration = 1
    BuyDuration = 1
    AttackDuration = 2
    BetweenDuration = 1
    MaxLapse = 1
PROPERTIES
    MatchCompletes
    AbandonedMatchEnds
