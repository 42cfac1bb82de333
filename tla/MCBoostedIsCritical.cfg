SPECIFICATION ScreenSpec
CONSTANTS
    c1 = c1
    c2 = c2
    c3 = c3
    c4 = c4
    c5 = c5
    Clients = {c1, c2, c3}
    MaxRounds = 1
    Profiles = {}
    RecoveryThreshold = 800
    Unit = 1000
    Trained <- MCTrained
    Attacks <- MCAttacks
    SharedDirection <- MCDirection
SYMMETRY MCSymmetry
CHECK_DEADLOCK FALSE
INVARIANTS
    BoostedIsCritical
