CONSTANTS
    Runs = {a, b}
    Requests <- MCRequests
    MaxRounds = 3
    MaxClients = 2
    NameOrder <- MCNameOrder
SPECIFICATION AttackSpec
INVARIANTS
    AttackTypeOK
    TruthMatchesDamage
    RunSuffersItsScenario
    CacheAnswersItsKey
SYMMETRY RunSymmetry
CHECK_DEADLOCK FALSE
