SPECIFICATION LifecycleSpec
CONSTANTS
    r1 = r1
    r2 = r2
    Runs = {r1, r2}
    MaxRounds = 2
    MaxClients = 2
    Overrides <- MCOverrides
CHECK_DEADLOCK FALSE
INVARIANTS
    RunsStartAlike
