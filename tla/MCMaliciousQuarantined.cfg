SPECIFICATION SentinelSpec
CONSTANTS
    c1 = c1
    c2 = c2
    Clients = {c1, c2}
    MaxRounds = 2
    Profiles <- MCProfiles
    RecoveryThreshold = 800
INVARIANTS
    MaliciousIsQuarantined
