SPECIFICATION SentinelSpec
CONSTANTS
    c1 = c1
    c2 = c2
    Clients = {c1, c2}
    MaxRounds = 3
    Profiles <- MCProfiles
    RecoveryThreshold = 800
SYMMETRY MCSymmetry
INVARIANTS
    SentinelTypeOK
    AcceptedIsHarmless
    EvidenceAloneQuarantines
    ScoreAloneNeverRecovers
    OffenceOutlastsAmends
    ReputationMatchesRecord
