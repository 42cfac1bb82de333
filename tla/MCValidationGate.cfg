SPECIFICATION GateSpec
CONSTANTS
    c1 = c1
    c2 = c2
    Clients <- MCClients
    Scores <- MCScores
    AnomalyThreshold = 80
    LookbackRounds = 2
    LossSpikePriority = TRUE
    MaxEvaluations = 3
    Measurements <- MCMeasurements
    LossSpikeThreshold = 35
    AccDropThreshold = 15
    NaN = NaN
SYMMETRY MCSymmetry
CHECK_DEADLOCK FALSE
INVARIANTS
    GateTypeOK
    ExclusionMatchesWindow
    OffenderNeverSlipsThrough
    DegradationIsAnswered
    DriftIsStepwise
