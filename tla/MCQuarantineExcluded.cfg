SPECIFICATION PipelineSpec
CONSTANTS
    c1 = c1
    c2 = c2
    Clients <- MCClients
    Scores <- MCScores
    AnomalyThreshold = 80
    LookbackRounds = 2
    LossSpikePriority = TRUE
    ClientOrder <- MCClientOrder
    SentinelOrder <- MCSentinelOrder
    Verdicts <- MCFewVerdicts
    MaxEvaluations = 2
CHECK_DEADLOCK FALSE
INVARIANT
    QuarantineMeansExcluded
