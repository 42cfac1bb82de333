SPECIFICATION PipelineSpec
CONSTANTS
    c1 = c1
    c2 = c2
    Clients <- MCClients
    Scores <- MCScores
    AnomalyThreshold = 80
    LookbackRounds = 2
    LossSpikePriority = TRUE
    ClientOrder <- MCClientOrder
    SentinelOrder <- MCSentinelOrder
    Verdicts <- MCVerdicts
    MaxEvaluations = 3
CHECK_DEADLOCK FALSE
INVARIANTS
    PipelineTypeOK
    AverageHonoursVerdicts
    EvidencePrecedesProgress
    OffendersStayOut
    DeltasAppliedOnce
    LedgerTellsTheLineage
PROPERTIES
    RunIsSettled
    PromiseKept
