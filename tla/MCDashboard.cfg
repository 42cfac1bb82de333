SPECIFICATION DashboardSpec
CONSTANTS
    Runs = {r1, r2}
    r1 = r1
    r2 = r2
    None = None
    MaxProgress = 1
    MaxInFlight = 2
INVARIANTS
    ForeignDataIsFlagged
    SpinnerHasARequest
PROPERTIES
    DisplayNeverGoesBack
    CatchesUp
