CONSTANTS
    Programs = {p, q}
    MaxTurns = 4
    MaxPrograms = 2
    Cap = 14
    BaseMargin = 1
    Buffer = 1
    Requested = 3
    SoftRequested = 2
    SoftLimit = 1
    HardLimit = 2
    Estimates = {2}
    Drifts = {0, 3}
    Overruns = {0, 4}
SPECIFICATION Spec
SYMMETRY Codes
INVARIANTS
    PublishedIsAccepted
    LatestAcceptedWins
    KeptWhenBudgetEnds
    NothingAfterTheBudget
    ChargesAreKept
    CrossesOnlyOnNewDrift
CHECK_DEADLOCK FALSE
