CONSTANTS
    c1 = c1
    c2 = c2
    Cells <- MCCells
    TaskCount = 2
    Reservation <- MCReservation
    Budget <- MCBudget
    Reports <- MCReports
    MaxStarts = 2
    MaxDirect = 1
SPECIFICATION Spec
INVARIANTS
    TotalsMatchTheCohorts
    ErrorsExplainTheStatus
    CompletedMatrixIsPaired
CHECK_DEADLOCK FALSE
PROPERTY CohortsKeepTheirAccounts
