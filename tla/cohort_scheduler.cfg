CONSTANTS
    t1 = t1
    t2 = t2
    Fixtures <- MCFixtures
    Hashes = {h1, h2}
    Reservation <- MCReservation
    Budget <- MCBudget
    Charges <- MCCharges
    Reportable <- MCPastCap
    MaxStarts = 3
    MaxDetached = 1
SPECIFICATION Spec
INVARIANTS
    TypeOK
    SpendingWithinBudget
    ReservedWhileSpending
    OneAttemptPerStart
PROPERTIES
    CompletedIsFinal
    CompletionIsBacked
    ImplementsAccount
SYMMETRY HashSymmetry
CHECK_DEADLOCK FALSE
