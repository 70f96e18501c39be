CONSTANTS
    t1 = t1
    t2 = t2
    Fixtures <- MCFixtures
    Hashes = {h1}
    Reservation <- MCReservation
    Budget <- MCBudget
    Charges <- MCCharges
    Reportable <- MCWithinCap
    MaxStarts = 2
    MaxDetached = 2
SPECIFICATION Spec
INVARIANTS UnfinishedTasksCanBePublished
CHECK_DEADLOCK FALSE
