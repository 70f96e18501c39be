CONSTANTS
    first = first
    second = second
    empty = empty
    part = part
    NoFile = NoFile
    Unusable = {empty}
    Invocations = {i1, i2}
    Dataset = {first, second}
    Requests <- MCRequests
    Outcomes <- MCOutcomes
SYMMETRY Symmetry
SPECIFICATION RunnerSpec
INVARIANTS
    OwnRunUnlessDisturbed
    AllMeansAll
    CompletedRunsAreComplete
CHECK_DEADLOCK FALSE
