CONSTANTS
    Processes = {p1, p2, p3}
    EndPoints = {"idle", "open", "read", "probe", "unlink", "reopen", "write", "in"}
SPECIFICATION Spec
INVARIANTS
    ExclusiveUnlessUsurped
    NoLeakedFile
PROPERTIES
    StaleFileIsReclaimed
CHECK_DEADLOCK FALSE
