CONSTANTS
    Processes = {p1, p2, p3}
    EndPoints = {"idle"}
SPECIFICATION Spec
INVARIANTS MutualExclusion
CHECK_DEADLOCK FALSE
