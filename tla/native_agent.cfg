CONSTANTS
    Agents = {a1}
    Callers = {a1, user}
    Documents = {part}
    Contents <- MCContents
    ActionLists <- MCActionLists
    Supported <- MCSupported
    Apply <- MCApply
    Contracts <- MCContracts
    MaxRepairs = 1
    MaxReceipts = 4
    MaxRevision = 3
    Absent = Absent
    Failed = Failed
    Nothing = Nothing
SPECIFICATION RecordedSpec
INVARIANTS
    AgentTypeOK
    CommittedEditsSatisfyContract
    OnlyAConflictLeavesAnEdit
    RejectedApplyMeansOtherContent
    EpisodesTellTheOutcome
PROPERTIES
    EveryRunEnds
CHECK_DEADLOCK FALSE
