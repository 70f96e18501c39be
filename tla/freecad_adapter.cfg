CONSTANTS
    Documents = {part, other}
    Contents <- MCContents
    Hidden = {here, there}
    Blank <- NoFeatures
    Plain = here
    UndoModes = {0, 1}
    ActionLists <- MCActionLists
    Creates <- MCCreates
    Preflight <- MCPreflight
    Apply <- MCApply
    MaxReceipts = 3
    MaxUserActs = 2
    Absent = Absent
    Gone = Gone
    Nobody = Nobody
    Made <- MCMade
    Served = {part}
SPECIFICATION MacroSpec
VIEW HostView
INVARIANTS
    TypeOK
PROPERTIES
    NoticedWorkIsSafe
    ChangesAreReported
    FailedMacrosAreTakenBack
