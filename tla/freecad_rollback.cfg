CONSTANTS
    Documents = {part}
    Contents <- MCContents
    Hidden = {here, there}
    Blank <- NoFeatures
    Plain = here
    UndoModes = {1}
    ActionLists <- MCActionLists
    Creates <- MCCreates
    Preflight <- MCPreflight
    Apply <- MCApply
    MaxReceipts = 3
    MaxUserActs = 2
    Absent = Absent
    Gone = Gone
    Nobody = Nobody
    Made = {}
    Served = {part}
SPECIFICATION MacroSpec
PROPERTIES RollbacksUndoTheirOwn
