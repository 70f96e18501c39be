CONSTANTS
    Callers = {c1}
    Documents = {part, jig}
    Contents <- MCContents
    ActionLists <- MCActionLists
    Supported <- MCSupported
    Apply <- MCApply
    MaxReceipts = 4
    MaxRevision = 3
    Absent = Absent
    Failed = Failed
SPECIFICATION Spec
INVARIANTS
    UndoIsAStack
PROPERTIES
    ReceiptsTellTheTruth
    ImplementsVersionStack
