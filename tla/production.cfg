CONSTANTS
    good = good
    bad = bad
    none = none
    NoFile = NoFile
    Unusable = {none}
    Published <- MCPublished
    Datasets <- MCDatasets
    Cohorts = {"batch-01", "batch-02"}
    Base = "base"
    BaseTasks = {1}
    Composed = "composed"
    Completed = {"base", "composed"}
    Retried = {"batch-01"}
    Tampered = {"base", "batch-01", "composed"}
    Sources <- MCSources
    Packages = {"composed"}
    PackageOptions <- MCPackageOptions
    TargetSize = 3
    Contents = {good, bad}
    Sound = {good}
    MaxChanges = 1
SPECIFICATION Spec
INVARIANTS
    ArchivesAreVerified
    BatchesPartitionTheRest
    BatchesAreKeptApart
PROPERTIES
    CompositionsAreVerified
CHECK_DEADLOCK FALSE
