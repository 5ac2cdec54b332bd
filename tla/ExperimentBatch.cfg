SPECIFICATION FairSpec
CONSTANTS
    Designs <- MCDesigns
    BatchDesigns <- MCBatchDesigns
    MaxStarts = 4
    MaxFaults = 3
INVARIANTS
    ScheduleIsBalanced
    RowsMatchArtifacts
    RefusalIsExplained
PROPERTIES
    BatchSettles
CHECK_DEADLOCK FALSE
