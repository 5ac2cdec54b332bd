\* Every way one lifecycle can go, and that it ends whatever the tasks do.
CONSTANTS
    HasRunTimeout = TRUE
    SinkMayFail = TRUE
SPECIFICATION FairSpec
INVARIANTS
    SuccessIsAttested
    NothingIsLeftOpen
    CancellationPropagates
PROPERTIES
    LifecycleEnds
CHECK_DEADLOCK FALSE
