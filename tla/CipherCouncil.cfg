SPECIFICATION FairCouncilSpec
CONSTANTS
    Order <- MCOrder
    Ciphers <- MCCiphers
    ProposerOrder <- MCProposerOrder
    MissionSizes <- MCMissionSizes
    VictoryTarget = 2
    MaxProposals = 2
    HistoryLimit = 3
    MaxAttempts = 2
    MemoryLimit = 3
    Setups <- MCSetups
INVARIANTS
    RecordsAgree
    VerdictIsEarned
PROPERTIES
    RunEnds
CHECK_DEADLOCK FALSE
