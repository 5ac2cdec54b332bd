SPECIFICATION Spec
CONSTANTS
    Others = {seatA, seatB, seatC, seatD}
    Wolves = {seatA, seatC}
    TotalWolves = 2
    OwnerIsWolf = FALSE
    MaxHistory = 6
    KeepGroups = 1
    SummaryLength = 2
    Requests = {final}
    NoRequest = NoRequest
    Kinds = {"human"}
    RuntimeOwned = {final}
    RequestPhase <- MCRequestPhase
    BoardPhase <- MCBoardPhase
    MaxInbox = 2
    MaxCancels = 2
    Usages = {0, 1, 2}
    Responses <- MCResponses
    Patches <- MCPatches
    Knowledge <- MCKnowledge
    MaxSteps = 3
    MaxGenerations = 3
    MaxToolCalls = 3
    MaxNoProgress = 2
    MaxTotalTokens = 1
    MaxResponseRetries = 1
    r1 = r1
    r2 = r2
    final = final
    seatA = seatA
    seatB = seatB
    seatC = seatC
    seatD = seatD
    c1 = c1
    c2 = c2
INVARIANTS PageCanAnswer
CHECK_DEADLOCK FALSE
