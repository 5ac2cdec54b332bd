\* One page and the sockets it leaves behind, every fault.
CONSTANTS
    Readers = {p}
    KeyOf <- MCKeyOf
    Keys <- MCKeys
    Guarded = {"play"}
    Sees <- MCSees
    Payloads <- MCPayloads
    Conns = {c1, c2}
    HistorySize = 2
    QueueSize = 2
    MaxClients = 2
    MaxEvents = 4
    MaxVersion = 2
    MaxFaults = 1
    Nobody = Nobody
SPECIFICATION FairSpec
INVARIANTS
    DurableBeforeVisible
PROPERTIES
    RevocationIsFinal
    DeliverySpec
    PagesCatchUpOnReplayableEvents
CHECK_DEADLOCK FALSE
