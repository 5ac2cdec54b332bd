\* Concurrent calls over a cache of one client, under three setups.
CONSTANTS
    c1 = c1
    c2 = c2
    k1 = k1
    k2 = k2
    s1 = s1
    None = None
    Scopes = {s1}
    Calls = {c1, c2}
    Keys = {k1, k2}
    KeyOf <- MCKeyOf
    ScopeOf <- MCScopeOf
    BudgetOf <- MCBudgetOf
    Setups <- MCSetups
    Usages <- MCUsages
    MaxInflight = 2
    MaxAttempts = 2
    CacheSize = 1
SPECIFICATION FairSpec
INVARIANTS
    BudgetIsKept
    TransportIsCharged
    ClientsAreKept
    TasksAreAccountedFor
PROPERTIES
    CallsEnd
CHECK_DEADLOCK FALSE
